------------------------- MODULE MatchRecorderProofs -------------------------
(***************************************************************************)
(* What holds of the recording of results and of the shutdown for any      *)
(* number of matches, players and ratings: the server stops only when      *)
(* every part has counted itself done, the UserManager ends up with the    *)
(* ratings of the database, in whatever order the pool's threads write and *)
(* tell, and the history adds up to the rating of everyone of whom no two  *)
(* matches were recorded at once.                                          *)
(*                                                                         *)
(* Five groups of facts follow each other: where a match is on its way to  *)
(* the pool (Places), the count of the writes under way (Pending), the     *)
(* transactions (Ratings), the countdown of the shutdown (Stopping), and   *)
(* the sums of the history (Balanced).                                     *)
(***************************************************************************)
EXTENDS MatchRecorder, FiniteSetTheorems, SequenceTheorems, WellFoundedInduction, TLAPS

-----------------------------------------------------------------------------
(* Queues.                                                                 *)

In(q, t) == \E i \in 1 .. Len(q) : q[i] = t
Single(q, t) == \A i, j \in 1 .. Len(q) : (q[i] = t /\ q[j] = t) => i = j

LEMMA Posted ==
    ASSUME NEW S, NEW q \in Seq(S), NEW x \in S
    PROVE  /\ Append(q, x) \in Seq(S)
           /\ \A t : In(Append(q, x), t) <=> (In(q, t) \/ t = x)
           /\ \A t : (Single(q, t) /\ t # x) => Single(Append(q, x), t)
           /\ ~In(q, x) => Single(Append(q, x), x)
  <1> DEFINE r == Append(q, x)
  <1>1. /\ Len(q) \in Nat /\ r \in Seq(S) /\ Len(r) = Len(q) + 1 /\ r[Len(q) + 1] = x
        /\ \A i \in 1 .. Len(q) : r[i] = q[i]
    BY AppendProperties
  <1> HIDE DEF r
  <1>2. \A i \in 1 .. Len(r) : i \in 1 .. Len(q) \/ i = Len(q) + 1
    BY <1>1
  <1>3. /\ Len(q) + 1 \in 1 .. Len(r)
        /\ \A i \in 1 .. Len(q) : i \in 1 .. Len(r)
    BY <1>1
  <1>4. \A t : In(r, t) <=> (In(q, t) \/ t = x)
    BY <1>1, <1>2, <1>3 DEF In
  <1>5. \A t : (Single(q, t) /\ t # x) => Single(r, t)
    BY <1>1, <1>2 DEF Single
  <1>6. ~In(q, x) => Single(r, x)
    BY <1>1, <1>2 DEF Single, In
  <1> QED BY <1>1, <1>4, <1>5, <1>6 DEF r

LEMMA Taken ==
    ASSUME NEW S, NEW q \in Seq(S), q # <<>>
    PROVE  /\ Tail(q) \in Seq(S) /\ Head(q) \in S /\ In(q, Head(q))
           /\ \A t : In(Tail(q), t) => In(q, t)
           /\ \A t : (In(q, t) /\ t # Head(q)) => In(Tail(q), t)
           /\ \A t : Single(q, t) => Single(Tail(q), t)
           /\ Single(q, Head(q)) => ~In(Tail(q), Head(q))
  <1> DEFINE r == Tail(q)
             h == Head(q)
  <1>1. /\ Len(q) \in Nat \ {0} /\ r \in Seq(S) /\ Len(r) = Len(q) - 1
        /\ \A i \in 1 .. Len(r) : r[i] = q[i + 1]
        /\ h = q[1] /\ h \in S
    BY EmptySeq, HeadTailProperties
  <1> HIDE DEF r, h
  <1>2. \A i \in 1 .. Len(r) : i + 1 \in 1 .. Len(q) /\ i + 1 # 1
    BY <1>1
  <1>3. \A i \in 1 .. Len(q) : i # 1 => (i - 1 \in 1 .. Len(r) /\ (i - 1) + 1 = i)
    BY <1>1
  <1>4. 1 \in 1 .. Len(q)
    BY <1>1
  <1>5. In(q, h)
    BY <1>1, <1>4 DEF In
  <1>6. \A t : In(r, t) => In(q, t)
    BY <1>1, <1>2 DEF In
  <1>7. \A t : (In(q, t) /\ t # h) => In(r, t)
    <2> SUFFICES ASSUME NEW i \in 1 .. Len(q), q[i] # h PROVE In(r, q[i])
      BY DEF In
    <2>1. i - 1 \in 1 .. Len(r) /\ (i - 1) + 1 = i
      BY <1>1, <1>3
    <2>2. r[i - 1] = q[i]
      BY <1>1, <2>1
    <2> QED BY <2>1, <2>2 DEF In
  <1>8. \A t : Single(q, t) => Single(r, t)
    <2> SUFFICES ASSUME NEW t, Single(q, t), NEW i \in 1 .. Len(r), NEW j \in 1 .. Len(r),
                        r[i] = t, r[j] = t
                 PROVE  i = j
      BY DEF Single
    <2>1. i + 1 = j + 1
      BY <1>1, <1>2 DEF Single
    <2> QED BY <2>1
  <1>9. Single(q, h) => ~In(r, h)
    BY <1>1, <1>2, <1>4 DEF Single, In
  <1> QED BY <1>1, <1>5, <1>6, <1>7, <1>8, <1>9 DEF r, h

LEMMA EmptyQueue ==
    \A t : ~In(<<>>, t) /\ Single(<<>>, t)
  BY DEF In, Single

-----------------------------------------------------------------------------
(* Where a match is on its way to the pool.                                *)

\* A result is handed on once: it waits on one of the strands and is not yet being
\* recorded, or it is being recorded and waits on none.
Once ==
    /\ \A t \in Threads : Single(global_strand_, t)
    /\ \A m \in Matches : Single(strand_, m)
    /\ \A m \in Matches :
            phase[m] # "over" =>
                ~In(global_strand_, m) /\ ~In(strand_, m) /\ stage[m] = "idle"
    /\ \A m \in Matches : In(global_strand_, m) => ~In(strand_, m) /\ stage[m] = "idle"
    /\ \A m \in Matches : In(strand_, m) => stage[m] = "idle"
    /\ stage[Main] = "idle" => ~In(global_strand_, Main)

Places ==
    /\ phase \in [Matches -> {"playing", "over", "cut"}]
    /\ global_strand_ \in Seq(Threads) /\ cut \subseteq Matches
    /\ strand_ \in Seq(Matches)
    /\ stage \in [Threads -> Stages]
    /\ Once

LEMMA MainIsNoMatch == Main \in Threads /\ Main \notin Matches /\ Matches \subseteq Threads
  BY RecorderAssumption DEF Threads

\* A thread that has begun goes on.
LEMMA GoesOn ==
    ASSUME Places, NEW t \in Threads, stage[t] # "idle", NEW to \in Stages \ {"idle"},
           stage' = [stage EXCEPT ![t] = to], UNCHANGED <<match_vars, strand_>>
    PROVE  Places'
  <1>1. \A v \in Threads : (stage'[v] = "idle") <=> (stage[v] = "idle")
    BY DEF Places
  <1>2. stage' \in [Threads -> Stages]
    BY DEF Places
  <1> QED BY <1>1, <1>2, MainIsNoMatch DEF Places, Once, match_vars

LEMMA InitPlaces == Init => Places
  <1> SUFFICES ASSUME Init PROVE Places
    OBVIOUS
  <1>1. Once
    BY EmptyQueue, MainIsNoMatch DEF Init, Once
  <1>2. stage \in [Threads -> Stages]
    BY DEF Init, Stages, Resting
  <1> QED BY <1>1, <1>2 DEF Init, Places

LEMMA NextPlaces == Places /\ [Next]_vars => Places'
  <1> SUFFICES ASSUME Places, [Next]_vars PROVE Places'
    OBVIOUS
  <1> USE MainIsNoMatch
  <1>0. /\ "idle" \in Stages
        /\ \A s \in {"out", "failed", "done", "insert", "read", "update", "sub", "set",
                     "flag", "count", "test", "move", "clear", "call"} :
                s \in Stages \ {"idle"}
    BY DEF Stages, Resting
  <1>1. ASSUME NEW m \in Matches, ConcludeMatch(m) PROVE Places'
    <2>1. /\ phase' \in [Matches -> {"playing", "over", "cut"}]
          /\ \A v \in Matches : v # m => phase'[v] = phase[v]
          /\ phase'[m] = "over"
      BY <1>1 DEF ConcludeMatch, Places
    <2>2. ~In(global_strand_, m) /\ ~In(strand_, m) /\ stage[m] = "idle"
      BY <1>1 DEF ConcludeMatch, Places, Once
    <2>3. /\ global_strand_' \in Seq(Threads)
          /\ \A t : In(global_strand_', t) <=> (In(global_strand_, t) \/ t = m)
          /\ \A t \in Threads : Single(global_strand_', t)
      BY <1>1, <2>2, Posted DEF ConcludeMatch, Places, Once
    <2>4. UNCHANGED <<cut, strand_, stage>>
      BY <1>1 DEF ConcludeMatch
    <2> QED BY <2>1, <2>2, <2>3, <2>4 DEF Places, Once
  <1>2. ASSUME NEW m \in Matches, CutMatch(m) PROVE Places'
    <2>1. /\ phase' \in [Matches -> {"playing", "over", "cut"}]
          /\ \A v \in Matches : v # m => phase'[v] = phase[v]
          /\ phase[m] # "over"
      BY <1>2 DEF CutMatch, Places
    <2>2. UNCHANGED <<global_strand_, cut, strand_, stage>>
      BY <1>2 DEF CutMatch
    <2> QED BY <2>1, <2>2 DEF Places, Once
  <1>3. ASSUME NEW m \in Matches, DoRecord(m) PROVE Places'
    <2>1. PICK to \in Stages \ {"idle"} :
            stage[m] # "idle" /\ (stage' = [stage EXCEPT ![m] = to] \/ stage' = stage)
      BY <1>0, <1>3 DEF DoRecord, InsertMatch, ReadElos, UpdateElo, CommitElos, FailRecord,
                        EndWrite, Step, Unfinished
    <2>2. UNCHANGED <<match_vars, strand_>>
      BY <1>3 DEF DoRecord, InsertMatch, ReadElos, UpdateElo, CommitElos, FailRecord,
                  EndWrite
    <2>3. CASE stage' = stage
      BY <2>2, <2>3 DEF Places, Once, match_vars
    <2> QED BY <2>1, <2>2, <2>3, GoesOn
  <1>4. ASSUME NEW t \in Threads, TryFinish(t) PROVE Places'
    <2>1. PICK to \in Stages \ {"idle"} :
            stage[t] # "idle" /\ stage' = [stage EXCEPT ![t] = to]
      BY <1>0, <1>4 DEF TryFinish, TestFlag, TestCount, TestCallback, MoveCallback,
                        ClearCallback, CallCallback, Step
    <2>2. UNCHANGED <<match_vars, strand_>>
      BY <1>4 DEF TryFinish, TestFlag, TestCount, TestCallback, MoveCallback,
                  ClearCallback, CallCallback
    <2> QED BY <2>1, <2>2, GoesOn
  <1>5. ASSUME TakeResults PROVE Places'
    <2> DEFINE m == Head(global_strand_)
    <2>1. global_strand_ # <<>> /\ m # Main
      BY <1>5 DEF TakeResults
    <2>2. /\ m \in Threads /\ In(global_strand_, m)
          /\ global_strand_' \in Seq(Threads)
          /\ \A t : In(global_strand_', t) => In(global_strand_, t)
          /\ \A t \in Threads : Single(global_strand_', t)
          /\ ~In(global_strand_', m)
      BY <1>5, <2>1, Taken DEF TakeResults, Places, Once
    <2>3. m \in Matches
      BY <2>1, <2>2 DEF Threads
    <2>4. ~In(strand_, m) /\ stage[m] = "idle" /\ phase[m] = "over"
      BY <2>2, <2>3 DEF Places, Once
    <2>5. strand_' = Append(strand_, m) /\ UNCHANGED <<phase, cut, stage>>
      BY <1>5 DEF TakeResults
    <2> HIDE DEF m
    <2>6. /\ strand_' \in Seq(Matches)
          /\ \A t : In(strand_', t) <=> (In(strand_, t) \/ t = m)
          /\ \A t \in Matches : Single(strand_', t)
      BY <2>3, <2>4, <2>5, Posted DEF Places, Once
    <2> QED BY <2>2, <2>3, <2>4, <2>5, <2>6 DEF Places, Once
  <1>6. ASSUME record_match PROVE Places'
    <2> DEFINE m == Head(strand_)
    <2>1. /\ strand_ # <<>> /\ stage' = [stage EXCEPT ![m] = "insert"]
          /\ strand_' = Tail(strand_) /\ UNCHANGED <<phase, global_strand_, cut>>
      BY <1>6 DEF record_match, match_vars
    <2>2. /\ m \in Matches /\ In(strand_, m)
          /\ strand_' \in Seq(Matches)
          /\ \A t : In(strand_', t) => In(strand_, t)
          /\ \A t \in Matches : Single(strand_', t)
          /\ ~In(strand_', m)
      BY <2>1, Taken DEF Places, Once
    <2>3. ~In(global_strand_, m) /\ phase[m] = "over"
      BY <2>2 DEF Places, Once
    <2> HIDE DEF m
    <2>4. /\ stage' \in [Threads -> Stages]
          /\ \A t \in Threads : t # m => stage'[t] = stage[t]
      BY <1>0, <2>1, <2>2 DEF Places
    <2> QED BY <2>1, <2>2, <2>3, <2>4 DEF Places, Once
  <1>7. ASSUME notify_elo_update PROVE Places'
    BY <1>7 DEF notify_elo_update, Places, Once, match_vars
  <1>8. ASSUME Shutdown PROVE Places'
    <2>1. /\ stage[Main] = "idle" /\ stage' = [stage EXCEPT ![Main] = "set"]
          /\ global_strand_' = Append(global_strand_, Main)
          /\ UNCHANGED <<phase, cut, strand_>>
      BY <1>8 DEF Shutdown, Step
    <2>2. /\ stage' \in [Threads -> Stages] /\ stage'[Main] # "idle"
          /\ \A m \in Matches : stage'[m] = stage[m]
      BY <1>0, <2>1 DEF Places
    <2>3. /\ global_strand_' \in Seq(Threads)
          /\ \A t : In(global_strand_', t) <=> (In(global_strand_, t) \/ t = Main)
          /\ \A t \in Threads : Single(global_strand_', t)
      BY <2>1, Posted DEF Places, Once
    <2> QED BY <2>1, <2>2, <2>3 DEF Places, Once
  <1>9. ASSUME ShutdownMatches PROVE Places'
    <2>1. /\ global_strand_ # <<>> /\ global_strand_' = Tail(global_strand_)
          /\ cut' = {m \in Matches : phase[m] = "playing"}
          /\ UNCHANGED <<phase, strand_, stage>>
      BY <1>9 DEF ShutdownMatches
    <2>2. /\ global_strand_' \in Seq(Threads)
          /\ \A t : In(global_strand_', t) => In(global_strand_, t)
          /\ \A t \in Threads : Single(global_strand_', t)
      BY <2>1, Taken DEF Places, Once
    <2>3. cut' \subseteq Matches
      BY <2>1
    <2> QED BY <2>1, <2>2, <2>3 DEF Places, Once
  <1>10. ASSUME SetFlag \/ FinishShutdown PROVE Places'
    <2>1. PICK to \in Stages \ {"idle"} :
            stage[Main] # "idle" /\ stage' = [stage EXCEPT ![Main] = to]
      BY <1>0, <1>10 DEF SetFlag, FinishShutdown, Step
    <2>2. UNCHANGED <<match_vars, strand_>>
      BY <1>10 DEF SetFlag, FinishShutdown
    <2> QED BY <2>1, <2>2, GoesOn
  <1>11. ASSUME UNCHANGED vars PROVE Places'
    BY <1>11 DEF vars, Places, Once, match_vars
  <1> QED BY <1>1, <1>2, <1>3, <1>4, <1>5, <1>6, <1>7, <1>8, <1>9, <1>10, <1>11
          DEF Next, Ended

-----------------------------------------------------------------------------
(* The countdown of the shutdown.                                          *)

StopTypes ==
    /\ shutting_down_ \in BOOLEAN /\ shutdown_callback_ \in BOOLEAN
    /\ cb \subseteq Threads
    /\ remaining_shutdown_tasks_ \in 0 .. SIZE_MAX
    /\ server \in {"up", "stopped", "terminated"}
    /\ collided \in BOOLEAN

\* Unless two threads meet in try_finish_shutdown, one alone gets the callback, and it
\* clears it before it calls it.
Alone ==
    /\ shutdown_callback_ => \A t \in cb : stage[t] = "clear"
    /\ ~collided =>
        /\ \A t, v \in Inside : t = v
        /\ Inside # {} => shutdown_callback_
        /\ \A t, v \in cb : t = v

\* The three parts that count themselves: the matches, the Database and the sessions.
Told == ~In(global_strand_, Main)
Drained == ~shutdown_callback_ /\ \A t \in cb : stage[t] # "call"
Closed == stage[Main] = "done"
Done == (IF Told THEN 1 ELSE 0) + (IF Drained THEN 1 ELSE 0) + (IF Closed THEN 1 ELSE 0)

\* No part counts twice: what is left and what is done make up the three.
Counting ==
    ~collided =>
        IF stage[Main] = "idle"
        THEN /\ remaining_shutdown_tasks_ # 1
             /\ remaining_shutdown_tasks_ # 0 => Drained
        ELSE remaining_shutdown_tasks_ + Done >= 3

Stops == server = "stopped" => (collided \/ (Told /\ ~shutdown_callback_ /\ Closed))

Stopping == StopTypes /\ Alone /\ Counting /\ Stops

LEMMA DoneRange == Done \in 0 .. 3 /\ (Done = 3 => (Told /\ Drained /\ Closed))
  BY DEF Done

\* A part that counts itself done for the first time.
LEMMA CountsDown ==
    ASSUME notify_subsystem_shutdown, remaining_shutdown_tasks_ \in 0 .. SIZE_MAX,
           server \in {"up", "stopped", "terminated"}
    PROVE  /\ remaining_shutdown_tasks_' \in 0 .. SIZE_MAX
           /\ server' \in {"up", "stopped", "terminated"}
           /\ (server' = "stopped" /\ server # "stopped") =>
                    (remaining_shutdown_tasks_ = 1 /\ remaining_shutdown_tasks_' = 0)
           /\ remaining_shutdown_tasks_ = 0 => remaining_shutdown_tasks_' = SIZE_MAX
           /\ remaining_shutdown_tasks_ # 0 =>
                    remaining_shutdown_tasks_' = remaining_shutdown_tasks_ - 1
  <1>1. SIZE_MAX \in Nat /\ SIZE_MAX > 0
    BY RecorderAssumption
  <1>2. remaining_shutdown_tasks_' =
            IF remaining_shutdown_tasks_ = 0 THEN SIZE_MAX ELSE remaining_shutdown_tasks_ - 1
    BY DEF notify_subsystem_shutdown
  <1>3. server' = IF remaining_shutdown_tasks_' = 0 THEN "stopped" ELSE server
    BY DEF notify_subsystem_shutdown
  <1> QED BY <1>1, <1>2, <1>3

LEMMA OneLess ==
    ASSUME SHUTDOWN_COMPONENTS_COUNT = 3,
           notify_subsystem_shutdown, remaining_shutdown_tasks_ \in 0 .. SIZE_MAX,
           server \in {"up", "stopped", "terminated"}, Stops,
           ~collided, ~collided', stage'[Main] # "idle",
           remaining_shutdown_tasks_ + Done >= 3, Done' >= Done + 1,
           (Told => Told') /\ (~shutdown_callback_ => ~shutdown_callback_')
                /\ (Closed => Closed')
    PROVE  Counting' /\ Stops'
  <1>1. SIZE_MAX \in Nat /\ SIZE_MAX > 3
    BY RecorderAssumption
  <1>2. Done \in 0 .. 3 /\ Done' \in 0 .. 3
    BY DoneRange DEF Done
  <1> DEFINE d == Done
             e == Done'
             n == remaining_shutdown_tasks_
             k == remaining_shutdown_tasks_'
  <1>3. /\ d \in 0 .. 3 /\ e \in 0 .. 3 /\ e >= d + 1 /\ n + d >= 3 /\ n \in 0 .. SIZE_MAX
        /\ n = 0 => k = SIZE_MAX
        /\ n # 0 => k = n - 1
    BY <1>2, CountsDown
  <1> HIDE DEF d, e, n, k
  <1>4. k + e >= 3 /\ (n = 1 => e = 3)
    BY <1>1, <1>3
  <1>5. Counting'
    BY <1>4 DEF Counting, e, k
  <1>6. CASE server' = "stopped" /\ server # "stopped"
    <2>1. Done' = 3
      BY <1>4, <1>6, CountsDown DEF n, e
    <2>2. (Told /\ Drained /\ Closed)'
      BY <2>1 DEF Done
    <2> QED BY <1>5, <2>2 DEF Stops, Drained
  <1>7. CASE server' # "stopped"
    BY <1>5, <1>7 DEF Stops
  <1>8. CASE server = "stopped"
    BY <1>5, <1>8 DEF Stops
  <1> QED BY <1>6, <1>7, <1>8

\* A step outside the critical stretch of try_finish_shutdown.
LEMMA Elsewhere ==
    ASSUME Stopping, shutting_down_' \in BOOLEAN,
           \A t \in Threads : /\ (stage'[t] = "move") <=> (stage[t] = "move")
                              /\ (stage'[t] = "clear") <=> (stage[t] = "clear")
                              /\ (stage'[t] = "call") <=> (stage[t] = "call"),
           (stage'[Main] = "idle") <=> (stage[Main] = "idle"),
           (stage'[Main] = "done") <=> (stage[Main] = "done"),
           In(global_strand_', Main) <=> In(global_strand_, Main),
           UNCHANGED <<shutdown_callback_, cb, remaining_shutdown_tasks_, server, collided>>
    PROVE  Stopping'
  <1>1. StopTypes'
    BY DEF Stopping, StopTypes
  <1>2. Inside' = Inside
    BY DEF Inside
  <1>3. Alone'
    BY <1>2 DEF Stopping, StopTypes, Alone
  <1>4. (Told' <=> Told) /\ (Drained' <=> Drained) /\ (Closed' <=> Closed)
    BY DEF Told, Drained, Closed, Stopping, StopTypes
  <1>5. Done' = Done
    BY <1>4 DEF Done
  <1>6. Counting'
    BY <1>4, <1>5 DEF Stopping, Counting
  <1>7. Stops'
    BY <1>4 DEF Stopping, Stops
  <1> QED BY <1>1, <1>3, <1>6, <1>7 DEF Stopping

LEMMA InitStopping == Init => Stopping
  <1> SUFFICES ASSUME Init PROVE Stopping
    OBVIOUS
  <1>1. stage[Main] = "idle" /\ \A t \in Threads : stage[t] = "idle"
    BY MainIsNoMatch DEF Init
  <1>2. StopTypes
    <2>1. 0 \in 0 .. SIZE_MAX
      BY RecorderAssumption
    <2> QED BY <2>1 DEF Init, StopTypes
  <1>3. Alone
    BY <1>1 DEF Init, Alone, Inside
  <1>4. Counting
    BY <1>1 DEF Init, Counting
  <1>5. Stops
    BY DEF Init, Stops
  <1> QED BY <1>2, <1>3, <1>4, <1>5 DEF Stopping

LEMMA NextStopping ==
    ASSUME SHUTDOWN_COMPONENTS_COUNT = 3, Places, Stopping, [Next]_vars
    PROVE  Stopping'
  <1> USE MainIsNoMatch
  <1>a. stage \in [Threads -> Stages]
    BY DEF Places
  <1>1. ASSUME NEW m \in Matches, ConcludeMatch(m) \/ CutMatch(m) PROVE Stopping'
    <2>1. UNCHANGED <<stage, stop_vars>> /\ m # Main
      BY <1>1 DEF ConcludeMatch, CutMatch
    <2>2. In(global_strand_', Main) <=> In(global_strand_, Main)
      <3>1. CASE ConcludeMatch(m)
        <4>1. global_strand_' = Append(global_strand_, m)
          BY <3>1 DEF ConcludeMatch
        <4>2. In(Append(global_strand_, m), Main) <=> In(global_strand_, Main)
          BY <2>1, Posted DEF Places
        <4> QED BY <4>1, <4>2
      <3>2. CASE CutMatch(m)
        BY <3>2 DEF CutMatch
      <3> QED BY <1>1, <3>1, <3>2
    <2> QED BY <2>1, <2>2, Elsewhere DEF Stopping, StopTypes, stop_vars
  <1>2. ASSUME NEW m \in Matches, DoRecord(m) PROVE Stopping'
    <2>1. UNCHANGED <<match_vars, stop_vars>> /\ m # Main
      BY <1>2 DEF DoRecord, InsertMatch, ReadElos, UpdateElo, CommitElos, FailRecord,
                  EndWrite
    <2>2. /\ stage[m] \notin {"move", "clear", "call"}
          /\ \E to \in {"read", "sub", "update", "failed", "flag"} :
                stage' = [stage EXCEPT ![m] = to] \/ stage' = stage
      BY <1>2 DEF DoRecord, InsertMatch, ReadElos, UpdateElo, CommitElos, FailRecord,
                  EndWrite, Step, Unfinished
    <2> QED BY <1>a, <2>1, <2>2, Elsewhere DEF Stopping, StopTypes, stop_vars, match_vars
  <1>3. ASSUME TakeResults PROVE Stopping'
    <2>1. UNCHANGED <<stage, stop_vars>>
      BY <1>3 DEF TakeResults
    <2>2. In(global_strand_', Main) <=> In(global_strand_, Main)
      BY <1>3, Taken DEF TakeResults, Places
    <2> QED BY <2>1, <2>2, Elsewhere DEF Stopping, StopTypes, stop_vars
  <1>4. ASSUME record_match PROVE Stopping'
    <2>1. /\ UNCHANGED <<match_vars, stop_vars>> /\ strand_ # <<>>
          /\ stage' = [stage EXCEPT ![Head(strand_)] = "insert"]
      BY <1>4 DEF record_match
    <2>2. Head(strand_) \in Matches /\ stage[Head(strand_)] = "idle"
      BY <2>1, Taken DEF Places, Once
    <2> QED BY <1>a, <2>1, <2>2, Elsewhere DEF Stopping, StopTypes, stop_vars, match_vars
  <1>5. ASSUME notify_elo_update \/ UNCHANGED vars PROVE Stopping'
    BY <1>5, Elsewhere DEF notify_elo_update, vars, Stopping, StopTypes, stop_vars, match_vars
  <1>6. ASSUME NEW t \in Threads, TestFlag(t) \/ TestCount(t) PROVE Stopping'
    <2>1. UNCHANGED <<match_vars, stop_vars>>
      BY <1>6 DEF TestFlag, TestCount
    <2>2. /\ stage[t] \in {"flag", "count"}
          /\ \E to \in {"count", "out", "test"} : stage' = [stage EXCEPT ![t] = to]
      BY <1>6 DEF TestFlag, TestCount, Step
    <2> QED BY <1>a, <2>1, <2>2, Elsewhere DEF Stopping, StopTypes, stop_vars, match_vars
  <1>7. ASSUME SetFlag PROVE Stopping'
    <2>1. /\ UNCHANGED <<match_vars, shutdown_callback_, cb, remaining_shutdown_tasks_,
                         server, collided>>
          /\ shutting_down_' \in BOOLEAN
          /\ stage[Main] = "set" /\ stage' = [stage EXCEPT ![Main] = "flag"]
      BY <1>7 DEF SetFlag, Step
    <2> QED BY <1>a, <2>1, Elsewhere DEF match_vars
  <1>8. ASSUME NEW t \in Threads, TestCallback(t) PROVE Stopping'
    <2>1. /\ UNCHANGED <<global_strand_, shutting_down_, shutdown_callback_, cb,
                         remaining_shutdown_tasks_, server>>
          /\ stage[t] = "test"
          /\ stage' = [stage EXCEPT ![t] = IF shutdown_callback_ THEN "move" ELSE "out"]
          /\ collided' = (collided \/ (shutdown_callback_ /\ Inside # {}))
      BY <1>8 DEF TestCallback, Step, match_vars
    <2>2. /\ \A v \in Threads : v # t => stage'[v] = stage[v]
          /\ stage'[t] = IF shutdown_callback_ THEN "move" ELSE "out"
      BY <1>a, <2>1
    <2>3. StopTypes' /\ collided' \in BOOLEAN
      BY <2>1 DEF Stopping, StopTypes
    <2>4. Inside' = IF shutdown_callback_ THEN Inside \cup {t} ELSE Inside
      BY <2>1, <2>2 DEF Inside
    <2>5. ~collided' => (~collided /\ (shutdown_callback_ => Inside = {}))
      BY <2>1 DEF Stopping, StopTypes
    <2>6. Alone'
      BY <2>1, <2>2, <2>4, <2>5 DEF Stopping, StopTypes, Alone
    <2>7. (Told' <=> Told) /\ (Drained' <=> Drained) /\ (Closed' <=> Closed)
           /\ ((stage'[Main] = "idle") <=> (stage[Main] = "idle"))
      BY <2>1, <2>2 DEF Told, Drained, Closed, Stopping, StopTypes
    <2>8. Done' = Done
      BY <2>7 DEF Done
    <2> QED BY <2>1, <2>3, <2>5, <2>6, <2>7, <2>8 DEF Stopping, Counting, Stops
  <1>9. ASSUME NEW t \in Threads, MoveCallback(t) PROVE Stopping'
    <2>1. /\ UNCHANGED <<global_strand_, shutting_down_, shutdown_callback_,
                         remaining_shutdown_tasks_, server, collided>>
          /\ stage[t] = "move" /\ stage' = [stage EXCEPT ![t] = "clear"]
          /\ cb' = IF shutdown_callback_ THEN cb \cup {t} ELSE cb
      BY <1>9 DEF MoveCallback, Step, match_vars
    <2>2. /\ \A v \in Threads : v # t => stage'[v] = stage[v]
          /\ stage'[t] = "clear"
      BY <1>a, <2>1
    <2>3. StopTypes'
      BY <2>1 DEF Stopping, StopTypes
    <2>4. Inside' = Inside /\ t \in Inside
      BY <2>1, <2>2 DEF Inside
    <2>5. shutdown_callback_ => \A v \in cb : v \in Inside
      BY DEF Stopping, StopTypes, Alone, Inside
    <2>6. Alone'
      BY <2>1, <2>2, <2>4, <2>5 DEF Stopping, StopTypes, Alone
    <2>7. (Told' <=> Told) /\ (Drained' <=> Drained) /\ (Closed' <=> Closed)
           /\ ((stage'[Main] = "idle") <=> (stage[Main] = "idle"))
      BY <2>1, <2>2 DEF Told, Drained, Closed, Stopping, StopTypes
    <2>8. Done' = Done
      BY <2>7 DEF Done
    <2> QED BY <2>1, <2>3, <2>6, <2>7, <2>8 DEF Stopping, Counting, Stops
  <1>10. ASSUME NEW t \in Threads, ClearCallback(t) PROVE Stopping'
    <2>1. /\ UNCHANGED <<global_strand_, shutting_down_, cb,
                         remaining_shutdown_tasks_, server, collided>>
          /\ stage[t] = "clear" /\ stage' = [stage EXCEPT ![t] = "call"]
          /\ shutdown_callback_' = FALSE
      BY <1>10 DEF ClearCallback, Step, match_vars
    <2>2. /\ \A v \in Threads : v # t => stage'[v] = stage[v]
          /\ stage'[t] = "call"
      BY <1>a, <2>1
    <2>3. StopTypes'
      BY <2>1 DEF Stopping, StopTypes
    <2>4. Inside' = Inside \ {t} /\ t \in Inside
      BY <2>1, <2>2 DEF Inside
    <2>5. Alone'
      BY <2>1, <2>2, <2>4 DEF Stopping, StopTypes, Alone
    <2>6. (Told' <=> Told) /\ (Closed' <=> Closed)
           /\ ((stage'[Main] = "idle") <=> (stage[Main] = "idle"))
      BY <2>1, <2>2 DEF Told, Closed
    <2>7. ~collided => ~Drained
      BY <2>4 DEF Stopping, Alone, Drained
    <2>8. ~collided => Done' >= Done
      <3> SUFFICES ASSUME ~collided PROVE Done' >= Done
        OBVIOUS
      <3>1. Done = (IF Told THEN 1 ELSE 0) + 0 + (IF Closed THEN 1 ELSE 0)
        BY <2>7 DEF Done
      <3>2. Done' = (IF Told THEN 1 ELSE 0) + (IF Drained' THEN 1 ELSE 0)
                        + (IF Closed THEN 1 ELSE 0)
        BY <2>6 DEF Done
      <3> QED BY <3>1, <3>2
    <2>9. Counting'
      <3> SUFFICES ASSUME ~collided PROVE Counting'
        BY <2>1 DEF Counting
      <3>1. Done \in 0 .. 3 /\ Done' \in 0 .. 3
        BY DoneRange DEF Done
      <3>2. remaining_shutdown_tasks_ \in Nat
        BY DEF Stopping, StopTypes
      <3>3. CASE stage[Main] = "idle"
        BY <2>1, <2>6, <2>7, <3>3 DEF Stopping, Counting
      <3>4. CASE stage[Main] # "idle"
        <4>1. remaining_shutdown_tasks_ + Done >= 3
          BY <3>4 DEF Stopping, Counting
        <4>2. remaining_shutdown_tasks_ + Done' >= 3
          <5> DEFINE d == Done
                     e == Done'
          <5>1. d \in 0 .. 3 /\ e \in 0 .. 3 /\ e >= d
                    /\ remaining_shutdown_tasks_ + d >= 3
            BY <2>8, <3>1, <4>1
          <5> HIDE DEF d, e
          <5>2. remaining_shutdown_tasks_ + e >= 3
            BY <3>2, <5>1
          <5> QED BY <5>2 DEF e
        <4> QED BY <2>1, <2>6, <3>4, <4>2 DEF Counting
      <3> QED BY <3>3, <3>4
    <2>10. Stops'
      BY <2>1, <2>6 DEF Stopping, Stops
    <2> QED BY <2>3, <2>5, <2>9, <2>10 DEF Stopping
  <1>11. ASSUME NEW t \in Threads, CallCallback(t) PROVE Stopping'
    <2>1. /\ UNCHANGED <<global_strand_, shutting_down_, shutdown_callback_, cb, collided>>
          /\ stage[t] = "call" /\ stage' = [stage EXCEPT ![t] = "out"]
      BY <1>11 DEF CallCallback, Step, match_vars
    <2>2. /\ \A v \in Threads : v # t => stage'[v] = stage[v]
          /\ stage'[t] = "out"
      BY <1>a, <2>1
    <2>3. Inside' = Inside
      BY <2>1, <2>2 DEF Inside
    <2>4. t \in cb => ~shutdown_callback_
      BY <2>1 DEF Stopping, Alone
    <2>5. Alone'
      BY <2>1, <2>2, <2>3 DEF Stopping, StopTypes, Alone
    <2>6. (Told' <=> Told) /\ (Closed' <=> Closed)
           /\ ((stage'[Main] = "idle") <=> (stage[Main] = "idle"))
      BY <2>1, <2>2 DEF Told, Closed
    <2>7. CASE t \in cb
      <3>1. notify_subsystem_shutdown
        BY <1>11, <2>7 DEF CallCallback
      <3>2. StopTypes'
        BY <2>1, <3>1, CountsDown DEF Stopping, StopTypes
      <3>3. CASE collided
        BY <2>1, <2>5, <3>2, <3>3 DEF Stopping, Counting, Stops
      <3>4. CASE ~collided
        <4>1. ~Drained /\ Drained'
          BY <2>1, <2>2, <2>4, <2>7, <3>4 DEF Stopping, Alone, Drained
        <4>2. Done' >= Done + 1
          <5>1. Done = (IF Told THEN 1 ELSE 0) + 0 + (IF Closed THEN 1 ELSE 0)
            BY <4>1 DEF Done
          <5>2. Done' = (IF Told THEN 1 ELSE 0) + 1 + (IF Closed THEN 1 ELSE 0)
            BY <2>6, <4>1 DEF Done
          <5> QED BY <5>1, <5>2
        <4>3. CASE stage[Main] = "idle"
          <5>1. remaining_shutdown_tasks_ = 0
            BY <3>4, <4>1, <4>3 DEF Stopping, Counting
          <5>2. remaining_shutdown_tasks_' = SIZE_MAX /\ SIZE_MAX # 1 /\ SIZE_MAX \in Nat
            BY <3>1, <5>1, CountsDown, RecorderAssumption DEF Stopping, StopTypes
          <5>3. Counting'
            BY <2>6, <4>1, <4>3, <5>2 DEF Counting
          <5>4. server' = "stopped" => server = "stopped"
            BY <3>1, <5>1, CountsDown DEF Stopping, StopTypes
          <5>5. Stops'
            BY <2>1, <2>6, <5>4 DEF Stopping, Stops
          <5> QED BY <2>5, <3>2, <5>3, <5>5 DEF Stopping
        <4>4. CASE stage[Main] # "idle"
          <5>1. Counting' /\ Stops'
            BY <2>1, <2>6, <3>1, <3>4, <4>2, <4>4, OneLess
               DEF Stopping, StopTypes, Counting
          <5> QED BY <2>5, <3>2, <5>1 DEF Stopping
        <4> QED BY <4>3, <4>4
      <3> QED BY <3>3, <3>4 DEF Stopping, StopTypes
    <2>8. CASE t \notin cb
      <3>1. /\ remaining_shutdown_tasks_' = remaining_shutdown_tasks_
            /\ server' \in {"terminated", server}
        BY <1>11, <2>8 DEF CallCallback
      <3>2. Drained' <=> Drained
        BY <2>1, <2>2, <2>8 DEF Drained, Stopping, StopTypes
      <3>3. Done' = Done
        BY <2>6, <3>2 DEF Done
      <3>4. StopTypes'
        BY <2>1, <3>1 DEF Stopping, StopTypes
      <3> QED BY <2>1, <2>5, <2>6, <3>1, <3>2, <3>3, <3>4 DEF Stopping, Counting, Stops
    <2> QED BY <2>7, <2>8
  <1>12. ASSUME Shutdown PROVE Stopping'
    <2>1. /\ UNCHANGED <<shutting_down_, shutdown_callback_, cb, server, collided>>
          /\ server = "up"
          /\ stage[Main] = "idle" /\ stage' = [stage EXCEPT ![Main] = "set"]
          /\ remaining_shutdown_tasks_' = 3
      BY <1>12 DEF Shutdown, Step, IoRuns
    <2>2. /\ \A v \in Threads : v # Main => stage'[v] = stage[v]
          /\ stage'[Main] = "set"
      BY <1>a, <2>1
    <2>3. 3 \in 0 .. SIZE_MAX
      BY RecorderAssumption
    <2>4. StopTypes'
      BY <2>1, <2>3 DEF Stopping, StopTypes
    <2>5. Inside' = Inside
      BY <2>1, <2>2 DEF Inside
    <2>6. Alone'
      BY <2>1, <2>2, <2>5 DEF Stopping, StopTypes, Alone
    <2>7. Done' \in Nat
      BY DEF Done
    <2>8. Counting'
      <3> DEFINE e == Done'
      <3>1. e \in Nat
        BY <2>7
      <3> HIDE DEF e
      <3>2. 3 + e >= 3
        BY <3>1
      <3> QED BY <2>1, <2>2, <3>2 DEF Counting, e
    <2>9. Stops'
      BY <2>1 DEF Stops
    <2> QED BY <2>4, <2>6, <2>8, <2>9 DEF Stopping
  <1>13. ASSUME ShutdownMatches PROVE Stopping'
    <2>1. /\ UNCHANGED <<stage, shutting_down_, shutdown_callback_, cb, collided>>
          /\ notify_subsystem_shutdown
          /\ global_strand_ # <<>> /\ Head(global_strand_) = Main
          /\ global_strand_' = Tail(global_strand_)
      BY <1>13 DEF ShutdownMatches
    <2>2. ~Told /\ Told' /\ stage[Main] # "idle"
      BY <2>1, Taken DEF Told, Places, Once
    <2>3. (Drained' <=> Drained) /\ (Closed' <=> Closed)
      BY <2>1 DEF Drained, Closed
    <2>4. Done' >= Done + 1
      <3>1. Done = 0 + (IF Drained THEN 1 ELSE 0) + (IF Closed THEN 1 ELSE 0)
        BY <2>2 DEF Done
      <3>2. Done' = 1 + (IF Drained THEN 1 ELSE 0) + (IF Closed THEN 1 ELSE 0)
        BY <2>2, <2>3 DEF Done
      <3> QED BY <3>1, <3>2
    <2>5. StopTypes'
      BY <2>1, CountsDown DEF Stopping, StopTypes
    <2>6. Alone'
      BY <2>1 DEF Stopping, Alone, Inside
    <2>7. CASE collided
      BY <2>1, <2>5, <2>6, <2>7 DEF Stopping, Counting, Stops
    <2>8. CASE ~collided
      <3>1. Counting' /\ Stops'
        BY <2>1, <2>2, <2>3, <2>4, <2>8, OneLess DEF Stopping, StopTypes, Counting
      <3> QED BY <2>5, <2>6, <3>1 DEF Stopping
    <2> QED BY <2>7, <2>8 DEF Stopping, StopTypes
  <1>14. ASSUME FinishShutdown PROVE Stopping'
    <2>1. /\ UNCHANGED <<global_strand_, shutting_down_, shutdown_callback_, cb, collided>>
          /\ notify_subsystem_shutdown
          /\ stage[Main] = "out" /\ stage' = [stage EXCEPT ![Main] = "done"]
      BY <1>14 DEF FinishShutdown, Step, match_vars
    <2>2. /\ \A v \in Threads : v # Main => stage'[v] = stage[v]
          /\ stage'[Main] = "done"
      BY <1>a, <2>1
    <2>3. (Told' <=> Told) /\ (Drained' <=> Drained) /\ ~Closed /\ Closed'
      BY <2>1, <2>2 DEF Told, Drained, Closed, Stopping, StopTypes
    <2>4. Done' >= Done + 1
      <3>1. Done = (IF Told THEN 1 ELSE 0) + (IF Drained THEN 1 ELSE 0) + 0
        BY <2>3 DEF Done
      <3>2. Done' = (IF Told THEN 1 ELSE 0) + (IF Drained THEN 1 ELSE 0) + 1
        BY <2>3 DEF Done
      <3> QED BY <3>1, <3>2
    <2>5. StopTypes'
      BY <2>1, CountsDown DEF Stopping, StopTypes
    <2>6. Alone'
      <3>1. Inside' = Inside
        BY <2>1, <2>2 DEF Inside
      <3> QED BY <2>1, <2>2, <3>1 DEF Stopping, StopTypes, Alone
    <2>7. CASE collided
      BY <2>1, <2>5, <2>6, <2>7 DEF Stopping, Counting, Stops
    <2>8. CASE ~collided
      <3>1. Counting' /\ Stops'
        BY <2>1, <2>2, <2>3, <2>4, <2>8, OneLess DEF Stopping, StopTypes, Counting
      <3> QED BY <2>5, <2>6, <3>1 DEF Stopping
    <2> QED BY <2>7, <2>8 DEF Stopping, StopTypes
  <1> QED BY <1>1, <1>2, <1>3, <1>4, <1>5, <1>6, <1>7, <1>8, <1>9, <1>10, <1>11, <1>12,
             <1>13, <1>14
          DEF Next, TryFinish, Ended

\* The io_context is stopped only when the matches have been told to end, the Database
\* has seen no write pending and called back, and the sessions are closed: each of
\* the three parts that SHUTDOWN_COMPONENTS_COUNT (3 in server.h) stands for counts
\* itself once in notify_subsystem_shutdown, for any number of matches being played or
\* recorded, as long as no two threads meet in try_finish_shutdown.
THEOREM StopIsComplete ==
    ASSUME SHUTDOWN_COMPONENTS_COUNT = 3
    PROVE  Spec => []StopsWhenAllAreDone
  <1>1. Init => Places /\ Stopping
    BY InitPlaces, InitStopping
  <1>2. (Places /\ Stopping) /\ [Next]_vars => (Places /\ Stopping)'
    BY NextPlaces, NextStopping
  <1>3. Places /\ Stopping => StopsWhenAllAreDone
    <2> SUFFICES ASSUME Places, Stopping, server = "stopped", ~collided
                 PROVE  /\ \A i \in DOMAIN global_strand_ : global_strand_[i] # Main
                        /\ ~shutdown_callback_
                        /\ stage[Main] = "done"
      BY DEF StopsWhenAllAreDone
    <2>1. Told /\ ~shutdown_callback_ /\ Closed
      BY DEF Stopping, Stops
    <2>2. DOMAIN global_strand_ = 1 .. Len(global_strand_)
      BY DEF Places
    <2> QED BY <2>1, <2>2 DEF Told, In, Closed
  <1> QED BY <1>1, <1>2, <1>3, PTL DEF Spec

-----------------------------------------------------------------------------
(* The count of the writes under way.                                      *)

\* The writes that are counted: a failed one too, as the code never counts it down.
Under == {m \in Matches : stage[m] \in {"insert", "read", "update", "sub", "failed"}}
Writes == pending_writes_ = Cardinality(Under)

LEMMA UnderIsFinite ==
    IsFiniteSet(Under) /\ Cardinality(Under) \in 0 .. Cardinality(Matches)
  <1>1. IsFiniteSet(Matches) /\ Under \subseteq Matches
    BY RecorderAssumption DEF Under
  <1>2. /\ IsFiniteSet(Under) /\ Cardinality(Under) <= Cardinality(Matches)
        /\ Cardinality(Under) \in Nat /\ Cardinality(Matches) \in Nat
    BY <1>1, FS_Subset, FS_CardinalityType
  <1> QED BY <1>2

LEMMA InitWrites == Init => Writes
  <1> SUFFICES ASSUME Init PROVE Writes
    OBVIOUS
  <1>1. Under = {}
    BY MainIsNoMatch DEF Init, Under
  <1> QED BY <1>1, FS_EmptySet DEF Init, Writes

LEMMA NextWrites == Places /\ Writes /\ [Next]_vars => Writes'
  <1> SUFFICES ASSUME Places, Writes, [Next]_vars PROVE Writes'
    OBVIOUS
  <1> USE MainIsNoMatch
  <1>a. stage \in [Threads -> Stages]
    BY DEF Places
  <1>1. ASSUME pending_writes_' = pending_writes_, Under' = Under PROVE Writes'
    BY <1>1 DEF Writes
  <1>2. ASSUME NEW m \in Matches, ConcludeMatch(m) \/ CutMatch(m) PROVE Writes'
    BY <1>1, <1>2 DEF ConcludeMatch, CutMatch, Under
  <1>3. ASSUME NEW m \in Matches, DoRecord(m) PROVE Writes'
    <2>1. CASE EndWrite(m)
      <3>1. /\ stage[m] = "sub" /\ stage' = [stage EXCEPT ![m] = "flag"]
            /\ pending_writes_' = pending_writes_ - 1
        BY <2>1 DEF EndWrite, Step
      <3>2. Under' = Under \ {m} /\ m \in Under
        BY <1>a, <3>1 DEF Under
      <3> DEFINE U == Under
                 V == Under'
      <3>3. Cardinality(U \ {m}) = Cardinality(U) - 1
        <4>1. IsFiniteSet(U) /\ m \in U
          BY <3>2, UnderIsFinite
        <4> HIDE DEF U
        <4> QED BY <4>1, FS_RemoveElement
      <3>4. pending_writes_' = Cardinality(V)
        BY <3>1, <3>2, <3>3 DEF Writes
      <3> QED BY <3>4 DEF Writes
    <2>2. CASE ~EndWrite(m)
      <3>1. pending_writes_' = pending_writes_
        BY <1>3, <2>2 DEF DoRecord, InsertMatch, ReadElos, UpdateElo, CommitElos, FailRecord
      <3>2. \/ stage' = stage
            \/ /\ stage[m] \in {"insert", "read", "update"}
               /\ \E to \in {"read", "update", "sub", "failed"} :
                        stage' = [stage EXCEPT ![m] = to]
        BY <1>3, <2>2 DEF DoRecord, InsertMatch, ReadElos, UpdateElo, CommitElos, FailRecord,
                          Step
      <3>3. Under' = Under
        BY <1>a, <3>2 DEF Under
      <3> QED BY <1>1, <3>1, <3>3
    <2> QED BY <2>1, <2>2
  <1>4. ASSUME NEW t \in Threads, TryFinish(t) PROVE Writes'
    <2>1. pending_writes_' = pending_writes_
      BY <1>4 DEF TryFinish, TestFlag, TestCount, TestCallback, MoveCallback,
                  ClearCallback, CallCallback
    <2>2. /\ stage[t] \in {"flag", "count", "test", "move", "clear", "call"}
          /\ \E to \in {"count", "test", "move", "clear", "call", "out"} :
                stage' = [stage EXCEPT ![t] = to]
      BY <1>4 DEF TryFinish, TestFlag, TestCount, TestCallback, MoveCallback,
                  ClearCallback, CallCallback, Step
    <2>3. Under' = Under
      BY <1>a, <2>2 DEF Under
    <2> QED BY <1>1, <2>1, <2>3
  <1>5. ASSUME record_match PROVE Writes'
    <2> DEFINE m == Head(strand_)
    <2>1. /\ strand_ # <<>> /\ stage' = [stage EXCEPT ![m] = "insert"]
          /\ pending_writes_' = pending_writes_ + 1
      BY <1>5 DEF record_match
    <2>2. m \in Matches /\ stage[m] = "idle"
      BY <2>1, Taken DEF Places, Once
    <2> HIDE DEF m
    <2>3. Under' = Under \cup {m} /\ m \notin Under
      BY <1>a, <2>1, <2>2 DEF Under
    <2> DEFINE U == Under
               V == Under'
    <2>4. Cardinality(U \cup {m}) = Cardinality(U) + 1
      <3>1. IsFiniteSet(U) /\ m \notin U
        BY <2>3, UnderIsFinite
      <3> HIDE DEF U
      <3> QED BY <3>1, FS_AddElement
    <2>5. pending_writes_' = Cardinality(V)
      BY <2>1, <2>3, <2>4 DEF Writes
    <2> QED BY <2>5 DEF Writes
  <1>6. ASSUME TakeResults \/ notify_elo_update \/ ShutdownMatches \/ UNCHANGED vars
        PROVE  Writes'
    BY <1>1, <1>6 DEF TakeResults, notify_elo_update, ShutdownMatches, vars, Under
  <1>7. ASSUME Shutdown \/ SetFlag \/ FinishShutdown PROVE Writes'
    <2>1. /\ pending_writes_' = pending_writes_
          /\ \E to : stage' = [stage EXCEPT ![Main] = to]
      BY <1>7 DEF Shutdown, SetFlag, FinishShutdown, Step
    <2>2. Under' = Under
      BY <1>a, <2>1 DEF Under
    <2> QED BY <1>1, <2>1, <2>2
  <1> QED BY <1>2, <1>3, <1>4, <1>5, <1>6, <1>7 DEF Next, Ended

-----------------------------------------------------------------------------
(* What the UserManager is told.                                           *)

Message == [user : Users, elo : Nat]

\* When the messages q are handled, known[u] is v.
About(q, u) == {i \in 1 .. Len(q) : q[i].user = u}
Says(q, known, u, v) ==
    \/ About(q, u) = {} /\ known[u] = v
    \/ \E i \in About(q, u) : q[i].elo = v /\ \A j \in About(q, u) : j <= i

LEMMA SaysLast ==
    ASSUME NEW q \in Seq(Message), NEW h \in Message, NEW known, NEW u, NEW v
    PROVE  /\ Append(q, h) \in Seq(Message)
           /\ Says(Append(q, h), known, h.user, h.elo)
           /\ (u # h.user /\ Says(q, known, u, v)) => Says(Append(q, h), known, u, v)
  <1> DEFINE r == Append(q, h)
             n == Len(q) + 1
  <1>1. /\ Len(q) \in Nat /\ r \in Seq(Message) /\ Len(r) = n /\ r[n] = h
        /\ \A i \in 1 .. Len(q) : r[i] = q[i]
    BY AppendProperties
  <1> HIDE DEF r
  <1>2. n \in About(r, h.user) /\ \A j \in About(r, h.user) : j <= n
    BY <1>1 DEF About
  <1>3. Says(r, known, h.user, h.elo)
    BY <1>1, <1>2 DEF Says
  <1>4. u # h.user => About(r, u) = About(q, u)
    BY <1>1 DEF About
  <1>5. \A i \in About(q, u) : r[i] = q[i]
    BY <1>1 DEF About
  <1>6. (u # h.user /\ Says(q, known, u, v)) => Says(r, known, u, v)
    BY <1>4, <1>5 DEF Says
  <1> QED BY <1>1, <1>3, <1>6 DEF r

LEMMA SaysRest ==
    ASSUME NEW q \in Seq(Message), q # <<>>, NEW known \in [Users -> Nat],
           NEW u \in Users, NEW v, Says(q, known, u, v)
    PROVE  Says(Tail(q), [known EXCEPT ![Head(q).user] = Head(q).elo], u, v)
  <1> DEFINE r == Tail(q)
             h == Head(q)
             new == [known EXCEPT ![h.user] = h.elo]
  <1>1. /\ Len(q) \in Nat \ {0} /\ r \in Seq(Message) /\ Len(r) = Len(q) - 1
        /\ \A i \in 1 .. Len(r) : r[i] = q[i + 1]
        /\ h = q[1] /\ h \in Message
    BY EmptySeq, HeadTailProperties
  <1>2. /\ h.user = u => new[u] = h.elo
        /\ h.user # u => new[u] = known[u]
    BY <1>1 DEF Message
  <1> HIDE DEF r, h, new
  <1>3. \A i \in About(r, u) : i + 1 \in About(q, u) /\ i + 1 # 1 /\ i \in Nat
    BY <1>1 DEF About
  <1>4. \A i \in About(q, u) : i \in Nat /\ i # 0 /\
            (i # 1 => (i - 1 \in About(r, u) /\ r[i - 1] = q[i]))
    <2> SUFFICES ASSUME NEW i \in About(q, u)
                 PROVE  i \in Nat /\ i # 0 /\
                        (i # 1 => (i - 1 \in About(r, u) /\ r[i - 1] = q[i]))
      OBVIOUS
    <2>1. i \in 1 .. Len(q) /\ q[i].user = u
      BY DEF About
    <2>2. i # 1 => (i - 1 \in 1 .. Len(r) /\ (i - 1) + 1 = i)
      BY <1>1, <2>1
    <2> QED BY <1>1, <2>1, <2>2 DEF About
  <1>5. h.user = u => 1 \in About(q, u)
    BY <1>1 DEF About
  <1>6. 1 \in About(q, u) => h.user = u
    BY <1>1 DEF About
  <1>7. ASSUME About(q, u) = {}, known[u] = v PROVE Says(r, new, u, v)
    BY <1>2, <1>3, <1>5, <1>7 DEF Says
  <1>8. ASSUME \E i \in About(q, u) : q[i].elo = v /\ \A j \in About(q, u) : j <= i
        PROVE  Says(r, new, u, v)
    <2>1. PICK i \in About(q, u) : q[i].elo = v /\ \A j \in About(q, u) : j <= i
      BY <1>8
    <2>2. CASE i = 1
      <3>1. \A j \in About(r, u) : FALSE
        <4> SUFFICES ASSUME NEW j \in About(r, u) PROVE FALSE
          OBVIOUS
        <4>1. j + 1 <= 1 /\ j + 1 # 1 /\ j \in Nat
          BY <1>3, <2>1, <2>2
        <4> QED BY <4>1
      <3> QED BY <1>1, <1>2, <1>6, <2>1, <2>2, <3>1 DEF Says
    <2>3. CASE i # 1
      <3>1. i - 1 \in About(r, u) /\ r[i - 1].elo = v
        BY <1>4, <2>1, <2>3
      <3>2. \A j \in About(r, u) : j <= i - 1
        BY <1>3, <1>4, <2>1
      <3> QED BY <3>1, <3>2 DEF Says
    <2> QED BY <2>2, <2>3
  <1>9. Says(r, new, u, v)
    BY <1>7, <1>8 DEF Says
  <1> QED BY <1>9 DEF r, h, new

-----------------------------------------------------------------------------
(* The transactions.                                                       *)

RatingTypes ==
    /\ row \in [Matches -> Nat]
    /\ \A m \in Matches : row[m] \in 1 .. Len(user_ids[m]) + 1
    /\ elos \in [Matches -> Seq(Nat)]
    /\ UserElos \in [Users -> Nat]
    /\ EloHistory \subseteq [match : Matches, user : Users, change : Int]
    /\ written \in [Users -> Matches \cup {NoMatch}]
    /\ manager_strand \in Seq(Message)
    /\ matching_elos \in [Users -> Nat]
    /\ shared \subseteq Users

\* A transaction has read a rating per player, and holds the rows it has written.
Holding ==
    \A m \in Matches : stage[m] = "update" =>
        /\ DOMAIN elos[m] = DOMAIN user_ids[m]
        /\ \A i \in 1 .. row[m] - 1 : written[user_ids[m][i]] = m

Ratings == RatingTypes /\ Holding

LEMMA Players ==
    ASSUME NEW m \in Matches
    PROVE  /\ user_ids[m] \in Seq(Users) /\ Len(user_ids[m]) \in Nat
           /\ DOMAIN user_ids[m] = 1 .. Len(user_ids[m])
           /\ \A i \in 1 .. Len(user_ids[m]) : user_ids[m][i] \in Users
           /\ \A i, j \in 1 .. Len(user_ids[m]) :
                    user_ids[m][i] = user_ids[m][j] => i = j
           /\ m # NoMatch
  <1>1. user_ids[m] \in Seq(Users) /\ m # NoMatch
    BY RecorderAssumption
  <1>2. Len(user_ids[m]) \in Nat /\ DOMAIN user_ids[m] = 1 .. Len(user_ids[m])
    BY <1>1
  <1>3. \A i \in 1 .. Len(user_ids[m]) : user_ids[m][i] \in Users
    BY <1>1, <1>2
  <1> QED BY <1>1, <1>2, <1>3, RecorderAssumption

LEMMA HigherOfTwo ==
    ASSUME NEW a \in Int, NEW b \in Nat
    PROVE  Max({a, b}) \in Nat
  <1>1. \E x \in {a, b} : \A y \in {a, b} : x >= y
    BY SMT
  <1>2. Max({a, b}) \in {a, b} /\ \A y \in {a, b} : Max({a, b}) >= y
    BY <1>1 DEF Max
  <1> QED BY <1>2

\* New ratings are natural numbers, one per player.
LEMMA NewElos ==
    ASSUME NEW m \in Matches, NEW old \in Seq(Nat), DOMAIN old = DOMAIN user_ids[m],
           NEW i \in DOMAIN user_ids[m]
    PROVE  elo_updates(old, m)[i] \in Nat /\ old[i] \in Nat
  <1>1. old[i] \in Nat
    OBVIOUS
  <1>2. Max({old[i] - 1, ELO_FLOOR}) \in Nat
    <2>1. old[i] - 1 \in Int /\ ELO_FLOOR \in Nat
      BY <1>1, RecorderAssumption
    <2> QED BY <2>1, HigherOfTwo
  <1>3. elo_updates(old, m)[i] = IF i = Len(user_ids[m]) THEN old[i] + 1
                                 ELSE Max({old[i] - 1, ELO_FLOOR})
    BY DEF elo_updates
  <1> QED BY <1>1, <1>2, <1>3

\* A step that has nothing to do with ratings.
Aside ==
    /\ UNCHANGED <<sql_vars, manager_vars>>
    /\ \A m \in Matches : /\ (stage'[m] = "update") <=> (stage[m] = "update")
                          /\ (stage'[m] = "failed") <=> (stage[m] = "failed")

LEMMA RatingSteps ==
    ASSUME Places, [Next]_vars
    PROVE  \/ \E m \in Matches :
                    ReadElos(m) \/ UpdateElo(m) \/ CommitElos(m) \/ FailRecord(m)
           \/ notify_elo_update
           \/ Aside
  <1> USE MainIsNoMatch
  <1>a. stage \in [Threads -> Stages]
    BY DEF Places
  <1>1. ASSUME NEW m \in Matches, ConcludeMatch(m) \/ CutMatch(m) PROVE Aside
    BY <1>1 DEF ConcludeMatch, CutMatch, Aside
  <1>2. ASSUME NEW m \in Matches, InsertMatch(m) \/ EndWrite(m) PROVE Aside
    <2>1. /\ UNCHANGED <<sql_vars, manager_vars>>
          /\ stage[m] \in {"insert", "sub"}
          /\ \E to \in {"read", "sub", "flag"} : stage' = [stage EXCEPT ![m] = to]
      BY <1>2 DEF InsertMatch, EndWrite, Step
    <2> QED BY <1>a, <2>1 DEF Aside
  <1>3. ASSUME NEW t \in Threads, TryFinish(t) PROVE Aside
    <2>1. UNCHANGED <<sql_vars, manager_vars>>
      BY <1>3 DEF TryFinish, TestFlag, TestCount, TestCallback, MoveCallback,
                  ClearCallback, CallCallback
    <2>2. /\ stage[t] \in {"flag", "count", "test", "move", "clear", "call"}
          /\ \E to \in {"count", "test", "move", "clear", "call", "out"} :
                stage' = [stage EXCEPT ![t] = to]
      BY <1>3 DEF TryFinish, TestFlag, TestCount, TestCallback, MoveCallback,
                  ClearCallback, CallCallback, Step
    <2> QED BY <1>a, <2>1, <2>2 DEF Aside
  <1>4. ASSUME record_match PROVE Aside
    <2>1. /\ strand_ # <<>> /\ stage' = [stage EXCEPT ![Head(strand_)] = "insert"]
          /\ UNCHANGED <<sql_vars, manager_vars>>
      BY <1>4 DEF record_match
    <2>2. Head(strand_) \in Matches /\ stage[Head(strand_)] = "idle"
      BY <2>1, Taken DEF Places, Once
    <2> QED BY <1>a, <2>1, <2>2 DEF Aside
  <1>5. ASSUME TakeResults \/ ShutdownMatches \/ UNCHANGED vars PROVE Aside
    BY <1>5 DEF TakeResults, ShutdownMatches, vars, Aside
  <1>6. ASSUME Shutdown \/ SetFlag \/ FinishShutdown PROVE Aside
    <2>1. /\ UNCHANGED <<sql_vars, manager_vars>>
          /\ \E to : stage' = [stage EXCEPT ![Main] = to]
      BY <1>6 DEF Shutdown, SetFlag, FinishShutdown, Step
    <2> QED BY <1>a, <2>1 DEF Aside
  <1> QED BY <1>1, <1>2, <1>3, <1>4, <1>5, <1>6 DEF Next, DoRecord, Ended

LEMMA InitRatings == Init => Ratings
  <1> SUFFICES ASSUME Init PROVE Ratings
    OBVIOUS
  <1>1. \A m \in Matches : row[m] \in 1 .. Len(user_ids[m]) + 1
    <2> SUFFICES ASSUME NEW m \in Matches PROVE row[m] \in 1 .. Len(user_ids[m]) + 1
      OBVIOUS
    <2>1. row[m] = 1 /\ Len(user_ids[m]) \in Nat
      BY Players DEF Init
    <2> QED BY <2>1
  <1>2. RatingTypes
    BY <1>1, RecorderAssumption DEF Init, RatingTypes
  <1>3. Holding
    BY MainIsNoMatch DEF Init, Holding
  <1> QED BY <1>2, <1>3 DEF Ratings

LEMMA NextRatings ==
    ASSUME Places, Ratings, [Next]_vars
    PROVE  Ratings'
  <1> USE MainIsNoMatch
  <1>a. stage \in [Threads -> Stages] /\ RatingTypes /\ Holding
    BY DEF Places, Ratings
  <1>1. ASSUME Aside PROVE Ratings'
    <2>1. UNCHANGED <<row, elos, UserElos, EloHistory, written, shared, manager_strand,
                      matching_elos>>
      BY <1>1 DEF Aside, sql_vars, manager_vars
    <2>2. RatingTypes'
      BY <1>a, <2>1 DEF RatingTypes
    <2>3. Holding'
      BY <1>a, <1>1, <2>1 DEF Aside, Holding
    <2> QED BY <2>2, <2>3 DEF Ratings
  <1>2. ASSUME NEW m \in Matches, ReadElos(m) PROVE Ratings'
    <2> DEFINE new == [i \in DOMAIN user_ids[m] |-> UserElos[user_ids[m][i]]]
    <2>1. /\ stage' = [stage EXCEPT ![m] = "update"]
          /\ elos' = [elos EXCEPT ![m] = new]
          /\ row' = [row EXCEPT ![m] = 1]
          /\ shared' = shared \cup {u \in Participants(m) : Reading(u) # {}}
          /\ UNCHANGED <<UserElos, EloHistory, written, manager_strand, matching_elos>>
      BY <1>2 DEF ReadElos, Step, manager_vars
    <2>2. new \in Seq(Nat) /\ DOMAIN new = DOMAIN user_ids[m]
      <3> DEFINE n == Len(user_ids[m])
      <3>1. n \in Nat /\ DOMAIN user_ids[m] = 1 .. n
        BY Players
      <3>2. new \in [1 .. n -> Nat]
        BY <1>a, <3>1, Players DEF RatingTypes
      <3> HIDE DEF n, new
      <3>3. new \in Seq(Nat)
        BY <3>1, <3>2, SeqDef
      <3> QED BY <3>1, <3>2, <3>3
    <2>3. Participants(m) \subseteq Users
      BY Players DEF Participants
    <2> HIDE DEF new
    <2>4. /\ row' \in [Matches -> Nat] /\ row'[m] = 1
          /\ \A v \in Matches : v # m => row'[v] = row[v]
      BY <1>a, <2>1 DEF RatingTypes
    <2>5. /\ elos' \in [Matches -> Seq(Nat)] /\ elos'[m] = new
          /\ \A v \in Matches : v # m => elos'[v] = elos[v]
      BY <1>a, <2>1, <2>2 DEF RatingTypes
    <2>6. \A v \in Matches : v # m => stage'[v] = stage[v]
      BY <1>a, <2>1
    <2>7. \A v \in Matches : row'[v] \in 1 .. Len(user_ids[v]) + 1
      <3>1. 1 \in 1 .. Len(user_ids[m]) + 1
        BY Players
      <3> QED BY <1>a, <2>4, <3>1 DEF RatingTypes
    <2>8. RatingTypes'
      BY <1>a, <2>1, <2>3, <2>4, <2>5, <2>7 DEF RatingTypes
    <2>9. Holding'
      <3> SUFFICES ASSUME NEW v \in Matches, stage'[v] = "update"
                   PROVE  /\ DOMAIN elos'[v] = DOMAIN user_ids[v]
                          /\ \A i \in 1 .. row'[v] - 1 : written'[user_ids[v][i]] = v
        BY DEF Holding
      <3>1. CASE v = m
        BY <2>2, <2>4, <2>5, <3>1
      <3>2. CASE v # m
        BY <1>a, <2>1, <2>4, <2>5, <2>6, <3>2 DEF Holding
      <3> QED BY <3>1, <3>2
    <2> QED BY <2>8, <2>9 DEF Ratings
  <1>3. ASSUME NEW m \in Matches, UpdateElo(m) PROVE Ratings'
    <2> DEFINE u == user_ids[m][row[m]]
               h == [user |-> u, elo |-> elo_updates(elos[m], m)[row[m]]]
    <2>1. /\ stage[m] = "update" /\ row[m] <= Len(user_ids[m])
          /\ written[u] \in {NoMatch, m}
          /\ written' = [written EXCEPT ![u] = m]
          /\ row' = [row EXCEPT ![m] = @ + 1]
          /\ manager_strand' = Append(manager_strand, h)
          /\ UNCHANGED <<stage, elos, UserElos, EloHistory, shared, matching_elos>>
      BY <1>3 DEF UpdateElo, Unfinished, Blocked, next_user
    <2>2. row[m] \in 1 .. Len(user_ids[m]) /\ row[m] \in Nat
      BY <1>a, <2>1, Players DEF RatingTypes
    <2>3. u \in Users
      BY <2>2, Players
    <2>4. h \in Message
      <3>1. elo_updates(elos[m], m)[row[m]] \in Nat
        BY <1>a, <2>1, <2>2, Players, NewElos DEF RatingTypes, Holding
      <3> QED BY <2>3, <3>1 DEF Message
    <2> HIDE DEF h
    <2>5. manager_strand' \in Seq(Message)
      BY <1>a, <2>1, <2>4, SaysLast DEF RatingTypes
    <2>6. /\ row' \in [Matches -> Nat] /\ row'[m] = row[m] + 1
          /\ \A v \in Matches : v # m => row'[v] = row[v]
      BY <1>a, <2>1, <2>2 DEF RatingTypes
    <2>7. \A v \in Matches : row'[v] \in 1 .. Len(user_ids[v]) + 1
      <3>1. row[m] + 1 \in 1 .. Len(user_ids[m]) + 1
        BY <2>2, Players
      <3> QED BY <1>a, <2>6, <3>1 DEF RatingTypes
    <2>8. /\ written' \in [Users -> Matches \cup {NoMatch}] /\ written'[u] = m
          /\ \A w \in Users : w # u => written'[w] = written[w]
      BY <1>a, <2>1, <2>3 DEF RatingTypes
    <2>9. RatingTypes'
      BY <1>a, <2>1, <2>5, <2>6, <2>7, <2>8 DEF RatingTypes
    <2>10. Holding'
      <3> SUFFICES ASSUME NEW v \in Matches, stage'[v] = "update"
                   PROVE  /\ DOMAIN elos'[v] = DOMAIN user_ids[v]
                          /\ \A i \in 1 .. row'[v] - 1 : written'[user_ids[v][i]] = v
        BY DEF Holding
      <3>1. /\ DOMAIN elos'[v] = DOMAIN user_ids[v]
            /\ \A i \in 1 .. row[v] - 1 : written[user_ids[v][i]] = v
        BY <1>a, <2>1 DEF Holding
      <3>2. \A i \in 1 .. row'[v] - 1 : user_ids[v][i] \in Users
        BY <2>7, Players
      <3>3. CASE v = m
        <4> SUFFICES ASSUME NEW i \in 1 .. row'[m] - 1 PROVE written'[user_ids[m][i]] = m
          BY <3>1, <3>3
        <4>1. i \in 1 .. row[m] - 1 \/ i = row[m]
          BY <2>2, <2>6
        <4> QED BY <2>8, <3>1, <3>2, <3>3, <4>1
      <3>4. CASE v # m
        <4>1. \A i \in 1 .. row[v] - 1 : user_ids[v][i] # u
          BY <2>1, <3>1, <3>4, Players
        <4> QED BY <2>6, <2>8, <3>1, <3>2, <3>4, <4>1
      <3> QED BY <3>3, <3>4
    <2> QED BY <2>9, <2>10 DEF Ratings
  <1>4. ASSUME NEW m \in Matches, CommitElos(m) PROVE Ratings'
    <2> DEFINE new == elo_updates(elos[m], m)
               at(u) == CHOOSE i \in DOMAIN user_ids[m] : user_ids[m][i] = u
    <2>1. /\ stage[m] = "update" /\ stage' = [stage EXCEPT ![m] = "sub"]
          /\ UserElos' = [u \in Users |-> IF u \in Participants(m) THEN new[at(u)]
                                          ELSE UserElos[u]]
          /\ EloHistory' = EloHistory \cup
                {[match |-> m, user |-> u, change |-> new[at(u)] - elos[m][at(u)]] :
                    u \in Participants(m)}
          /\ written' = release(m)
          /\ UNCHANGED <<row, elos, shared, manager_strand, matching_elos>>
      BY <1>4 DEF CommitElos, Step, manager_vars
    <2>2. \A u \in Participants(m) : /\ u \in Users /\ at(u) \in DOMAIN user_ids[m]
                                     /\ new[at(u)] \in Nat /\ elos[m][at(u)] \in Nat
      <3> SUFFICES ASSUME NEW u \in Participants(m)
                   PROVE  /\ u \in Users /\ at(u) \in DOMAIN user_ids[m]
                          /\ new[at(u)] \in Nat /\ elos[m][at(u)] \in Nat
        OBVIOUS
      <3>1. u \in Users
        BY Players DEF Participants
      <3>2. at(u) \in DOMAIN user_ids[m]
        BY DEF Participants
      <3> HIDE DEF at
      <3>3. new[at(u)] \in Nat /\ elos[m][at(u)] \in Nat
        BY <1>a, <2>1, <3>2, NewElos DEF RatingTypes, Holding
      <3> QED BY <3>1, <3>2, <3>3
    <2> HIDE DEF new, at
    <2>3. UserElos' \in [Users -> Nat]
      BY <1>a, <2>1, <2>2 DEF RatingTypes
    <2>4. EloHistory' \subseteq [match : Matches, user : Users, change : Int]
      BY <1>a, <2>1, <2>2 DEF RatingTypes
    <2>5. /\ written' \in [Users -> Matches \cup {NoMatch}]
          /\ \A w \in Users : written[w] # m => written'[w] = written[w]
      BY <1>a, <2>1 DEF RatingTypes, release
    <2>6. RatingTypes'
      BY <1>a, <2>1, <2>3, <2>4, <2>5 DEF RatingTypes
    <2>7. \A v \in Matches : stage'[v] = "update" => v # m /\ stage[v] = "update"
      BY <1>a, <2>1
    <2>8. Holding'
      <3> SUFFICES ASSUME NEW v \in Matches, stage'[v] = "update"
                   PROVE  /\ DOMAIN elos'[v] = DOMAIN user_ids[v]
                          /\ \A i \in 1 .. row'[v] - 1 : written'[user_ids[v][i]] = v
        BY DEF Holding
      <3>1. \A i \in 1 .. row[v] - 1 : user_ids[v][i] \in Users
        BY <1>a, Players DEF RatingTypes
      <3> QED BY <1>a, <2>1, <2>5, <2>7, <3>1 DEF Holding
    <2> QED BY <2>6, <2>8 DEF Ratings
  <1>5. ASSUME NEW m \in Matches, FailRecord(m) PROVE Ratings'
    <2>1. /\ stage' = [stage EXCEPT ![m] = "failed"]
          /\ written' = release(m)
          /\ UNCHANGED <<row, elos, UserElos, EloHistory, shared, manager_strand,
                         matching_elos>>
      BY <1>5 DEF FailRecord, manager_vars
    <2>2. /\ written' \in [Users -> Matches \cup {NoMatch}]
          /\ \A w \in Users : written[w] # m => written'[w] = written[w]
      BY <1>a, <2>1 DEF RatingTypes, release
    <2>3. RatingTypes'
      BY <1>a, <2>1, <2>2 DEF RatingTypes
    <2>4. \A v \in Matches : stage'[v] = "update" => v # m /\ stage[v] = "update"
      BY <1>a, <2>1
    <2>5. Holding'
      <3> SUFFICES ASSUME NEW v \in Matches, stage'[v] = "update"
                   PROVE  /\ DOMAIN elos'[v] = DOMAIN user_ids[v]
                          /\ \A i \in 1 .. row'[v] - 1 : written'[user_ids[v][i]] = v
        BY DEF Holding
      <3>1. \A i \in 1 .. row[v] - 1 : user_ids[v][i] \in Users
        BY <1>a, Players DEF RatingTypes
      <3> QED BY <1>a, <2>1, <2>2, <2>4, <3>1 DEF Holding
    <2> QED BY <2>3, <2>5 DEF Ratings
  <1>6. ASSUME notify_elo_update PROVE Ratings'
    <2> DEFINE h == Head(manager_strand)
    <2>1. /\ manager_strand # <<>> /\ manager_strand' = Tail(manager_strand)
          /\ matching_elos' = [matching_elos EXCEPT ![h.user] = h.elo]
          /\ UNCHANGED <<stage, row, elos, UserElos, EloHistory, written, shared>>
      BY <1>6 DEF notify_elo_update, sql_vars
    <2>2. h \in Message /\ manager_strand' \in Seq(Message)
      BY <1>a, <2>1, Taken DEF RatingTypes
    <2>3. matching_elos' \in [Users -> Nat]
      BY <1>a, <2>1, <2>2 DEF RatingTypes, Message
    <2>4. RatingTypes'
      BY <1>a, <2>1, <2>2, <2>3 DEF RatingTypes
    <2>5. Holding'
      BY <1>a, <2>1 DEF Holding
    <2> QED BY <2>4, <2>5 DEF Ratings
  <1> QED BY <1>1, <1>2, <1>3, <1>4, <1>5, <1>6, RatingSteps

-----------------------------------------------------------------------------
(* What the UserManager will know.                                         *)

\* Until a write fails: once all it was told is handled, the UserManager has the
\* committed rating of u, or the one the transaction that holds the row will commit.
Hears(u) ==
    /\ written[u] = NoMatch => Says(manager_strand, matching_elos, u, UserElos[u])
    /\ \A m \in Matches : written[u] = m =>
            /\ stage[m] = "update"
            /\ \E i \in 1 .. row[m] - 1 :
                    /\ user_ids[m][i] = u
                    /\ Says(manager_strand, matching_elos, u, elo_updates(elos[m], m)[i])

Telling == (\A m \in Matches : stage[m] # "failed") => \A u \in Users : Hears(u)

LEMMA NextTelling ==
    ASSUME Places, Ratings, Telling, [Next]_vars
    PROVE  Telling'
  <1> USE MainIsNoMatch
  <1>a. stage \in [Threads -> Stages] /\ RatingTypes /\ Holding
    BY DEF Places, Ratings
  <1>b. \A u \in Users : written[u] \in Matches \cup {NoMatch}
    BY <1>a DEF RatingTypes
  <1> SUFFICES ASSUME \A m \in Matches : stage'[m] # "failed", NEW u \in Users
               PROVE  Hears(u)'
    BY DEF Telling
  <1>1. ASSUME Aside PROVE Hears(u)'
    <2>1. UNCHANGED <<row, elos, UserElos, written, manager_strand, matching_elos>>
      BY <1>1 DEF Aside, sql_vars, manager_vars
    <2>2. Hears(u) /\ \A m \in Matches : stage[m] = "update" => stage'[m] = "update"
      BY <1>1 DEF Aside, Telling
    <2> QED BY <2>1, <2>2 DEF Hears
  <1>2. ASSUME NEW m \in Matches, ReadElos(m) PROVE Hears(u)'
    <2>1. /\ stage[m] = "read" /\ stage' = [stage EXCEPT ![m] = "update"]
          /\ \E new : elos' = [elos EXCEPT ![m] = new]
          /\ row' = [row EXCEPT ![m] = 1]
          /\ UNCHANGED <<UserElos, written, manager_strand, matching_elos>>
      BY <1>2 DEF ReadElos, Step, manager_vars
    <2>2. \A v \in Matches : v # m => /\ stage'[v] = stage[v] /\ elos'[v] = elos[v]
                                      /\ row'[v] = row[v]
      BY <1>a, <2>1 DEF RatingTypes
    <2>3. Hears(u)
      BY <2>1, <2>2 DEF Telling
    <2>4. written[u] # m
      BY <2>1, <2>3 DEF Hears
    <2> QED BY <2>1, <2>2, <2>3, <2>4 DEF Hears
  <1>3. ASSUME NEW m \in Matches, UpdateElo(m) PROVE Hears(u)'
    <2> DEFINE w == user_ids[m][row[m]]
               h == [user |-> w, elo |-> elo_updates(elos[m], m)[row[m]]]
    <2>1. /\ stage[m] = "update" /\ row[m] <= Len(user_ids[m])
          /\ written' = [written EXCEPT ![w] = m]
          /\ row' = [row EXCEPT ![m] = @ + 1]
          /\ manager_strand' = Append(manager_strand, h)
          /\ UNCHANGED <<stage, elos, UserElos, matching_elos>>
      BY <1>3 DEF UpdateElo, Unfinished, Blocked, next_user
    <2>2. row[m] \in 1 .. Len(user_ids[m]) /\ row[m] \in Nat
      BY <1>a, <2>1, Players DEF RatingTypes
    <2>3. w \in Users
      BY <2>2, Players
    <2>4. h \in Message /\ h.user = w /\ h.elo = elo_updates(elos[m], m)[row[m]]
      <3>1. elo_updates(elos[m], m)[row[m]] \in Nat
        BY <1>a, <2>1, <2>2, Players, NewElos DEF RatingTypes, Holding
      <3> QED BY <2>3, <3>1 DEF Message
    <2>5. /\ row'[m] = row[m] + 1
          /\ \A v \in Matches : v # m => row'[v] = row[v]
          /\ \A v \in Matches : row[v] \in Nat
          /\ written'[w] = m
          /\ u # w => written'[u] = written[u]
      BY <1>a, <2>1, <2>2, <2>3 DEF RatingTypes
    <2>6. Hears(u)
      BY <2>1 DEF Telling
    <2> HIDE DEF w, h
    <2>7. CASE u = w
      <3>1. Says(manager_strand', matching_elos', u, elo_updates(elos[m], m)[row[m]])
        BY <1>a, <2>1, <2>4, <2>7, SaysLast DEF RatingTypes
      <3>2. row[m] \in 1 .. row'[m] - 1 /\ user_ids[m][row[m]] = u
        BY <2>2, <2>5, <2>7 DEF w
      <3> QED BY <2>1, <2>5, <2>7, <3>1, <3>2, Players DEF Hears
    <2>8. CASE u # w
      <3>1. \A v : Says(manager_strand, matching_elos, u, v)
                    => Says(manager_strand', matching_elos', u, v)
        BY <1>a, <2>1, <2>4, <2>8, SaysLast DEF RatingTypes
      <3>2. \A v \in Matches : \A i \in 1 .. row[v] - 1 : i \in 1 .. row'[v] - 1
        BY <2>5
      <3> QED BY <2>1, <2>5, <2>6, <2>8, <3>1, <3>2 DEF Hears
    <2> QED BY <2>7, <2>8
  <1>4. ASSUME NEW m \in Matches, CommitElos(m) PROVE Hears(u)'
    <2> DEFINE new == elo_updates(elos[m], m)
               at(x) == CHOOSE i \in DOMAIN user_ids[m] : user_ids[m][i] = x
    <2>1. /\ stage[m] = "update" /\ stage' = [stage EXCEPT ![m] = "sub"]
          /\ ~(row[m] <= Len(user_ids[m]))
          /\ UserElos'[u] = IF u \in Participants(m) THEN new[at(u)] ELSE UserElos[u]
          /\ written'[u] = IF written[u] = m THEN NoMatch ELSE written[u]
          /\ UNCHANGED <<row, elos, manager_strand, matching_elos>>
      BY <1>4 DEF CommitElos, Step, manager_vars, Unfinished, release
    <2>2. \A v \in Matches : v # m => stage'[v] = stage[v]
      BY <1>a, <2>1
    <2>3. row[m] = Len(user_ids[m]) + 1
      <3>1. /\ row[m] \in 1 .. Len(user_ids[m]) + 1 /\ Len(user_ids[m]) \in Nat
            /\ ~(row[m] <= Len(user_ids[m]))
        BY <1>a, <2>1, Players DEF RatingTypes
      <3> HIDE DEF new, at
      <3> QED BY <3>1
    <2>4. Hears(u)
      BY <2>1, <2>2 DEF Telling
    <2>5. CASE written[u] = m
      <3>1. PICK i \in 1 .. row[m] - 1 :
                /\ user_ids[m][i] = u
                /\ Says(manager_strand, matching_elos, u, new[i])
        BY <2>4, <2>5 DEF Hears
      <3>2. i \in DOMAIN user_ids[m] /\ i \in 1 .. Len(user_ids[m])
        BY <2>3, <3>1, Players
      <3>3. u \in Participants(m)
        BY <3>1, <3>2 DEF Participants
      <3>4. at(u) \in 1 .. Len(user_ids[m]) /\ user_ids[m][at(u)] = u
        BY <3>1, <3>2, Players
      <3> HIDE DEF at
      <3>5. at(u) = i
        BY <3>1, <3>2, <3>4, Players
      <3> HIDE DEF new
      <3>6. Says(manager_strand', matching_elos', u, UserElos'[u])
        BY <2>1, <3>1, <3>3, <3>5
      <3> QED BY <2>1, <2>5, <3>6, Players DEF Hears
    <2>6. CASE written[u] # m
      <3>1. u \notin Participants(m)
        <4> SUFFICES ASSUME NEW i \in DOMAIN user_ids[m], user_ids[m][i] = u
                     PROVE  FALSE
          BY DEF Participants
        <4>1. i \in 1 .. row[m] - 1
          BY <2>3, Players
        <4> QED BY <1>a, <2>1, <2>6, <4>1 DEF Holding
      <3> HIDE DEF at, new
      <3>2. UserElos'[u] = UserElos[u] /\ written'[u] = written[u]
        BY <2>1, <2>6, <3>1
      <3> QED BY <2>1, <2>2, <2>4, <2>6, <3>2 DEF Hears
    <2> QED BY <2>5, <2>6
  <1>5. ASSUME NEW m \in Matches, FailRecord(m) PROVE Hears(u)'
    <2>1. stage'[m] = "failed"
      BY <1>a, <1>5 DEF FailRecord
    <2> QED BY <2>1
  <1>6. ASSUME notify_elo_update PROVE Hears(u)'
    <2> DEFINE h == Head(manager_strand)
    <2>1. /\ manager_strand # <<>> /\ manager_strand' = Tail(manager_strand)
          /\ matching_elos' = [matching_elos EXCEPT ![h.user] = h.elo]
          /\ UNCHANGED <<stage, row, elos, UserElos, written>>
      BY <1>6 DEF notify_elo_update, sql_vars
    <2>2. Hears(u)
      BY <2>1 DEF Telling
    <2>3. \A v : Says(manager_strand, matching_elos, u, v)
                    => Says(manager_strand', matching_elos', u, v)
      <3> SUFFICES ASSUME NEW v, Says(manager_strand, matching_elos, u, v)
                   PROVE  Says(manager_strand', matching_elos', u, v)
        OBVIOUS
      <3>1. manager_strand \in Seq(Message) /\ matching_elos \in [Users -> Nat]
        BY <1>a DEF RatingTypes
      <3>2. Says(Tail(manager_strand), [matching_elos EXCEPT ![h.user] = h.elo], u, v)
        BY <2>1, <3>1, SaysRest
      <3> QED BY <2>1, <3>2
    <2> QED BY <2>1, <2>2, <2>3 DEF Hears
  <1> QED BY <1>1, <1>2, <1>3, <1>4, <1>5, <1>6, RatingSteps

LEMMA InitTelling == Init => Telling
  <1> SUFFICES ASSUME Init, NEW u \in Users PROVE Hears(u)
    BY DEF Telling
  <1>1. written[u] = NoMatch /\ matching_elos[u] = UserElos[u] /\ manager_strand = <<>>
    BY DEF Init
  <1>2. About(<<>>, u) = {}
    BY DEF About
  <1> QED BY <1>1, <1>2, Players DEF Hears, Says

-----------------------------------------------------------------------------
(* The sum of the changes in a set of records.                             *)

\* MapThenSumSet adds up the records in the order in which CHOOSE takes them.
First(s) == CHOOSE x \in s : TRUE
Adds(f, s) == IF s = {} THEN 0 ELSE First(s).change + f[s \ {First(s)}]
Totals(S) == CHOOSE f : f = [s \in SUBSET S |-> Adds(f, s)]

Changes == [match : Matches, user : Users, change : Int]

LEMMA TotalIsLast == ASSUME NEW S PROVE Total(S) = Totals(S)[S]
  BY DEF Total, Totals, Adds, First, MapThenSumSet, MapThenFoldSet

\* Among numbers there is a least one.
LEMMA Least ==
    ASSUME NEW T, T \subseteq Nat, T # {}
    PROVE  \E n \in T : \A k \in T : k >= n
  <1>1. PICK n \in T : \A k \in T : <<k, n>> \notin OpToRel(<, Nat)
    BY WFMin, NatLessThanWellFounded, Zenon
  <1>2. \A k \in T : ~(k < n)
    BY <1>1 DEF OpToRel
  <1> QED BY <1>2

LEMMA Parts ==
    ASSUME NEW S, IsFiniteSet(S), NEW s \in SUBSET S
    PROVE  /\ IsFiniteSet(s) /\ Cardinality(s) \in Nat /\ Cardinality(s) <= Cardinality(S)
           /\ \A x \in s : s \ {x} \in SUBSET S /\ Cardinality(s \ {x}) = Cardinality(s) - 1
           /\ s # {} => First(s) \in s
  <1>1. IsFiniteSet(s) /\ Cardinality(s) <= Cardinality(S)
    BY FS_Subset
  <1>2. Cardinality(s) \in Nat
    BY <1>1, FS_CardinalityType
  <1>3. \A x \in s : Cardinality(s \ {x}) = Cardinality(s) - 1
    BY <1>1, FS_RemoveElement
  <1>4. s # {} => First(s) \in s
    BY DEF First
  <1> QED BY <1>1, <1>2, <1>3, <1>4

\* The recursion has a solution: one that is right up to size n can be made right for
\* size n + 1.
LEMMA TotalsExist ==
    ASSUME NEW S \in SUBSET Changes, IsFiniteSet(S)
    PROVE  \E f \in [SUBSET S -> Int] : f = [s \in SUBSET S |-> Adds(f, s)]
  <1> DEFINE Right(f, n) == \A s \in SUBSET S : Cardinality(s) <= n => f[s] = Adds(f, s)
             Bad == {n \in Nat : ~\E f \in [SUBSET S -> Int] : Right(f, n)}
  <1>1. Bad = {}
    <2> SUFFICES ASSUME Bad # {} PROVE FALSE
      OBVIOUS
    <2>1. PICK n \in Bad : \A k \in Bad : k >= n
      BY Least
    <2>2. n # 0
      <3> DEFINE f == [s \in SUBSET S |-> 0]
      <3>1. f \in [SUBSET S -> Int]
        OBVIOUS
      <3>2. Right(f, 0)
        <4> SUFFICES ASSUME NEW s \in SUBSET S, Cardinality(s) <= 0 PROVE f[s] = Adds(f, s)
          OBVIOUS
        <4>1. s = {}
          BY Parts, FS_EmptySet
        <4> QED BY <4>1 DEF Adds
      <3> HIDE DEF f
      <3> QED BY <3>1, <3>2
    <2>3. n - 1 \in Nat /\ n - 1 \notin Bad
      <3>1. n \in Nat
        OBVIOUS
      <3> HIDE DEF Bad
      <3> QED BY <2>1, <2>2, <3>1
    <2>4. PICK f \in [SUBSET S -> Int] : Right(f, n - 1)
      BY <2>3
    <2> DEFINE g == [s \in SUBSET S |-> IF Cardinality(s) = n THEN Adds(f, s) ELSE f[s]]
    <2>5. ASSUME NEW s \in SUBSET S PROVE Adds(f, s) \in Int
      <3>1. CASE s = {}
        BY <3>1 DEF Adds
      <3>2. CASE s # {}
        <4>1. First(s) \in s /\ s \ {First(s)} \in SUBSET S
          BY <3>2, Parts
        <4>2. First(s).change \in Int
          BY <4>1 DEF Changes
        <4> QED BY <3>2, <4>1, <4>2 DEF Adds
      <3> QED BY <3>1, <3>2
    <2>6. g \in [SUBSET S -> Int]
      BY <2>5
    <2>7. Right(g, n)
      <3> SUFFICES ASSUME NEW s \in SUBSET S, Cardinality(s) <= n PROVE g[s] = Adds(g, s)
        OBVIOUS
      <3>1. g[s] = Adds(f, s)
        <4>1. Cardinality(s) \in Nat /\ n \in Nat
          BY Parts
        <4>2. Cardinality(s) # n => Cardinality(s) <= n - 1
          BY <4>1
        <4>3. Cardinality(s) # n => f[s] = Adds(f, s)
          BY <2>4, <4>2
        <4> QED BY <4>3
      <3>2. Adds(g, s) = Adds(f, s)
        <4>1. CASE s = {}
          BY <4>1 DEF Adds
        <4>2. CASE s # {}
          <5> DEFINE t == s \ {First(s)}
          <5>1. /\ t \in SUBSET S /\ Cardinality(t) = Cardinality(s) - 1
                /\ Cardinality(s) \in Nat /\ n \in Nat
            BY <4>2, Parts
          <5>2. Cardinality(t) # n
            BY <5>1
          <5>3. g[t] = f[t]
            BY <5>1, <5>2
          <5> HIDE DEF g
          <5> QED BY <4>2, <5>3 DEF Adds
        <4> QED BY <4>1, <4>2
      <3> QED BY <3>1, <3>2
    <2> HIDE DEF g
    <2> QED BY <2>6, <2>7
  <1>2. Cardinality(S) \in Nat
    BY FS_CardinalityType
  <1>3. PICK f \in [SUBSET S -> Int] : Right(f, Cardinality(S))
    BY <1>1, <1>2
  <1>4. \A s \in SUBSET S : f[s] = Adds(f, s)
    BY <1>3, Parts
  <1>5. f = [s \in SUBSET S |-> Adds(f, s)]
    BY <1>4
  <1> QED BY <1>5

LEMMA TotalsAdd ==
    ASSUME NEW S \in SUBSET Changes, IsFiniteSet(S)
    PROVE  /\ Totals(S) \in [SUBSET S -> Int]
           /\ \A s \in SUBSET S : Totals(S)[s] = Adds(Totals(S), s)
  <1> DEFINE f == Totals(S)
             Bad == {n \in Nat : \E s \in SUBSET S : Cardinality(s) = n /\ f[s] \notin Int}
  <1>1. f = [s \in SUBSET S |-> Adds(f, s)]
    BY TotalsExist DEF Totals
  <1> HIDE DEF f
  <1>2. \A s \in SUBSET S : f[s] = Adds(f, s)
    BY <1>1
  <1>3. Bad = {}
    <2> SUFFICES ASSUME Bad # {} PROVE FALSE
      OBVIOUS
    <2>1. PICK n \in Bad : \A k \in Bad : k >= n
      BY Least
    <2>2. PICK s \in SUBSET S : Cardinality(s) = n /\ f[s] \notin Int
      OBVIOUS
    <2>3. s # {}
      <3>1. f[s] = Adds(f, s)
        BY <1>2
      <3>2. s = {} => Adds(f, s) = 0
        BY DEF Adds
      <3> QED BY <2>2, <3>1, <3>2
    <2> DEFINE t == s \ {First(s)}
    <2>4. /\ First(s) \in s /\ t \in SUBSET S /\ Cardinality(t) = n - 1
          /\ Cardinality(t) \in Nat /\ n \in Nat
      BY <2>2, <2>3, Parts
    <2>5. f[t] \in Int
      <3>1. n - 1 \notin Bad
        <4> HIDE DEF Bad
        <4> QED BY <2>1, <2>4
      <3> QED BY <2>4, <3>1
    <2>6. First(s).change \in Int
      BY <2>4 DEF Changes
    <2> QED BY <1>2, <2>2, <2>3, <2>5, <2>6 DEF Adds
  <1>4. \A s \in SUBSET S : f[s] \in Int
    BY <1>3, Parts
  <1>5. f \in [SUBSET S -> Int]
    BY <1>1, <1>4
  <1> QED BY <1>2, <1>5 DEF f

\* It does not matter which record is taken first.
LEMMA AnyFirst ==
    ASSUME NEW S \in SUBSET Changes, IsFiniteSet(S)
    PROVE  \A s \in SUBSET S : \A z \in s :
                Totals(S)[s] = z.change + Totals(S)[s \ {z}]
  <1> DEFINE f == Totals(S)
             Odd(s) == \E z \in s : f[s] # z.change + f[s \ {z}]
             Bad == {n \in Nat : \E s \in SUBSET S : Cardinality(s) = n /\ Odd(s)}
  <1>1. f \in [SUBSET S -> Int] /\ \A s \in SUBSET S : f[s] = Adds(f, s)
    BY TotalsAdd
  <1> HIDE DEF f
  <1>2. Bad = {}
    <2> SUFFICES ASSUME Bad # {} PROVE FALSE
      OBVIOUS
    <2>1. PICK n \in Bad : \A k \in Bad : k >= n
      BY Least
    <2>2. PICK s \in SUBSET S : Cardinality(s) = n /\ Odd(s)
      OBVIOUS
    <2>3. PICK z \in s : f[s] # z.change + f[s \ {z}]
      BY <2>2
    <2> DEFINE y == First(s)
    <2>4. /\ y \in s /\ s \ {y} \in SUBSET S /\ Cardinality(s \ {y}) = n - 1
          /\ s \ {z} \in SUBSET S /\ Cardinality(s \ {z}) = n - 1
          /\ Cardinality(s \ {y}) \in Nat /\ n \in Nat
      BY <2>2, <2>3, Parts
    <2>5. f[s] = y.change + f[s \ {y}]
      BY <1>1, <2>4 DEF Adds
    <2> HIDE DEF y
    <2>6. y # z
      BY <2>3, <2>5
    <2>7. ~Odd(s \ {y}) /\ ~Odd(s \ {z})
      <3>1. n - 1 \notin Bad
        <4> HIDE DEF Bad
        <4> QED BY <2>1, <2>4
      <3> HIDE DEF Odd
      <3> QED BY <2>4, <3>1
    <2>8. /\ f[s \ {y}] = z.change + f[(s \ {y}) \ {z}]
          /\ f[s \ {z}] = y.change + f[(s \ {z}) \ {y}]
      BY <2>4, <2>6, <2>7
    <2>9. (s \ {y}) \ {z} = (s \ {z}) \ {y}
      OBVIOUS
    <2>10. f[(s \ {y}) \ {z}] \in Int /\ y.change \in Int /\ z.change \in Int
      BY <1>1, <2>4 DEF Changes
    <2> DEFINE a == y.change
               b == z.change
               c == f[(s \ {y}) \ {z}]
    <2>11. f[s] = a + (b + c) /\ f[s] # b + (a + c)
      BY <2>3, <2>5, <2>8, <2>9
    <2>12. a \in Int /\ b \in Int /\ c \in Int
      BY <2>10
    <2> HIDE DEF a, b, c
    <2> QED BY <2>11, <2>12
  <1>3. \A s \in SUBSET S : ~Odd(s)
    <2> HIDE DEF Odd
    <2> QED BY <1>2, Parts
  <1> QED BY <1>3 DEF f

\* What a set adds up to does not depend on the larger set it is a part of.
LEMMA SameTotals ==
    ASSUME NEW S \in SUBSET Changes, IsFiniteSet(S), NEW R \in SUBSET S
    PROVE  \A s \in SUBSET R : Totals(R)[s] = Totals(S)[s]
  <1> DEFINE f == Totals(R)
             g == Totals(S)
             Bad == {n \in Nat : \E s \in SUBSET R : Cardinality(s) = n /\ f[s] # g[s]}
  <1>1. IsFiniteSet(R) /\ R \in SUBSET Changes
    BY FS_Subset
  <1>2. /\ \A s \in SUBSET R : f[s] = Adds(f, s)
        /\ \A s \in SUBSET R : g[s] = Adds(g, s)
    BY <1>1, TotalsAdd
  <1> HIDE DEF f, g
  <1>3. Bad = {}
    <2> SUFFICES ASSUME Bad # {} PROVE FALSE
      OBVIOUS
    <2>1. PICK n \in Bad : \A k \in Bad : k >= n
      BY Least
    <2>2. PICK s \in SUBSET R : Cardinality(s) = n /\ f[s] # g[s]
      OBVIOUS
    <2>3. s # {}
      BY <1>2, <2>2 DEF Adds
    <2> DEFINE t == s \ {First(s)}
    <2>4. /\ t \in SUBSET R /\ Cardinality(t) = n - 1
          /\ Cardinality(t) \in Nat /\ n \in Nat
      BY <1>1, <2>2, <2>3, Parts
    <2>5. f[t] = g[t]
      <3>1. n - 1 \notin Bad
        <4> HIDE DEF Bad
        <4> QED BY <2>1, <2>4
      <3> QED BY <2>4, <3>1
    <2> QED BY <1>2, <2>2, <2>3, <2>5 DEF Adds
  <1>4. \A s \in SUBSET R : f[s] = g[s]
    BY <1>1, <1>3, Parts
  <1> QED BY <1>4 DEF f, g

\* The total of no records is 0, and one more record adds its change.
LEMMA TotalGrows ==
    /\ Total({}) = 0
    /\ \A S \in SUBSET Changes : IsFiniteSet(S) => Total(S) \in Int
    /\ \A S \in SUBSET Changes : \A x \in Changes \ S :
            IsFiniteSet(S) => Total(S \cup {x}) = Total(S) + x.change
  <1>1. Total({}) = 0
    <2>1. {} \in SUBSET Changes /\ IsFiniteSet({}) /\ {} \in SUBSET {}
      BY FS_EmptySet
    <2>2. Totals({})[{}] = Adds(Totals({}), {})
      BY <2>1, TotalsAdd
    <2> QED BY <2>2, TotalIsLast DEF Adds
  <1>2. ASSUME NEW S \in SUBSET Changes, IsFiniteSet(S) PROVE Total(S) \in Int
    BY <1>2, TotalsAdd, TotalIsLast
  <1>3. ASSUME NEW S \in SUBSET Changes, NEW x \in Changes \ S, IsFiniteSet(S)
        PROVE  Total(S \cup {x}) = Total(S) + x.change
    <2> DEFINE B == S \cup {x}
    <2>1. B \in SUBSET Changes /\ IsFiniteSet(B) /\ S \in SUBSET B /\ x \in B /\ B \ {x} = S
      BY <1>3, FS_AddElement
    <2> HIDE DEF B
    <2>2. Totals(B)[B] = x.change + Totals(B)[S]
      BY <2>1, AnyFirst
    <2>3. Totals(S)[S] = Totals(B)[S]
      BY <2>1, SameTotals
    <2>4. Total(B) = x.change + Total(S)
      BY <2>2, <2>3, TotalIsLast
    <2>5. x.change \in Int /\ Total(S) \in Int
      BY <1>2, <1>3 DEF Changes
    <2> QED BY <2>4, <2>5 DEF B
  <1> QED BY <1>1, <1>2, <1>3

-----------------------------------------------------------------------------
(* The history of the ratings.                                             *)

\* The stages before the ratings are committed.
Before == {"idle", "insert", "read", "update"}

HistoryOf(u) == {h \in EloHistory : h.user = u}

\* What is in the history was committed; whoever is in one recording only is about to
\* change the rating that is in the table; and until then the table is what the
\* history adds up to.
Booked == IsFiniteSet(EloHistory) /\ \A h \in EloHistory : stage[h.match] \notin Before
Current ==
    \A m \in Matches : stage[m] = "update" =>
        \A i \in DOMAIN user_ids[m] :
            user_ids[m][i] \notin shared => elos[m][i] = UserElos[user_ids[m][i]]
Apart ==
    \A m, n \in Matches : (m # n /\ stage[m] = "update" /\ stage[n] = "update") =>
        Participants(m) \cap Participants(n) \subseteq shared

Balanced == Booked /\ Current /\ Apart /\ RatingsAddUp

\* No match is recorded twice.
LEMMA NeverAgain ==
    ASSUME Places, [Next]_vars, NEW m \in Matches, stage[m] \notin Before
    PROVE  stage'[m] \notin Before
  <1> USE MainIsNoMatch
  <1>a. stage \in [Threads -> Stages]
    BY DEF Places
  <1>1. ASSUME NEW t \in Threads, NEW to, to \notin Before, stage' = [stage EXCEPT ![t] = to]
        PROVE  stage'[m] \notin Before
    BY <1>a, <1>1
  <1>2. ASSUME NEW t \in Threads, NEW to, stage[t] \in Before, stage' = [stage EXCEPT ![t] = to]
        PROVE  stage'[m] \notin Before
    BY <1>a, <1>2
  <1>3. ASSUME NEW n \in Matches, DoRecord(n) PROVE stage'[m] \notin Before
    <2>1. \E to : /\ stage' = [stage EXCEPT ![n] = to]
                  /\ stage[n] \in Before \/ to \notin Before
          \/ stage' = stage
      BY <1>3 DEF DoRecord, InsertMatch, ReadElos, UpdateElo, CommitElos, FailRecord,
                  EndWrite, Step, Before
    <2> QED BY <1>1, <1>2, <2>1
  <1>4. ASSUME NEW t \in Threads, TryFinish(t) PROVE stage'[m] \notin Before
    <2>1. \E to \in {"count", "test", "move", "clear", "call", "out"} :
                stage' = [stage EXCEPT ![t] = to]
      BY <1>4 DEF TryFinish, TestFlag, TestCount, TestCallback, MoveCallback,
                  ClearCallback, CallCallback, Step
    <2> QED BY <1>1, <2>1 DEF Before
  <1>5. ASSUME record_match PROVE stage'[m] \notin Before
    <2>1. strand_ # <<>> /\ stage' = [stage EXCEPT ![Head(strand_)] = "insert"]
      BY <1>5 DEF record_match
    <2>2. Head(strand_) \in Matches /\ stage[Head(strand_)] = "idle"
      BY <2>1, Taken DEF Places, Once
    <2> QED BY <1>2, <2>1, <2>2 DEF Before
  <1>6. ASSUME Shutdown \/ SetFlag \/ FinishShutdown PROVE stage'[m] \notin Before
    <2>1. \E to : stage' = [stage EXCEPT ![Main] = to]
      BY <1>6 DEF Shutdown, SetFlag, FinishShutdown, Step
    <2> QED BY <1>a, <2>1
  <1>7. ASSUME \/ \E n \in Matches : ConcludeMatch(n) \/ CutMatch(n)
               \/ TakeResults \/ notify_elo_update \/ ShutdownMatches \/ UNCHANGED vars
        PROVE  stage'[m] \notin Before
    BY <1>7 DEF ConcludeMatch, CutMatch, TakeResults, notify_elo_update, ShutdownMatches,
                vars
  <1> QED BY <1>3, <1>4, <1>5, <1>6, <1>7 DEF Next, Ended

LEMMA InitBalanced == Init => Balanced
  <1> SUFFICES ASSUME Init PROVE Balanced
    OBVIOUS
  <1>1. EloHistory = {} /\ UserElos = [u \in Users |-> StartElo]
    BY DEF Init
  <1>2. \A m \in Matches : stage[m] # "update"
    BY MainIsNoMatch DEF Init
  <1>3. Booked /\ Current /\ Apart
    BY <1>1, <1>2, FS_EmptySet DEF Booked, Current, Apart
  <1>4. RatingsAddUp
    <2> SUFFICES ASSUME NEW u \in Users PROVE UserElos[u] = StartElo + Total(HistoryOf(u))
      BY DEF RatingsAddUp, HistoryOf
    <2>1. HistoryOf(u) = {}
      BY <1>1 DEF HistoryOf
    <2>2. Total(HistoryOf(u)) = 0
      BY <2>1, TotalGrows
    <2>3. StartElo \in Nat
      BY RecorderAssumption
    <2> QED BY <1>1, <2>2, <2>3
  <1> QED BY <1>3, <1>4 DEF Balanced

LEMMA NextBalanced ==
    ASSUME Places, Ratings, Balanced, [Next]_vars
    PROVE  Balanced'
  <1> USE MainIsNoMatch
  <1>a. stage \in [Threads -> Stages] /\ RatingTypes /\ Holding
    BY DEF Places, Ratings
  <1>b. \A m \in Matches : stage[m] \notin Before => stage'[m] \notin Before
    BY NeverAgain
  <1>c. Booked /\ Current /\ Apart /\ RatingsAddUp
    BY DEF Balanced
  <1>d. EloHistory' = EloHistory => Booked'
    BY <1>a, <1>b, <1>c DEF Booked, RatingTypes
  <1>e. (UNCHANGED <<EloHistory, UserElos>> /\ shared \subseteq shared') => RatingsAddUp'
    BY <1>c DEF RatingsAddUp
  <1>1. ASSUME UNCHANGED <<elos, UserElos, EloHistory, shared>>,
               \A m \in Matches : stage'[m] = "update" => stage[m] = "update"
        PROVE  Balanced'
    <2>1. Booked' /\ RatingsAddUp'
      BY <1>d, <1>e, <1>1
    <2>2. Current'
      BY <1>c, <1>1 DEF Current
    <2>3. Apart'
      BY <1>c, <1>1 DEF Apart, Participants
    <2> QED BY <2>1, <2>2, <2>3 DEF Balanced
  <1>2. ASSUME NEW m \in Matches, ReadElos(m) PROVE Balanced'
    <2>1. /\ stage' = [stage EXCEPT ![m] = "update"]
          /\ elos' = [elos EXCEPT ![m] = [i \in DOMAIN user_ids[m] |-> UserElos[user_ids[m][i]]]]
          /\ shared' = shared \cup {u \in Participants(m) : Reading(u) # {}}
          /\ UNCHANGED <<UserElos, EloHistory>>
      BY <1>2 DEF ReadElos, Step
    <2>2. Booked' /\ RatingsAddUp'
      BY <1>d, <1>e, <2>1
    <2>3. \A n \in Matches : n # m => stage'[n] = stage[n] /\ elos'[n] = elos[n]
      BY <1>a, <2>1 DEF RatingTypes
    <2>4. Current'
      <3> SUFFICES ASSUME NEW n \in Matches, stage'[n] = "update",
                          NEW i \in DOMAIN user_ids[n], user_ids[n][i] \notin shared'
                   PROVE  elos'[n][i] = UserElos'[user_ids[n][i]]
        BY DEF Current
      <3>1. CASE n = m
        <4>1. elos'[m] = [j \in DOMAIN user_ids[m] |-> UserElos[user_ids[m][j]]]
          BY <1>a, <2>1 DEF RatingTypes
        <4> QED BY <2>1, <3>1, <4>1
      <3>2. CASE n # m
        BY <1>c, <2>1, <2>3, <3>2 DEF Current
      <3> QED BY <3>1, <3>2
    <2>5. \A n \in Matches : (n # m /\ stage[n] = "update") =>
                Participants(m) \cap Participants(n) \subseteq shared'
      BY <2>1 DEF Reading
    <2>6. Apart'
      <3> SUFFICES ASSUME NEW n \in Matches, NEW o \in Matches, n # o,
                          stage'[n] = "update", stage'[o] = "update"
                   PROVE  Participants(n) \cap Participants(o) \subseteq shared'
        BY DEF Apart, Participants
      <3>1. CASE n = m
        BY <2>3, <2>5, <3>1
      <3>2. CASE o = m
        BY <2>3, <2>5, <3>2
      <3>3. CASE n # m /\ o # m
        BY <1>c, <2>1, <2>3, <3>3 DEF Apart
      <3> QED BY <3>1, <3>2, <3>3
    <2> QED BY <2>2, <2>4, <2>6 DEF Balanced
  <1>3. ASSUME NEW m \in Matches, UpdateElo(m) PROVE Balanced'
    BY <1>1, <1>3 DEF UpdateElo
  <1>4. ASSUME NEW m \in Matches, CommitElos(m) PROVE Balanced'
    <2> DEFINE new == elo_updates(elos[m], m)
               at(u) == CHOOSE i \in DOMAIN user_ids[m] : user_ids[m][i] = u
               entry(u) == [match |-> m, user |-> u, change |-> new[at(u)] - elos[m][at(u)]]
    <2>1. /\ stage[m] = "update" /\ stage' = [stage EXCEPT ![m] = "sub"]
          /\ UserElos' = [u \in Users |-> IF u \in Participants(m) THEN new[at(u)]
                                          ELSE UserElos[u]]
          /\ EloHistory' = EloHistory \cup {entry(u) : u \in Participants(m)}
          /\ UNCHANGED <<elos, shared>>
      BY <1>4 DEF CommitElos, Step
    <2>2. \A u \in Participants(m) : /\ u \in Users /\ at(u) \in DOMAIN user_ids[m]
                                     /\ user_ids[m][at(u)] = u
                                     /\ new[at(u)] \in Nat /\ elos[m][at(u)] \in Nat
      <3> SUFFICES ASSUME NEW u \in Participants(m)
                   PROVE  /\ u \in Users /\ at(u) \in DOMAIN user_ids[m]
                          /\ user_ids[m][at(u)] = u
                          /\ new[at(u)] \in Nat /\ elos[m][at(u)] \in Nat
        OBVIOUS
      <3>1. u \in Users
        BY Players DEF Participants
      <3>2. at(u) \in DOMAIN user_ids[m] /\ user_ids[m][at(u)] = u
        BY DEF Participants
      <3> HIDE DEF at
      <3>3. new[at(u)] \in Nat /\ elos[m][at(u)] \in Nat
        BY <1>a, <2>1, <3>2, NewElos DEF RatingTypes, Holding
      <3> QED BY <3>1, <3>2, <3>3
    <2> HIDE DEF new, at
    <2>3. \A n \in Matches : /\ stage'[n] = "update" => n # m /\ stage[n] = "update"
                             /\ n # m => stage'[n] = stage[n]
      BY <1>a, <2>1
    <2>4. stage'[m] \notin Before
      BY <1>a, <2>1 DEF Before
    <2>5. Booked'
      <3>1. IsFiniteSet(EloHistory')
        <4> DEFINE New == {entry(u) : u \in Participants(m)}
                   D == DOMAIN user_ids[m]
                   f == [i \in D |-> entry(user_ids[m][i])]
        <4>1. IsFiniteSet(D)
          <5>1. D = 1 .. Len(user_ids[m]) /\ Len(user_ids[m]) \in Nat
            BY Players
          <5> QED BY <5>1, FS_Interval
        <4> HIDE DEF entry
        <4>2. f \in [D -> New] /\ \A h \in New : \E i \in D : f[i] = h
          BY DEF Participants
        <4>3. f \in Surjection(D, New)
          BY <4>2 DEF Surjection
        <4>4. IsFiniteSet(New)
          BY <4>1, <4>3, FS_Surjection
        <4> QED BY <1>c, <2>1, <4>4, FS_Union DEF Booked
      <3>2. \A h \in EloHistory' : stage'[h.match] \notin Before
        <4> SUFFICES ASSUME NEW h \in EloHistory' PROVE stage'[h.match] \notin Before
          OBVIOUS
        <4>1. CASE h \in EloHistory
          BY <1>a, <1>b, <1>c, <4>1 DEF Booked, RatingTypes
        <4>2. CASE h \notin EloHistory
          BY <2>1, <2>4, <4>2
        <4> QED BY <4>1, <4>2
      <3> QED BY <3>1, <3>2 DEF Booked
    <2>6. Current'
      <3> SUFFICES ASSUME NEW n \in Matches, stage'[n] = "update",
                          NEW i \in DOMAIN user_ids[n], user_ids[n][i] \notin shared'
                   PROVE  elos'[n][i] = UserElos'[user_ids[n][i]]
        BY DEF Current
      <3> DEFINE u == user_ids[n][i]
      <3>1. n # m /\ stage[n] = "update" /\ u \in Users /\ u \in Participants(n)
        BY <2>3, Players DEF Participants
      <3>2. u \notin Participants(m)
        BY <1>c, <2>1, <3>1 DEF Apart
      <3>3. elos[n][i] = UserElos[u]
        BY <1>c, <2>1, <3>1 DEF Current
      <3> QED BY <2>1, <3>1, <3>2, <3>3
    <2>7. Apart'
      BY <1>c, <2>1, <2>3 DEF Apart, Participants
    <2>8. RatingsAddUp'
      <3> SUFFICES ASSUME NEW u \in Users, u \notin shared
                   PROVE  UserElos'[u] = StartElo + Total(HistoryOf(u)')
        BY <2>1 DEF RatingsAddUp, HistoryOf
      <3>1. UserElos[u] = StartElo + Total(HistoryOf(u))
        BY <1>c DEF RatingsAddUp, HistoryOf
      <3>2. CASE u \notin Participants(m)
        <4>1. HistoryOf(u)' = HistoryOf(u)
          BY <2>1, <3>2 DEF HistoryOf
        <4>2. UserElos'[u] = UserElos[u]
          BY <2>1, <3>2
        <4> QED BY <3>1, <4>1, <4>2
      <3>3. CASE u \in Participants(m)
        <4>1. HistoryOf(u)' = HistoryOf(u) \cup {entry(u)}
          BY <2>1, <3>3 DEF HistoryOf
        <4>2. entry(u) \in Changes /\ entry(u).change = new[at(u)] - elos[m][at(u)]
          BY <2>2, <3>3 DEF Changes
        <4>3. entry(u) \notin HistoryOf(u)
          BY <1>c, <2>1 DEF Booked, HistoryOf, Before
        <4>4. HistoryOf(u) \in SUBSET Changes /\ IsFiniteSet(HistoryOf(u))
          <5>1. HistoryOf(u) \subseteq EloHistory /\ EloHistory \subseteq Changes
            BY <1>a DEF HistoryOf, RatingTypes, Changes
          <5> QED BY <1>c, <5>1, FS_Subset DEF Booked
        <4>5. Total(HistoryOf(u)') = Total(HistoryOf(u)) + (new[at(u)] - elos[m][at(u)])
          <5> HIDE DEF entry
          <5> QED BY <4>1, <4>2, <4>3, <4>4, TotalGrows
        <4>6. UserElos'[u] = new[at(u)] /\ elos[m][at(u)] = UserElos[u]
          BY <1>c, <2>1, <2>2, <3>3 DEF Current
        <4>7. /\ Total(HistoryOf(u)) \in Int /\ StartElo \in Nat
              /\ new[at(u)] \in Nat /\ elos[m][at(u)] \in Nat
          BY <2>2, <3>3, <4>4, TotalGrows, RecorderAssumption
        <4> QED BY <3>1, <4>5, <4>6, <4>7
      <3> QED BY <3>2, <3>3
    <2> QED BY <2>5, <2>6, <2>7, <2>8 DEF Balanced
  <1>5. ASSUME NEW m \in Matches, FailRecord(m) PROVE Balanced'
    <2>1. /\ stage' = [stage EXCEPT ![m] = "failed"]
          /\ UNCHANGED <<elos, UserElos, EloHistory, shared>>
      BY <1>5 DEF FailRecord
    <2> QED BY <1>a, <1>1, <2>1
  <1>6. ASSUME notify_elo_update PROVE Balanced'
    BY <1>1, <1>6 DEF notify_elo_update, sql_vars
  <1>7. ASSUME Aside PROVE Balanced'
    BY <1>1, <1>7 DEF Aside, sql_vars
  <1> QED BY <1>2, <1>3, <1>4, <1>5, <1>6, <1>7, RatingSteps

-----------------------------------------------------------------------------
(* Theorems.                                                               *)

\* Once every handler has run and every write has ended, the ratings by which the
\* UserManager matches players are those of the database: though do_record tells
\* notify_elo_update about a rating before its transaction commits, a row is held
\* until then, so that what is told about a player is in the order of the commits.
\* For any number of matches and of players they share, unless a write failed.
THEOREM ManagerCatchesUp == Spec => []ManagerKnowsRatings
  <1> DEFINE I == Places /\ Ratings /\ Telling
  <1>1. Init => I
    BY InitPlaces, InitRatings, InitTelling
  <1>2. I /\ [Next]_vars => I'
    BY NextPlaces, NextRatings, NextTelling
  <1>3. I => ManagerKnowsRatings
    <2> SUFFICES ASSUME Places, Ratings, Telling, Quiet,
                        \A m \in Matches : stage[m] # "failed"
                 PROVE  matching_elos = UserElos
      BY DEF ManagerKnowsRatings
    <2>1. \A u \in Users : matching_elos[u] = UserElos[u]
      <3> SUFFICES ASSUME NEW u \in Users PROVE matching_elos[u] = UserElos[u]
        OBVIOUS
      <3>1. Hears(u)
        BY DEF Telling
      <3>2. written[u] = NoMatch
        <4>1. written[u] \in Matches \cup {NoMatch}
          BY DEF Ratings, RatingTypes
        <4>2. \A m \in Matches : stage[m] # "update"
          BY DEF Quiet, Resting
        <4> QED BY <3>1, <4>1, <4>2 DEF Hears
      <3>3. Says(<<>>, matching_elos, u, UserElos[u])
        BY <3>1, <3>2 DEF Hears, Quiet
      <3>4. About(<<>>, u) = {}
        BY DEF About
      <3> QED BY <3>3, <3>4 DEF Says
    <2>2. matching_elos \in [Users -> Nat] /\ UserElos \in [Users -> Nat]
      BY DEF Ratings, RatingTypes
    <2> QED BY <2>1, <2>2
  <1> QED BY <1>1, <1>2, <1>3, PTL DEF Spec

\* A rating is the initial one plus every change in the player's history, whatever was
\* aborted and whatever the floor cut off: for each player none of whose recordings
\* overlapped another, since do_record then writes the rating it read, and once.
THEOREM HistoryExplainsRatings == Spec => []RatingsAddUp
  <1> DEFINE I == Places /\ Ratings /\ Balanced
  <1>1. Init => I
    BY InitPlaces, InitRatings, InitBalanced
  <1>2. I /\ [Next]_vars => I'
    BY NextPlaces, NextRatings, NextBalanced
  <1>3. I => RatingsAddUp
    BY DEF Balanced
  <1> QED BY <1>1, <1>2, <1>3, PTL DEF Spec

\* Types, with the count of pending writes: pending_writes_ is never more than the
\* number of matches and never wraps below zero, no rating is negative, and the
\* countdown of the shutdown stays a size_t.
THEOREM TypeCorrect ==
    ASSUME SHUTDOWN_COMPONENTS_COUNT = 3
    PROVE  Spec => []TypeOK
  <1> DEFINE I == Places /\ Stopping /\ Writes /\ Ratings
  <1>1. Init => I
    BY InitPlaces, InitStopping, InitWrites, InitRatings
  <1>2. I /\ [Next]_vars => I'
    BY NextPlaces, NextStopping, NextWrites, NextRatings
  <1>3. I => TypeOK
    <2> SUFFICES ASSUME Places, Stopping, Writes, Ratings PROVE TypeOK
      OBVIOUS
    <2>1. pending_writes_ \in 0 .. Cardinality(Matches)
      BY UnderIsFinite DEF Writes
    <2>2. elos \in [Matches -> Seq(Int)]
      <3>1. elos \in [Matches -> Seq(Nat)]
        BY DEF Ratings, RatingTypes
      <3>2. \A q \in Seq(Nat) : q \in Seq(Int)
        <4> SUFFICES ASSUME NEW q \in Seq(Nat) PROVE q \in Seq(Int)
          OBVIOUS
        <4>1. q \in [1 .. Len(q) -> Int] /\ Len(q) \in Nat
          OBVIOUS
        <4> QED BY <4>1, SeqDef
      <3> QED BY <3>1, <3>2
    <2>3. Places /\ StopTypes /\ RatingTypes
      BY DEF Stopping, Ratings
    <2> QED BY <2>1, <2>2, <2>3 DEF Places, StopTypes, RatingTypes, Message, TypeOK
  <1> QED BY <1>1, <1>2, <1>3, PTL DEF Spec

=============================================================================
