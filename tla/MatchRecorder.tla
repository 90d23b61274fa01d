---------------------------- MODULE MatchRecorder ----------------------------
(***************************************************************************)
(* The way of a match result into the database, and the shutdown of the    *)
(* server that has to wait for it (match-maker.cpp, database.cpp,          *)
(* user-manager.cpp, server.cpp).                                          *)
(*                                                                         *)
(* A result goes from the match to global_strand_, from there to the       *)
(* Database's strand_, and from there to thread_pool_, whose threads write *)
(* it and change the ratings.  The shutdown runs on a thread of its own,   *)
(* sets flags and counts down the parts that are done; the last one stops  *)
(* the io_context and with it every strand.                                *)
(*                                                                         *)
(* PostgreSQL is external: a transaction reads what is committed, holds    *)
(* the rows it has written until it ends, and is aborted when it is part   *)
(* of a deadlock.                                                          *)
(***************************************************************************)
EXTENDS Integers, Sequences, FiniteSets, FiniteSetsExt

CONSTANTS
    Matches,
    Users,
    user_ids,                   \* user_ids[m] is the sequence of players of match m
    Ranked,                     \* the matches of ranked modes
    StartElo, ELO_FLOOR,
    SHUTDOWN_COMPONENTS_COUNT,
    SIZE_MAX,                   \* the largest size_t
    MayFail                     \* whether a statement may throw

Main == "main"                  \* the thread that calls Server::shutdown
Threads == Matches \cup {Main}  \* that thread and the pool's, named by their match
NoMatch == "nobody"

ASSUME RecorderAssumption ==
    /\ {Main, NoMatch} \cap Matches = {} /\ IsFiniteSet(Matches)
    /\ user_ids \in [Matches -> Seq(Users)]
    /\ \A m \in Matches : \A i, j \in DOMAIN user_ids[m] :
            user_ids[m][i] = user_ids[m][j] => i = j
    /\ Ranked \subseteq Matches
    /\ ELO_FLOOR \in Nat /\ StartElo \in Nat /\ ELO_FLOOR <= StartElo
    /\ SHUTDOWN_COMPONENTS_COUNT \in Nat \ {0}
    /\ SIZE_MAX \in Nat /\ SIZE_MAX > SHUTDOWN_COMPONENTS_COUNT
    /\ MayFail \in BOOLEAN

VARIABLES
    phase,              \* a match is "playing", "over", or "cut" off by the shutdown
    global_strand_,     \* handlers of the MatchMaker: a match's results, or Main
    cut,                \* matches that were told to shut down
    strand_,            \* handlers of the Database: matches to record
    pending_writes_,
    stage,              \* where each thread is
    row,                \* the player whose rating the thread is about to write
    elos,               \* the ratings the thread has read
    UserElos,           \* committed ratings
    EloHistory,         \* committed changes
    written,            \* per user the match whose transaction holds the row
    manager_strand,     \* notify_elo_update handlers of the UserManager
    matching_elos,      \* the ratings the UserManager knows
    shutting_down_,     \* of the Database
    shutdown_callback_, \* whether it is set
    cb,                 \* threads whose copy of it is callable
    remaining_shutdown_tasks_,
    server,             \* "up", "stopped" or "terminated"
    shared,             \* users with two recordings under way at once
    collided            \* two threads met in try_finish_shutdown

match_vars == <<phase, global_strand_, cut>>
sql_vars == <<row, elos, UserElos, EloHistory, written, shared>>
manager_vars == <<manager_strand, matching_elos>>
stop_vars == <<shutting_down_, shutdown_callback_, cb, remaining_shutdown_tasks_,
               server, collided>>
vars == <<match_vars, strand_, pending_writes_, stage, sql_vars, manager_vars,
          stop_vars>>

Init ==
    /\ phase = [m \in Matches |-> "playing"]
    /\ global_strand_ = <<>> /\ cut = {}
    /\ strand_ = <<>>
    /\ pending_writes_ = 0
    /\ stage = [t \in Threads |-> "idle"]
    /\ row = [m \in Matches |-> 1]
    /\ elos = [m \in Matches |-> <<>>]
    /\ UserElos = [u \in Users |-> StartElo]
    /\ EloHistory = {}
    /\ written = [u \in Users |-> NoMatch]
    /\ manager_strand = <<>>
    /\ matching_elos = [u \in Users |-> StartElo]
    /\ shutting_down_ = FALSE
    /\ shutdown_callback_ = TRUE
    /\ cb = {}
    /\ remaining_shutdown_tasks_ = 0
    /\ server = "up"
    /\ shared = {}
    /\ collided = FALSE

IoRuns == server = "up"             \* the io_context runs handlers
Alive == server # "terminated"      \* threads run

\* Thread t goes on from stage `from` to stage `to`.
Step(t, from, to) ==
    /\ Alive
    /\ stage[t] = from
    /\ stage' = [stage EXCEPT ![t] = to]

-----------------------------------------------------------------------------
(* From the match to the thread pool.                                      *)

\* conclude_game calls results_callback_, which posts to global_strand_.
ConcludeMatch(m) ==
    /\ IoRuns /\ phase[m] = "playing"
    /\ phase' = [phase EXCEPT ![m] = "over"]
    /\ global_strand_' = Append(global_strand_, m)
    /\ UNCHANGED <<cut, strand_, pending_writes_, stage, sql_vars, manager_vars, stop_vars>>

\* MatchInstance::async_shutdown, on the match's strand.
CutMatch(m) ==
    /\ IoRuns /\ m \in cut /\ phase[m] = "playing"
    /\ phase' = [phase EXCEPT ![m] = "cut"]
    /\ UNCHANGED <<global_strand_, cut, strand_, pending_writes_, stage, sql_vars,
                   manager_vars, stop_vars>>

\* The results callback hands the result to Database::record_match.
TakeResults ==
    /\ IoRuns /\ global_strand_ # <<>> /\ Head(global_strand_) # Main
    /\ strand_' = Append(strand_, Head(global_strand_))
    /\ global_strand_' = Tail(global_strand_)
    /\ UNCHANGED <<phase, cut, pending_writes_, stage, sql_vars, manager_vars, stop_vars>>

\* Slip: the write is not counted.
record_uncounted ==
    /\ IoRuns /\ strand_ # <<>>
    /\ strand_' = Tail(strand_)
    /\ stage' = [stage EXCEPT ![Head(strand_)] = "insert"]
    /\ UNCHANGED <<match_vars, pending_writes_, sql_vars, manager_vars, stop_vars>>

\* record_match on strand_: count the write and post it to the pool.
record_match ==
    /\ IoRuns /\ strand_ # <<>>
    /\ strand_' = Tail(strand_)
    /\ pending_writes_' = pending_writes_ + 1
    /\ stage' = [stage EXCEPT ![Head(strand_)] = "insert"]
    /\ UNCHANGED <<match_vars, sql_vars, manager_vars, stop_vars>>

-----------------------------------------------------------------------------
(* do_record, on a thread of the pool.                                     *)

\* The match and its players are inserted and committed.
InsertMatch(m) ==
    /\ Step(m, "insert", IF m \in Ranked THEN "read" ELSE "sub")
    /\ UNCHANGED <<match_vars, strand_, pending_writes_, sql_vars, manager_vars, stop_vars>>

Participants(m) == {user_ids[m][i] : i \in DOMAIN user_ids[m]}

\* The threads that have read the rating of u and not yet committed theirs.
Reading(u) == {m \in Matches : stage[m] = "update" /\ u \in Participants(m)}

\* Slip: the ratings are those the UserManager holds.
ReadCached(m) ==
    /\ Step(m, "read", "update")
    /\ elos' = [elos EXCEPT ![m] =
                    [i \in DOMAIN user_ids[m] |-> matching_elos[user_ids[m][i]]]]
    /\ row' = [row EXCEPT ![m] = 1]
    /\ shared' = shared \cup {u \in Participants(m) : Reading(u) # {}}
    /\ UNCHANGED <<match_vars, strand_, pending_writes_, UserElos, EloHistory, written,
                   manager_vars, stop_vars>>

ReadElos(m) ==
    /\ Step(m, "read", "update")
    /\ elos' = [elos EXCEPT ![m] = [i \in DOMAIN user_ids[m] |-> UserElos[user_ids[m][i]]]]
    /\ row' = [row EXCEPT ![m] = 1]
    /\ shared' = shared \cup {u \in Participants(m) : Reading(u) # {}}
    /\ UNCHANGED <<match_vars, strand_, pending_writes_, UserElos, EloHistory, written,
                   manager_vars, stop_vars>>

\* elo_updates, abstracted to its direction: the last of user_ids won.  No rating
\* falls below the floor.
elo_updates(old, m) ==
    [i \in DOMAIN old |-> IF i = Len(user_ids[m]) THEN old[i] + 1
                          ELSE Max({old[i] - 1, ELO_FLOOR})]

next_user(m) == user_ids[m][row[m]]
Unfinished(m) == stage[m] = "update" /\ row[m] <= Len(user_ids[m])
Blocked(m) == Unfinished(m) /\ written[next_user(m)] \notin {NoMatch, m}

\* Slip: the statement is not part of the transaction, which holds no row.
UpdateOutside(m) ==
    LET u == next_user(m)
    IN  /\ Alive /\ Unfinished(m)
        /\ row' = [row EXCEPT ![m] = @ + 1]
        /\ manager_strand' = Append(manager_strand,
                                [user |-> u, elo |-> elo_updates(elos[m], m)[row[m]]])
        /\ UNCHANGED <<match_vars, strand_, pending_writes_, stage, elos, UserElos,
                       EloHistory, shared, written, matching_elos, stop_vars>>

\* The row of the next player is written (when no other transaction holds it), and
\* the UserManager is told at once.
UpdateElo(m) ==
    LET u == next_user(m)
    IN  /\ Alive /\ Unfinished(m) /\ ~Blocked(m)
        /\ written' = [written EXCEPT ![u] = m]
        /\ row' = [row EXCEPT ![m] = @ + 1]
        /\ manager_strand' = Append(manager_strand,
                                [user |-> u, elo |-> elo_updates(elos[m], m)[row[m]]])
        /\ UNCHANGED <<match_vars, strand_, pending_writes_, stage, elos, UserElos,
                       EloHistory, shared, matching_elos, stop_vars>>

release(m) == [u \in Users |-> IF written[u] = m THEN NoMatch ELSE written[u]]

CommitElos(m) ==
    LET new == elo_updates(elos[m], m)
        at(u) == CHOOSE i \in DOMAIN user_ids[m] : user_ids[m][i] = u
    IN  /\ ~Unfinished(m) /\ Step(m, "update", "sub")
        /\ UserElos' = [u \in Users |-> IF u \in Participants(m) THEN new[at(u)]
                                        ELSE UserElos[u]]
        /\ EloHistory' = EloHistory \cup
                {[match |-> m, user |-> u, change |-> new[at(u)] - elos[m][at(u)]] :
                    u \in Participants(m)}
        /\ written' = release(m)
        /\ UNCHANGED <<match_vars, strand_, pending_writes_, row, elos, shared,
                       manager_vars, stop_vars>>

Deadlocked(m) ==
    \E S \in SUBSET Matches :
        m \in S /\ \A x \in S : Blocked(x) /\ written[next_user(x)] \in S

\* A statement throws; the transaction is rolled back and the handler ends, without
\* the fetch_sub.
FailRecord(m) ==
    /\ Alive
    /\ stage[m] \in {"insert", "read", "update"}
    /\ MayFail \/ Deadlocked(m)
    /\ stage' = [stage EXCEPT ![m] = "failed"]
    /\ written' = release(m)
    /\ UNCHANGED <<match_vars, strand_, pending_writes_, row, elos, UserElos, EloHistory,
                   shared, manager_vars, stop_vars>>

\* Slip: the end of a write does not look at the shutdown.
EndWriteSilently(m) ==
    /\ Step(m, "sub", "out")
    /\ pending_writes_' = pending_writes_ - 1
    /\ UNCHANGED <<match_vars, strand_, sql_vars, manager_vars, stop_vars>>

EndWrite(m) ==
    /\ Step(m, "sub", "flag")
    /\ pending_writes_' = pending_writes_ - 1
    /\ UNCHANGED <<match_vars, strand_, sql_vars, manager_vars, stop_vars>>

\* UserManager::notify_elo_update on its strand.
notify_elo_update ==
    LET h == Head(manager_strand)
    IN  /\ IoRuns /\ manager_strand # <<>>
        /\ manager_strand' = Tail(manager_strand)
        /\ matching_elos' = [matching_elos EXCEPT ![h.user] = h.elo]
        /\ UNCHANGED <<match_vars, strand_, pending_writes_, stage, sql_vars, stop_vars>>

-----------------------------------------------------------------------------
(* The shutdown.                                                           *)

\* Slip: stops one part early.
notify_early ==
    LET left == IF remaining_shutdown_tasks_ = 0 THEN SIZE_MAX
                ELSE remaining_shutdown_tasks_ - 1
    IN  /\ remaining_shutdown_tasks_' = left
        /\ server' = IF left <= 1 THEN "stopped" ELSE server

\* notify_subsystem_shutdown: one part is done; the last one stops the io_context.
notify_subsystem_shutdown ==
    LET left == IF remaining_shutdown_tasks_ = 0 THEN SIZE_MAX
                ELSE remaining_shutdown_tasks_ - 1
    IN  /\ remaining_shutdown_tasks_' = left
        /\ server' = IF left = 0 THEN "stopped" ELSE server

\* Server::shutdown: the count is set and the MatchMaker told.
Shutdown ==
    /\ IoRuns /\ Step(Main, "idle", "set")
    /\ remaining_shutdown_tasks_' = SHUTDOWN_COMPONENTS_COUNT
    /\ global_strand_' = Append(global_strand_, Main)
    /\ UNCHANGED <<phase, cut, strand_, pending_writes_, sql_vars, manager_vars,
                   shutting_down_, shutdown_callback_, cb, server, collided>>

\* MatchMaker::async_shutdown on global_strand_.
ShutdownMatches ==
    /\ IoRuns /\ global_strand_ # <<>> /\ Head(global_strand_) = Main
    /\ global_strand_' = Tail(global_strand_)
    /\ cut' = {m \in Matches : phase[m] = "playing"}
    /\ notify_subsystem_shutdown
    /\ UNCHANGED <<phase, strand_, pending_writes_, stage, sql_vars, manager_vars,
                   shutting_down_, shutdown_callback_, cb, collided>>

\* Database::async_shutdown: set the flag, then try to finish.
SetFlag ==
    /\ Step(Main, "set", "flag")
    /\ shutting_down_' = TRUE
    /\ UNCHANGED <<match_vars, strand_, pending_writes_, sql_vars, manager_vars,
                   shutdown_callback_, cb, remaining_shutdown_tasks_, server, collided>>

\* try_finish_shutdown, by the thread of the shutdown and by those of the pool: the
\* flag, the count and the callback are read one after the other ...
TestFlag(t) ==
    /\ Step(t, "flag", IF shutting_down_ THEN "count" ELSE "out")
    /\ UNCHANGED <<match_vars, strand_, pending_writes_, sql_vars, manager_vars, stop_vars>>

TestCount(t) ==
    /\ Step(t, "count", IF pending_writes_ > 0 THEN "out" ELSE "test")
    /\ UNCHANGED <<match_vars, strand_, pending_writes_, sql_vars, manager_vars, stop_vars>>

Inside == {t \in Threads : stage[t] \in {"move", "clear"}}

TestCallback(t) ==
    /\ Step(t, "test", IF shutdown_callback_ THEN "move" ELSE "out")
    /\ collided' = (collided \/ (shutdown_callback_ /\ Inside # {}))
    /\ UNCHANGED <<match_vars, strand_, pending_writes_, sql_vars, manager_vars,
                   shutting_down_, shutdown_callback_, cb, remaining_shutdown_tasks_, server>>

\* ... and no lock is held while it is moved: two threads may both get it, or one of
\* them gets an empty function.
MoveCallback(t) ==
    /\ Step(t, "move", "clear")
    /\ cb' = IF shutdown_callback_ THEN cb \cup {t} ELSE cb
    /\ UNCHANGED <<match_vars, strand_, pending_writes_, sql_vars, manager_vars,
                   shutting_down_, shutdown_callback_, remaining_shutdown_tasks_,
                   server, collided>>

ClearCallback(t) ==
    /\ Step(t, "clear", "call")
    /\ shutdown_callback_' = FALSE
    /\ UNCHANGED <<match_vars, strand_, pending_writes_, sql_vars, manager_vars,
                   shutting_down_, cb, remaining_shutdown_tasks_, server, collided>>

\* Calling an empty function throws: do_record catches it, the io thread that runs
\* the shutdown does not.
CallCallback(t) ==
    /\ Step(t, "call", "out")
    /\ IF t \in cb THEN notify_subsystem_shutdown
       ELSE /\ server' = IF t = Main THEN "terminated" ELSE server
            /\ UNCHANGED remaining_shutdown_tasks_
    /\ UNCHANGED <<match_vars, strand_, pending_writes_, sql_vars, manager_vars,
                   shutting_down_, shutdown_callback_, cb, collided>>

\* Server::shutdown closes the sessions and counts itself.
FinishShutdown ==
    /\ Step(Main, "out", "done")
    /\ notify_subsystem_shutdown
    /\ UNCHANGED <<match_vars, strand_, pending_writes_, sql_vars, manager_vars,
                   shutting_down_, shutdown_callback_, cb, collided>>

-----------------------------------------------------------------------------

DoRecord(m) ==
    \/ InsertMatch(m) \/ ReadElos(m) \/ UpdateElo(m) \/ CommitElos(m)
    \/ FailRecord(m) \/ EndWrite(m)

TryFinish(t) ==
    \/ TestFlag(t) \/ TestCount(t) \/ TestCallback(t)
    \/ MoveCallback(t) \/ ClearCallback(t) \/ CallCallback(t)

Resting == {"idle", "out", "failed", "done"}

Quiet ==
    /\ manager_strand = <<>> /\ strand_ = <<>> /\ global_strand_ = <<>>
    /\ \A m \in Matches : stage[m] \in Resting

\* The process has ended, or everything has been handled.
Ended == (server # "up" \/ Quiet) /\ UNCHANGED vars

Next ==
    \/ \E m \in Matches : ConcludeMatch(m) \/ CutMatch(m) \/ DoRecord(m)
    \/ \E t \in Threads : TryFinish(t)
    \/ TakeResults
    \/ record_match
    \/ notify_elo_update
    \/ Shutdown
    \/ ShutdownMatches
    \/ SetFlag
    \/ FinishShutdown
    \/ Ended

Spec == Init /\ [][Next]_vars

(***************************************************************************)
(* The threads of the io_context and of the pool run what is ready.  No    *)
(* match has to end and nobody has to shut the server down.                *)
(***************************************************************************)
FairSpec ==
    /\ Spec
    /\ WF_vars(TakeResults \/ ShutdownMatches)
    /\ WF_vars(record_match)
    /\ WF_vars(SetFlag \/ FinishShutdown)
    /\ \A m \in Matches : WF_vars(DoRecord(m))
    /\ \A t \in Threads : WF_vars(TryFinish(t))

-----------------------------------------------------------------------------
(* Properties.                                                             *)

Stages == Resting \cup {"insert", "read", "update", "sub", "set", "flag", "count",
                        "test", "move", "clear", "call"}

TypeOK ==
    /\ phase \in [Matches -> {"playing", "over", "cut"}]
    /\ global_strand_ \in Seq(Threads) /\ cut \subseteq Matches
    /\ strand_ \in Seq(Matches)
    /\ pending_writes_ \in 0 .. Cardinality(Matches)
    /\ stage \in [Threads -> Stages]
    /\ \A m \in Matches : row[m] \in 1 .. Len(user_ids[m]) + 1
    /\ elos \in [Matches -> Seq(Int)]
    /\ UserElos \in [Users -> Nat]
    /\ EloHistory \subseteq [match : Matches, user : Users, change : Int]
    /\ written \in [Users -> Matches \cup {NoMatch}]
    /\ manager_strand \in Seq([user : Users, elo : Nat])
    /\ matching_elos \in [Users -> Nat]
    /\ shutting_down_ \in BOOLEAN /\ shutdown_callback_ \in BOOLEAN
    /\ cb \subseteq Threads
    /\ remaining_shutdown_tasks_ \in 0 .. SIZE_MAX
    /\ server \in {"up", "stopped", "terminated"}
    /\ shared \subseteq Users
    /\ collided \in BOOLEAN

\* What a set of history records adds up to.
Total(H) == MapThenSumSet(LAMBDA h : h.change, H)

\* A rating is what it was at the start plus every change in the player's history:
\* do_record reads, computes and writes in a transaction without locking what it
\* read, so this holds for the users whose recordings did not overlap.
RatingsAddUp ==
    \A u \in Users \ shared :
        UserElos[u] = StartElo + Total({h \in EloHistory : h.user = u})

\* The ratings the UserManager matches players by are told before the transaction
\* commits, by several threads.  When everything has been handled and nothing has
\* failed they are those of the database, overlap or not.
ManagerKnowsRatings ==
    (Quiet /\ \A m \in Matches : stage[m] # "failed") => matching_elos = UserElos

\* The io_context is stopped when each of the three parts is done, and not before: the
\* matches have been told, the Database has seen no pending write, and the sessions
\* are closed.  (It holds unless two threads met in try_finish_shutdown, where both
\* may count for the Database.)
StopsWhenAllAreDone ==
    server = "stopped" =>
        \/ collided
        \/ /\ \A i \in DOMAIN global_strand_ : global_strand_[i] # Main
           /\ ~shutdown_callback_
           /\ stage[Main] = "done"

\* Once a shutdown was asked for the server stops, whatever was being written at the
\* time: of the thread that sets the flag and the one that ends the last write, at
\* least one sees what the other did.  A write that fails is never counted as ended,
\* and the server then waits for it.
ShutdownCompletes ==
    (stage[Main] # "idle") ~> (server # "up" \/ \E m \in Matches : stage[m] = "failed")

-----------------------------------------------------------------------------
(* What a comment of the source says of the end, and the code does not keep. *)

\* database.cpp:191 "we need to not prevent match results to be returned and exit only
\* once done": no result that was handed to record_match is unwritten at the end.
ExitsOnceDone ==
    server = "stopped" =>
        /\ strand_ = <<>>
        /\ \A m \in Matches : stage[m] \notin {"insert", "read", "update"}

=============================================================================
