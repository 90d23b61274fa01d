---------------------------- MODULE KeyedExecutor ----------------------------
(***************************************************************************)
(* The KeyedExecutor of the server (keyed-executor.h): jobs posted under a *)
(* key run on the strand of that key's entry.  An entry is made by the     *)
(* first post that finds none in map_ and is erased by the handler that    *)
(* brings its pending count to zero.  The Database posts the work of a     *)
(* user under the user's UUID, from any thread.                            *)
(*                                                                         *)
(* Jobs are numbered in the order in which post() takes map_mutex_; an     *)
(* entry is named after the job whose post created it.  A handler's        *)
(* fetch_sub is one step and its erase under the mutex another: the code   *)
(* does not hold map_mutex_ in between.                                    *)
(***************************************************************************)
EXTENDS Integers, Sequences, FiniteSets

CONSTANTS Keys, MaxJobs     \* MaxJobs bounds the number of posts

ASSUME JobsAssumption == MaxJobs \in Nat

Jobs == 1 .. MaxJobs
NoEntry == 0

VARIABLES
    map_,       \* key -> its entry, or NoEntry
    key,        \* job -> the key it was posted under, for the jobs posted so far
    strand,     \* entry -> jobs waiting on its strand, the running one at the head
    pending,    \* entry -> its atomic count
    handler,    \* entry -> what the strand's current handler is doing
    finished,   \* jobs whose function has returned
    reused      \* keys whose entry was taken by a post after its count was zero

executor_vars == <<map_, key, strand, pending, handler, finished, reused>>

Posted == DOMAIN key

ExecutorInit ==
    /\ map_ = [k \in Keys |-> NoEntry]
    /\ key = <<>>
    /\ strand = [e \in Jobs |-> <<>>]
    /\ pending = [e \in Jobs |-> 0]
    /\ handler = [e \in Jobs |-> "idle"]
    /\ finished = {}
    /\ reused = {}

\* Slip: the job is not counted.
EnqueueUncounted(e, j, k) ==
    /\ key' = Append(key, k)
    /\ strand' = [strand EXCEPT ![e] = Append(@, j)]
    /\ UNCHANGED <<pending, handler, finished>>

\* post(): find or create the entry, count the job, put it on the strand; all of
\* it under map_mutex_.
Enqueue(e, j, k) ==
    /\ key' = Append(key, k)
    /\ pending' = [pending EXCEPT ![e] = @ + 1]
    /\ strand' = [strand EXCEPT ![e] = Append(@, j)]
    /\ UNCHANGED <<handler, finished>>

PostNew(k) ==
    LET j == Len(key) + 1
    IN  /\ j \in Jobs
        /\ map_[k] = NoEntry
        /\ map_' = [map_ EXCEPT ![k] = j]
        /\ Enqueue(j, j, k)
        /\ reused' = reused

PostExisting(k) ==
    LET j == Len(key) + 1
    IN  /\ j \in Jobs
        /\ map_[k] # NoEntry
        /\ Enqueue(map_[k], j, k)
        /\ reused' = IF pending[map_[k]] = 0 THEN reused \cup {k} ELSE reused
        /\ map_' = map_

\* A pool thread takes the next handler of an entry's strand and calls func().
Start(e) ==
    /\ handler[e] = "idle" /\ strand[e] # <<>>
    /\ handler' = [handler EXCEPT ![e] = "func"]
    /\ UNCHANGED <<map_, key, strand, pending, finished, reused>>

\* Slip: every handler goes on to the erase.
ReleaseAlwaysErases(e) ==
    /\ handler[e] = "func"
    /\ pending' = [pending EXCEPT ![e] = @ - 1]
    /\ handler' = [handler EXCEPT ![e] = "erase"]
    /\ strand' = [strand EXCEPT ![e] = Tail(@)]
    /\ finished' = finished \cup {Head(strand[e])}
    /\ UNCHANGED <<map_, key, reused>>

\* func() returns and the count goes down.
Release(e) ==
    /\ handler[e] = "func"
    /\ pending' = [pending EXCEPT ![e] = @ - 1]
    /\ handler' = [handler EXCEPT ![e] = IF pending[e] = 1 THEN "erase" ELSE "idle"]
    /\ strand' = [strand EXCEPT ![e] = Tail(@)]
    /\ finished' = finished \cup {Head(strand[e])}
    /\ UNCHANGED <<map_, key, reused>>

\* Slip: the comparison of the entries is inverted.
EraseOthers(e) ==
    /\ handler[e] = "erase"
    /\ map_' = [k \in Keys |-> IF map_[k] # e THEN NoEntry ELSE map_[k]]
    /\ handler' = [handler EXCEPT ![e] = "idle"]
    /\ UNCHANGED <<key, strand, pending, finished, reused>>

\* Slip: the jobs that came in meanwhile go with the entry.
EraseDiscards(e) ==
    /\ handler[e] = "erase"
    /\ map_' = [k \in Keys |-> IF map_[k] = e THEN NoEntry ELSE map_[k]]
    /\ handler' = [handler EXCEPT ![e] = "idle"]
    /\ strand' = [strand EXCEPT ![e] = <<>>]
    /\ UNCHANGED <<key, pending, finished, reused>>

\* The handler that saw the count reach zero erases the entry, if it is still the
\* one in the map.
Erase(e) ==
    /\ handler[e] = "erase"
    /\ map_' = [k \in Keys |-> IF map_[k] = e THEN NoEntry ELSE map_[k]]
    /\ handler' = [handler EXCEPT ![e] = "idle"]
    /\ UNCHANGED <<key, strand, pending, finished, reused>>

Idle == \A e \in Jobs : handler[e] = "idle" /\ strand[e] = <<>>

\* No more posts come and all work is done.
Quiescent == Len(key) = MaxJobs /\ Idle /\ UNCHANGED executor_vars

ExecutorNext ==
    \/ \E k \in Keys : PostNew(k) \/ PostExisting(k)
    \/ \E e \in Jobs : Start(e) \/ Release(e) \/ Erase(e)
    \/ Quiescent

ExecutorSpec == ExecutorInit /\ [][ExecutorNext]_executor_vars

\* The pool's threads keep serving every strand, and the functions return.
FairExecutorSpec ==
    ExecutorSpec /\ \A e \in Jobs : WF_executor_vars(Start(e) \/ Release(e) \/ Erase(e))

-----------------------------------------------------------------------------
(* Properties.                                                             *)

TypeOK ==
    /\ map_ \in [Keys -> Jobs \cup {NoEntry}]
    /\ key \in Seq(Keys) /\ Len(key) <= MaxJobs
    /\ strand \in [Jobs -> Seq(Jobs)]
    /\ pending \in [Jobs -> Nat]
    /\ handler \in [Jobs -> {"idle", "func", "erase"}]
    /\ finished \subseteq Jobs
    /\ reused \subseteq Keys

\* When a job runs, every job posted earlier under its key has returned.
InTurn(e) ==
    handler[e] = "func" =>
        \A i \in Posted :
            i < Head(strand[e]) /\ key[i] = key[Head(strand[e])] => i \in finished

\* Jobs of one key run one at a time and in the order they were posted, as long as
\* no post has taken the key's entry between the fetch_sub that brought its count to
\* zero and the erase that follows it.
SerialUnlessReused ==
    \A e \in Jobs :
        handler[e] = "func" => key[Head(strand[e])] \in reused \/ InTurn(e)

\* No entry stays behind in the map once the executor has nothing left to do, race
\* or no race.
NoLeak == Idle => \A k \in Keys : map_[k] = NoEntry

\* Every posted job runs, whether or not its entry is erased under it.
EveryJobRuns == \A j \in Jobs : (j \in Posted) ~> (j \in finished)

\* README.md:373 "assigns a strand to each unique user ID (UUID), preventing user data
\* races during concurrent database calls": no two jobs of one key run at once.
Serialized ==
    \A d, e \in Jobs :
        (handler[d] = "func" /\ handler[e] = "func" /\ d # e)
            => key[Head(strand[d])] # key[Head(strand[e])]

=============================================================================
