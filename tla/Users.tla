-------------------------------- MODULE Users --------------------------------
(***************************************************************************)
(* Accounts, logins, friends, blocks and bans (server.cpp, database.cpp,   *)
(* user-manager.cpp).                                                      *)
(*                                                                         *)
(* A request goes from the connection's strand to the Database: by way of  *)
(* a thread of the pool, which looks a name up, or directly, to the strand *)
(* of one of the two users it is about.  The job there changes the tables  *)
(* and posts what it has done to the UserManager; a login and a ban take   *)
(* the way over the server's strand.  So the tables and the UserManager's  *)
(* copy of them are changed by different threads, in different orders.     *)
(*                                                                         *)
(* PostgreSQL is external: a transaction tests what is committed when it   *)
(* tests, and takes effect when it commits.  KeyedExecutor.tla is about    *)
(* the strands of the users; here they run their jobs one by one.  What is *)
(* delivered to a client is left out, except its match history.            *)
(***************************************************************************)
EXTENDS Integers, Sequences, FiniteSets, SequencesExt

CONSTANTS
    Users,              \* uuids, and the names that go with them
    Sessions,           \* connections, in the order of nothing
    IPs, ip,            \* ip[s] is the address session s comes from
    Matches,            \* matches the MatchMaker may make, of all the Users
    MAX_FRIEND_REQUESTS,
    Starts,             \* to start with: the tables, who is logged in with which
                        \* session, and the matches that everybody has forfeited
    MayFail,            \* whether a statement may throw
    MaxCalls            \* bound: requests, lost peers, and steps of matches

Nobody == "nobody"      \* nil_uuid, a null session, an expired match

\* The tables of the database, as far as they are about users.
Tables == [accounts : SUBSET Users, friends : SUBSET SUBSET Users,
           requests : SUBSET (Users \X Users), blocked : SUBSET (Users \X Users),
           bans : SUBSET Users, ips : [IPs -> {"none", "active", "expired"}]]

ASSUME UsersAssumption ==
    /\ Nobody \notin Users \cup Sessions \cup Matches
    /\ IsFiniteSet(Users)
    /\ ip \in [Sessions -> IPs]
    /\ \A start \in Starts :
          /\ start.db \in Tables
          /\ \E S \in SUBSET Sessions :
                start.online \in [S -> start.db.accounts \ start.db.bans]
          /\ \A s, r \in DOMAIN start.online :
                start.online[s] = start.online[r] => s = r
    /\ MAX_FRIEND_REQUESTS \in Nat /\ MaxCalls \in Nat
    /\ MayFail \in BOOLEAN

VARIABLES
    session,            \* the Sessions
    bans_,              \* the Server's copy of the banned addresses
    server_strand_,     \* handlers of the Server
    pool,               \* handlers on thread_pool_, which run in any order
    uuid_strands_,      \* jobs of the Database, per user
    stage,              \* how far the first job of each strand is
    db,                 \* the committed tables
    manager_strand,     \* handlers of the UserManager
    users_, sid_to_uuid_,
    live_matches_,      \* "none", "live", "over" or "recorded"
    players,            \* those of a match who have not forfeited
    history,            \* the matches the client of a session has been sent
    calls,              \* requests, lost peers and steps of matches so far
    ghost               \* what happened: see the properties

strands == <<server_strand_, pool, uuid_strands_, stage, manager_strand>>
manager == <<users_, sid_to_uuid_>>
match_vars == <<live_matches_, players>>
vars == <<session, bans_, strands, db, manager, match_vars, history, calls, ghost>>

User(s, m, friends, blocks) ==
    [current_session |-> s, current_match |-> m,
     friends |-> friends, blocked_users |-> blocks]

FriendsOf(u) == {v \in Users \ {u} : {u, v} \in db.friends}
BlocksOf(u) == {v \in Users : <<u, v>> \in db.blocked}

\* The bans are loaded, some users have logged in, and nothing is under way.
Init ==
  \E start \in Starts :
    /\ session = [s \in Sessions |->
                    LET in == s \in DOMAIN start.online
                    IN  [state |-> IF in THEN "open" ELSE "off",
                         user_data_ |-> IF in THEN start.online[s] ELSE Nobody,
                         called_register_ |-> FALSE, has_new_matches_ |-> TRUE]]
    /\ db = start.db
    /\ bans_ = db.ips
    /\ server_strand_ = <<>> /\ pool = {} /\ manager_strand = <<>>
    /\ uuid_strands_ = [u \in Users |-> <<>>]
    /\ stage = [u \in Users |-> "begin"]
    /\ sid_to_uuid_ = start.online
    /\ users_ = [u \in Range(start.online) |->
                   User(CHOOSE s \in DOMAIN start.online : start.online[s] = u, Nobody,
                        FriendsOf(u), BlocksOf(u))]
    /\ live_matches_ = [m \in Matches |-> IF m \in start.forfeited THEN "live" ELSE "none"]
    /\ players = [m \in Matches |-> IF m \in start.forfeited THEN {} ELSE Users]
    /\ history = [s \in Sessions |-> {}]
    /\ calls = 0
    /\ ghost = [raced |-> {}, late |-> {}, missed |-> {}]

-----------------------------------------------------------------------------
(* Connections.  An open session becomes "closing" with close_session,     *)
(* "closed" when its strand has closed it, "gone" when the UserManager     *)
(* has heard of it.  Messages read before the close are still handled.     *)

close_session(sessions, s) ==
    IF s # Nobody /\ sessions[s].state = "open"
    THEN [sessions EXCEPT ![s].state = "closing"] ELSE sessions

Job(op, by, to, s) == [op |-> op, by |-> by, to |-> to, s |-> s]

Count == calls < MaxCalls /\ calls' = calls + 1

\* Accept a connection; a ban that has run out is lifted in the tables too.
handle_accept(s) ==
    /\ session[s].state = "off"
    /\ session' = [session EXCEPT ![s].state =
                     IF bans_[ip[s]] = "active" THEN "gone" ELSE "open"]
    /\ bans_' = [bans_ EXCEPT ![ip[s]] = IF @ = "active" THEN @ ELSE "none"]
    /\ pool' = IF bans_[ip[s]] = "expired"
               THEN pool \cup {Job("unban_ip", Nobody, ip[s], Nobody)} ELSE pool
    /\ UNCHANGED <<server_strand_, uuid_strands_, stage, manager_strand, db, manager,
                   match_vars, history, calls, ghost>>

\* The peer is lost, or closes the connection.
LosePeer(s) ==
    /\ session[s].state = "open"
    /\ Count
    /\ session' = close_session(session, s)
    /\ UNCHANGED <<bans_, strands, db, manager, match_vars, history, ghost>>

\* The session's strand has closed it and calls remove_session.
remove_session(s) ==
    /\ session[s].state = "closing"
    /\ session' = [session EXCEPT ![s].state = "closed"]
    /\ server_strand_' = Append(server_strand_, [op |-> "disconnect", s |-> s])
    /\ UNCHANGED <<bans_, pool, uuid_strands_, stage, manager_strand, db, manager,
                   match_vars, history, calls, ghost>>

-----------------------------------------------------------------------------
(* Server::on_message, on the session's strand, and the operator's console. *)

ByName == {"request", "block"}
ById == {"accept", "decline", "unblock", "remove"}

\* A message of session s is handled.
Receive(s) == session[s].state \in {"open", "closing"}

ToPool(j) == j \notin pool /\ pool' = pool \cup {j} /\ UNCHANGED uuid_strands_
ToStrand(u, j) ==
    uuid_strands_' = [uuid_strands_ EXCEPT ![u] = Append(@, j)] /\ UNCHANGED pool

Login(s, u) ==
    /\ Receive(s) /\ session[s].user_data_ = Nobody
    /\ Count
    /\ ToPool(Job("login", u, u, s))
    /\ UNCHANGED <<session, bans_, server_strand_, stage, manager_strand, db, manager,
                   match_vars, history, ghost>>

Register(s, u) ==
    /\ Receive(s) /\ session[s].user_data_ = Nobody /\ ~session[s].called_register_
    /\ Count
    /\ ToPool(Job("register", u, u, s))
    /\ UNCHANGED <<session, bans_, server_strand_, stage, manager_strand, db, manager,
                   match_vars, history, ghost>>

\* The user whose strand a request that needs no lookup is put on.
StrandOf(op, me, v) == IF op \in {"accept", "decline"} THEN me ELSE v

\* Friend requests, answers to them, blocks and their removal.
ChangeRelation(s, op, v) ==
    LET me == session[s].user_data_ IN
    /\ Receive(s) /\ me # Nobody
    /\ Count
    /\ \/ op \in ByName /\ ToPool(Job(op, me, v, s))
       \/ op \in ById /\ v # me /\ ToStrand(StrandOf(op, me, v), Job(op, me, v, s))
    /\ UNCHANGED <<session, bans_, server_strand_, stage, manager_strand, db, manager,
                   match_vars, history, ghost>>

\* The flag goes down before the matches are read.
FetchMatchHistory(s) ==
    LET me == session[s].user_data_ IN
    /\ Receive(s) /\ me # Nobody /\ session[s].has_new_matches_
    /\ Count
    /\ session' = [session EXCEPT ![s].has_new_matches_ = FALSE]
    /\ ToStrand(me, Job("history", me, me, s))
    /\ UNCHANGED <<bans_, server_strand_, stage, manager_strand, db, manager,
                   match_vars, history, ghost>>

\* The operator bans or unbans a user or an address.
Console(op, x) ==
    /\ x \in IF op = "ban_ip" THEN IPs ELSE Users
    /\ Count
    /\ ToPool(Job(op, Nobody, x, Nobody))
    /\ UNCHANGED <<session, bans_, server_strand_, stage, manager_strand, db, manager,
                   match_vars, history, ghost>>

-----------------------------------------------------------------------------
(* Handlers on thread_pool_.                                               *)

OffPool(j) ==
    /\ j \in pool /\ pool' = pool \ {j}
    /\ UNCHANGED <<bans_, server_strand_, stage, manager_strand, manager, match_vars,
                   history, calls, ghost>>

\* Find the uuid that goes with a name, and go on on its strand.
Lookup(j) ==
    /\ OffPool(j) /\ j.op \in {"login", "ban", "unban"} \cup ByName
    /\ uuid_strands_' =
         IF j.to \in db.accounts /\ ~(j.op \in ByName /\ j.by = j.to)
         THEN [uuid_strands_ EXCEPT ![j.to] = Append(@, j)] ELSE uuid_strands_
    /\ UNCHANGED <<session, db>>

\* Make an account, unless the name is taken.
do_register(j) ==
    /\ OffPool(j) /\ j.op = "register"
    /\ IF j.to \in db.accounts THEN UNCHANGED <<db, session>>
       ELSE /\ db' = [db EXCEPT !.accounts = @ \cup {j.to}]
            /\ session' = [session EXCEPT ![j.s].called_register_ = TRUE]
    /\ UNCHANGED uuid_strands_

do_ban_ip(j) ==
    /\ OffPool(j) /\ j.op = "ban_ip"
    /\ db' = [db EXCEPT !.ips[j.to] = "active"]
    /\ UNCHANGED <<session, uuid_strands_>>

\* Whatever ban the address has by now ends.
do_unban_ip(j) ==
    /\ OffPool(j) /\ j.op = "unban_ip"
    /\ db' = [db EXCEPT !.ips[j.to] = IF @ = "none" THEN @ ELSE "expired"]
    /\ UNCHANGED <<session, uuid_strands_>>

\* A statement throws: the transaction is rolled back, and the request is dropped.
FailOnPool(j) ==
    /\ MayFail /\ OffPool(j)
    /\ UNCHANGED <<session, db, uuid_strands_>>

-----------------------------------------------------------------------------
(* Jobs on the strand of user u.                                           *)

At(u, ops, st) ==
    /\ uuid_strands_[u] # <<>> /\ Head(uuid_strands_[u]).op \in ops /\ stage[u] = st
    /\ UNCHANGED <<bans_, pool, manager, match_vars, calls>>

GoOn(u, st) == stage' = [stage EXCEPT ![u] = st] /\ UNCHANGED uuid_strands_
Finish(u) ==
    /\ stage' = [stage EXCEPT ![u] = "begin"]
    /\ uuid_strands_' = [uuid_strands_ EXCEPT ![u] = Tail(@)]

\* The pairs of users with a job that has begun, the one of strand u aside.
UnderWay(u) ==
    {{Head(uuid_strands_[w]).by, Head(uuid_strands_[w]).to} :
        w \in {w \in Users \ {u} : stage[w] # "begin"}}

\* A login of one of the pair has read its lists and not yet brought them in.
LoginUnderWay(pair) ==
    \E h \in ToSet(server_strand_) \cup ToSet(manager_strand) :
        h.op = "login" /\ h.u \in pair

Mark(pairs) == ghost' = [ghost EXCEPT !.raced = @ \cup pairs]
MarkIfRaced(u) ==
    LET pair == {Head(uuid_strands_[u]).by, Head(uuid_strands_[u]).to}
    IN  Mark(IF pair \in UnderWay(u) \/ LoginUnderWay(pair) THEN {pair} ELSE {})

LoginHandler(u, s, friends, blocks) ==
    [op |-> "login", u |-> u, s |-> s, friends |-> friends, blocks |-> blocks]

\* The user is banned: tell them and close the connection.
AuthBanned(u) ==
    LET j == Head(uuid_strands_[u]) IN
    /\ At(u, {"login"}, "begin") /\ u \in db.bans
    /\ session' = close_session(session, j.s)
    /\ Finish(u)
    /\ UNCHANGED <<db, server_strand_, manager_strand, history, ghost>>

\* A wrong password, or an error before it has been looked at.
AuthRefused(u) ==
    /\ At(u, {"login"}, "begin")
    /\ MayFail \/ u \notin db.bans
    /\ Finish(u)
    /\ UNCHANGED <<session, db, server_strand_, manager_strand, history, ghost>>

\* The password is right: read the lists.  An error from here on does not
\* stop the login, only the reading.
AuthGood(u) ==
    LET j == Head(uuid_strands_[u]) IN
    /\ At(u, {"login"}, "begin") /\ u \notin db.bans
    /\ \/ /\ server_strand_' = Append(server_strand_,
                LoginHandler(u, j.s, FriendsOf(u), BlocksOf(u)))
          /\ Mark({p \in UnderWay(u) : u \in p})
       \/ /\ MayFail
          /\ server_strand_' = Append(server_strand_, LoginHandler(u, j.s, {}, {}))
          /\ Mark({{u, v} : v \in Users})
    /\ Finish(u)
    /\ UNCHANGED <<session, db, manager_strand, history>>

\* What the statements of a job make of the tables d.
friend_request(d, j) ==
    IF Cardinality({r \in d.requests : r[1] = j.by}) < MAX_FRIEND_REQUESTS
    THEN [d EXCEPT !.requests = @ \cup {<<j.by, j.to>>}] ELSE d
delete_friend_request(d, j) == [d EXCEPT !.requests = @ \ {<<j.to, j.by>>}]
accept_friend(d, j) ==
    [delete_friend_request(d, j) EXCEPT !.friends = @ \cup {{j.by, j.to}}]
remove_friend(d, j) == [d EXCEPT !.friends = @ \ {{j.by, j.to}}]
block_user(d, j) ==
    [remove_friend(d, j) EXCEPT !.blocked = @ \cup {<<j.by, j.to>>},
                                !.requests = @ \ {<<j.by, j.to>>, <<j.to, j.by>>}]
unblock_user(d, j) == [d EXCEPT !.blocked = @ \ {<<j.by, j.to>>}]
ban_user(d, j) == [d EXCEPT !.bans = @ \cup {j.to}]

\* The sender has blocked the receiver.
check_blocked(j) == <<j.by, j.to>> \in db.blocked

\* Two steps: the tests, and the commit.
do_send_friend_request(u) ==
    LET j == Head(uuid_strands_[u]) IN
    /\ \/ /\ At(u, {"request"}, "begin")
          /\ IF check_blocked(j) \/ {j.by, j.to} \in db.friends
             THEN Finish(u) ELSE GoOn(u, "tested")
          /\ UNCHANGED db
       \/ /\ At(u, {"request"}, "tested")
          /\ \/ db' = friend_request(db, j)
             \/ MayFail /\ UNCHANGED db
          /\ Finish(u)
    /\ UNCHANGED <<session, server_strand_, manager_strand, history, ghost>>

\* Three steps: look for the request, tell the UserManager, commit.
AcceptFriend(u) ==
    LET j == Head(uuid_strands_[u]) IN
    /\ \/ /\ At(u, {"accept"}, "begin")
          /\ IF <<j.to, j.by>> \in db.requests THEN GoOn(u, "found") ELSE Finish(u)
          /\ UNCHANGED <<db, manager_strand>> /\ MarkIfRaced(u)
       \/ /\ At(u, {"accept"}, "found")
          /\ manager_strand' = Append(manager_strand, j)
          /\ GoOn(u, "posted")
          /\ UNCHANGED db /\ MarkIfRaced(u)
       \/ /\ At(u, {"accept"}, "posted")
          /\ \/ db' = accept_friend(db, j) /\ MarkIfRaced(u)
             \/ MayFail /\ UNCHANGED db /\ Mark({{j.by, j.to}})
          /\ Finish(u)
          /\ UNCHANGED manager_strand
    /\ UNCHANGED <<session, server_strand_, history>>

DeclineFriend(u) ==
    /\ At(u, {"decline"}, "begin")
    /\ \/ db' = delete_friend_request(db, Head(uuid_strands_[u]))
       \/ MayFail /\ UNCHANGED db
    /\ Finish(u)
    /\ UNCHANGED <<session, server_strand_, manager_strand, history, ghost>>

\* The jobs that commit first and then tell the others.
Changes == {"block", "unblock", "remove", "ban"}
Commit(u) ==
    LET j == Head(uuid_strands_[u]) IN
    /\ At(u, Changes, "begin")
    /\ \/ /\ db' = CASE j.op = "block" -> block_user(db, j)
                     [] j.op = "unblock" -> unblock_user(db, j)
                     [] j.op = "remove" -> remove_friend(db, j)
                     [] j.op = "ban" -> ban_user(db, j)
          /\ GoOn(u, "committed")
          /\ MarkIfRaced(u)
       \/ MayFail /\ j.op # "ban" /\ Finish(u) /\ UNCHANGED <<db, ghost>>
    /\ UNCHANGED <<session, server_strand_, manager_strand, history>>

\* Slip: a ban goes to the UserManager directly.
PostAllDirectly(u) ==
    LET j == Head(uuid_strands_[u]) IN
    /\ At(u, Changes, "committed")
    /\ manager_strand' = Append(manager_strand, j)
    /\ Finish(u) /\ MarkIfRaced(u)
    /\ UNCHANGED <<session, db, history, server_strand_>>

\* on_block_user, on_unblock_user and on_unfriend_user post to the
\* UserManager's strand, ban_callback_ to the server's.
Post(u) ==
    LET j == Head(uuid_strands_[u]) IN
    /\ At(u, Changes, "committed")
    /\ IF j.op = "ban"
       THEN /\ server_strand_' = Append(server_strand_, j) /\ UNCHANGED manager_strand
       ELSE /\ manager_strand' = Append(manager_strand, j) /\ UNCHANGED server_strand_
    /\ Finish(u) /\ MarkIfRaced(u)
    /\ UNCHANGED <<session, db, history>>

\* The ban with the given number ends; a user has at most one here.
do_unban_user(u) ==
    /\ At(u, {"unban"}, "begin")
    /\ db' = [db EXCEPT !.bans = @ \ {u}]
    /\ Finish(u)
    /\ UNCHANGED <<session, server_strand_, manager_strand, history, ghost>>

\* Send the matches that are recorded by now.
do_fetch_new_matches(u) ==
    LET j == Head(uuid_strands_[u]) IN
    /\ At(u, {"history"}, "begin")
    /\ \/ history' = [history EXCEPT ![j.s] =
                        {m \in Matches : live_matches_[m] = "recorded"}]
       \/ MayFail /\ UNCHANGED history
    /\ Finish(u)
    /\ UNCHANGED <<session, db, server_strand_, manager_strand, ghost>>

-----------------------------------------------------------------------------
(* The server's strand: remove_session, on_auth and on_ban_user hand over  *)
(* to the UserManager.                                                     *)

RunServer ==
    /\ server_strand_ # <<>>
    /\ server_strand_' = Tail(server_strand_)
    /\ manager_strand' = Append(manager_strand, Head(server_strand_))
    /\ UNCHANGED <<session, bans_, pool, uuid_strands_, stage, db, manager, match_vars,
                   history, calls, ghost>>

-----------------------------------------------------------------------------
(* The UserManager.  Each handler maps w, the members it can change and    *)
(* the sessions, to what it makes of them.                                 *)

Known(w, u) == u \in DOMAIN w.users_
Without(f, x) == [y \in DOMAIN f \ {x} |-> f[y]]
Put(f, x, v) == [y \in DOMAIN f \cup {x} |-> IF y = x THEN v ELSE f[y]]

\* weak_ptr::expired
Expired(m) == m = Nobody \/ live_matches_[m] # "live"

\* Take the lists that were read, and close the session that is replaced.
on_login(w, h) ==
    LET old == IF Known(w, h.u) THEN w.users_[h.u] ELSE User(Nobody, Nobody, {}, {})
    IN  [users_ |-> Put(w.users_, h.u,
                        User(h.s, old.current_match, h.friends, h.blocks)),
         sid_to_uuid_ |-> Put(w.sid_to_uuid_, h.s, h.u),
         session |-> [close_session(w.session, old.current_session)
                        EXCEPT ![h.s].user_data_ = h.u]]

\* Slip: the user is dropped although a match goes on.
drop_always(user) == TRUE

\* The data of a user without a session is dropped unless a match goes on.
drop_user(user) == Expired(user.current_match)

\* Slip: a session that has been replaced takes its user along.
replaced_never(user, s) == FALSE

\* Another session has taken the place of s.
replaced(user, s) == user.current_session # s

disconnect(w, h) ==
    LET gone == [w EXCEPT !.session[h.s].state = "gone"]
        u == w.sid_to_uuid_[h.s]
        unmapped == [gone EXCEPT !.sid_to_uuid_ = Without(@, h.s)]
        user == w.users_[u]
    IN  IF h.s \notin DOMAIN w.sid_to_uuid_ THEN gone
        ELSE IF ~Known(w, u) \/ replaced(user, h.s) THEN unmapped
        ELSE IF drop_user(user) THEN [unmapped EXCEPT !.users_ = Without(@, u)]
        ELSE [unmapped EXCEPT !.users_[u].current_session = Nobody]

notify_match_start(w, h) ==
    IF Known(w, h.u) THEN [w EXCEPT !.users_[h.u].current_match = h.m] ELSE w

\* Slip: a user who left during the match stays.
notify_finished_keeps(w, h) ==
    LET s == w.users_[h.u].current_session
    IN  IF ~Known(w, h.u) THEN w
        ELSE IF s = Nobody \/ w.session[s].state # "open"
        THEN [w EXCEPT !.users_[h.u].current_match = Nobody]
        ELSE [w EXCEPT !.users_[h.u].current_match = Nobody,
                       !.session[s].has_new_matches_ = h.mode \/ @]

\* Drop a user who has left; the match that is reset need not be the one that ended.
notify_match_finished(w, h) ==
    LET s == w.users_[h.u].current_session
    IN  IF ~Known(w, h.u) THEN w
        ELSE IF s = Nobody \/ w.session[s].state # "open"
        THEN [w EXCEPT !.users_ = Without(@, h.u)]
        ELSE [w EXCEPT !.users_[h.u].current_match = Nobody,
                       !.session[s].has_new_matches_ = h.mode \/ @]

on_ban_user(w, h) ==
    IF ~Known(w, h.to) THEN w
    ELSE [w EXCEPT !.users_ = Without(@, h.to),
                   !.session = close_session(@, w.users_[h.to].current_session)]

\* Friendship ends on both sides, connected or not.
on_block_user(w, h) ==
    [w EXCEPT !.users_ = [u \in DOMAIN w.users_ |->
        CASE u = h.by -> [w.users_[u] EXCEPT !.friends = @ \ {h.to},
                                             !.blocked_users = @ \cup {h.to}]
          [] u = h.to -> [w.users_[u] EXCEPT !.friends = @ \ {h.by}]
          [] OTHER -> w.users_[u]]]

on_unblock_user(w, h) ==
    [w EXCEPT !.users_ = [u \in DOMAIN w.users_ |->
        IF u = h.by THEN [w.users_[u] EXCEPT !.blocked_users = @ \ {h.to}] ELSE w.users_[u]]]

\* The other side is brought up to date only if it is connected.
on_friend_user(w, h) ==
    [w EXCEPT !.users_ = [u \in DOMAIN w.users_ |->
        CASE u = h.by -> [w.users_[u] EXCEPT !.friends = @ \cup {h.to}]
          [] u = h.to /\ w.users_[u].current_session # Nobody ->
                [w.users_[u] EXCEPT !.friends = @ \cup {h.by}]
          [] OTHER -> w.users_[u]]]

\* Slip: only the side that asked is brought up to date.
on_unfriend_one(w, h) ==
    [w EXCEPT !.users_ = [u \in DOMAIN w.users_ |->
        IF u = h.by THEN [w.users_[u] EXCEPT !.friends = @ \ {h.to}] ELSE w.users_[u]]]

on_unfriend_user(w, h) ==
    [w EXCEPT !.users_ = [u \in DOMAIN w.users_ |->
        CASE u = h.by -> [w.users_[u] EXCEPT !.friends = @ \ {h.to}]
          [] u = h.to /\ w.users_[u].current_session # Nobody ->
                [w.users_[u] EXCEPT !.friends = @ \ {h.by}]
          [] OTHER -> w.users_[u]]]

Handle(w, h) ==
    CASE h.op = "login" -> on_login(w, h)
      [] h.op = "disconnect" -> disconnect(w, h)
      [] h.op = "start" -> notify_match_start(w, h)
      [] h.op = "finished" -> notify_match_finished(w, h)
      [] h.op = "ban" -> on_ban_user(w, h)
      [] h.op = "block" -> on_block_user(w, h)
      [] h.op = "unblock" -> on_unblock_user(w, h)
      [] h.op = "accept" -> on_friend_user(w, h)
      [] h.op = "remove" -> on_unfriend_user(w, h)

\* A login that comes after its session has gone, or makes a session another user's.
LateAfter(h) ==
    IF h.op # "login" THEN ghost.late
    ELSE LET before == {u \in Users : h.s \in DOMAIN sid_to_uuid_
                                      /\ sid_to_uuid_[h.s] = u /\ u # h.u}
         IN  (ghost.late \cup before \cup
                (IF session[h.s].state = "gone" THEN {h.u} ELSE {}))
             \ (IF session[h.s].state = "gone" THEN {} ELSE {h.u})

\* A user in a match whom the UserManager does not know, or no longer.
MissedAfter(h) ==
    ghost.missed \cup
      CASE h.op = "start" /\ h.u \notin DOMAIN users_ -> {<<h.u, h.m>>}
        [] h.op = "finished" /\ h.u \in DOMAIN users_ ->
             {<<h.u, users_[h.u].current_match>>} \ {<<h.u, h.m>>}
        [] h.op = "ban" /\ h.to \in DOMAIN users_ ->
             {<<h.to, users_[h.to].current_match>>}
        [] OTHER -> {}

RunManager ==
    /\ manager_strand # <<>>
    /\ LET h == Head(manager_strand)
           w == Handle([users_ |-> users_, sid_to_uuid_ |-> sid_to_uuid_,
                        session |-> session], h)
       IN  /\ users_' = w.users_ /\ sid_to_uuid_' = w.sid_to_uuid_
           /\ session' = w.session
           /\ ghost' = [ghost EXCEPT !.late = LateAfter(h), !.missed = MissedAfter(h)]
    /\ manager_strand' = Tail(manager_strand)
    /\ UNCHANGED <<bans_, server_strand_, pool, uuid_strands_, stage, db, match_vars,
                   history, calls>>

-----------------------------------------------------------------------------
(* The MatchMaker, reduced to what it tells the UserManager.  The order in *)
(* which players are told is that of an arbitrary sequence of the users.   *)

Match(op, u, m, mode) == [op |-> op, u |-> u, m |-> m, mode |-> mode]
Tell(op, m) ==
    LET order == SetToSeq(Users)
    IN  manager_strand' = manager_strand \o
            [i \in DOMAIN order |-> Match(op, order[i], m, TRUE)]

\* make_match_on_strand: everybody has queued, and is in no other match.
StartMatch(m) ==
    /\ live_matches_[m] = "none"
    /\ \A u \in Users :
          /\ \E s \in Sessions : session[s].user_data_ = u
                                 /\ session[s].state \in {"open", "closing", "closed"}
          /\ \A n \in Matches : live_matches_[n] = "live" => u \notin players[n]
    /\ Count
    /\ live_matches_' = [live_matches_ EXCEPT ![m] = "live"]
    /\ Tell("start", m)
    /\ UNCHANGED <<session, bans_, server_strand_, pool, uuid_strands_, stage, db,
                   manager, players, history, ghost>>

\* forfeit_impl: the user is free for another match; none is recorded yet.
ForfeitMatch(m, u) ==
    /\ live_matches_[m] = "live" /\ u \in players[m]
    /\ Count
    /\ players' = [players EXCEPT ![m] = @ \ {u}]
    /\ manager_strand' = Append(manager_strand, Match("finished", u, m, FALSE))
    /\ UNCHANGED <<session, bans_, server_strand_, pool, uuid_strands_, stage, db,
                   manager, live_matches_, history, ghost>>

\* The results callback, for all who played.
FinishMatch(m) ==
    /\ live_matches_[m] = "live"
    /\ Count
    /\ live_matches_' = [live_matches_ EXCEPT ![m] = "over"]
    /\ Tell("finished", m)
    /\ UNCHANGED <<session, bans_, server_strand_, pool, uuid_strands_, stage, db,
                   manager, players, history, ghost>>

\* The Database has written the result.
RecordMatch(m) ==
    /\ live_matches_[m] = "over"
    /\ live_matches_' = [live_matches_ EXCEPT ![m] = "recorded"]
    /\ UNCHANGED <<session, bans_, strands, db, manager, players, history, calls, ghost>>

-----------------------------------------------------------------------------
Next ==
    \/ \E s \in Sessions :
          \/ handle_accept(s) \/ LosePeer(s) \/ remove_session(s) \/ FetchMatchHistory(s)
          \/ \E u \in Users :
                \/ Login(s, u) \/ Register(s, u)
                \/ \E op \in ByName \cup ById : ChangeRelation(s, op, u)
    \/ \E op \in {"ban", "unban", "ban_ip"} : \E x \in Users \cup IPs : Console(op, x)
    \/ \E j \in pool : Lookup(j) \/ do_register(j) \/ do_ban_ip(j) \/ do_unban_ip(j)
                       \/ FailOnPool(j)
    \/ \E u \in Users :
          \/ AuthBanned(u) \/ AuthRefused(u) \/ AuthGood(u)
          \/ do_send_friend_request(u) \/ AcceptFriend(u) \/ DeclineFriend(u)
          \/ Commit(u) \/ Post(u) \/ do_unban_user(u) \/ do_fetch_new_matches(u)
    \/ RunServer \/ RunManager
    \/ \E m \in Matches :
          \/ StartMatch(m) \/ FinishMatch(m) \/ RecordMatch(m)
          \/ \E u \in Users : ForfeitMatch(m, u)

Spec == Init /\ [][Next]_vars

-----------------------------------------------------------------------------
(* Properties.                                                             *)

\* Nothing is under way: what holds now lasts until somebody acts.
AtRest ==
    /\ server_strand_ = <<>> /\ manager_strand = <<>> /\ pool = {}
    /\ \A u \in Users : uuid_strands_[u] = <<>>
    /\ \A s \in Sessions : session[s].state \notin {"closing", "closed"}

Online(u) ==
    /\ u \in DOMAIN users_ /\ users_[u].current_session # Nobody
    /\ session[users_[u].current_session].state = "open"

\* A banned user is out, however their logins and the ban were interleaved: the
\* UserManager does not know them and no open connection is theirs.  Logins and bans
\* of a user share a strand of the Database, and both go over the server's strand.
BannedAreOut ==
    AtRest => \A u \in db.bans :
        /\ u \notin DOMAIN users_
        /\ \A s \in Sessions : session[s].state = "open" => session[s].user_data_ # u

\* An open connection that is logged in as a user is the user's current session: a
\* later login has closed the earlier connection, and the removal of the earlier one
\* has not taken the later one along (on_login, disconnect).
SessionsAreKnown ==
    AtRest => \A s \in Sessions :
        session[s].state = "open" /\ session[s].user_data_ # Nobody
          => /\ session[s].user_data_ \in DOMAIN users_
             /\ users_[session[s].user_data_].current_session = s

\* The friends and blocks the UserManager filters messages with are those of the
\* tables, for both sides of each pair of users, unless two changes of the pair, or
\* a change and a login of one of the two, overlapped, or a statement failed.
CachesMatchTables ==
    AtRest => \A u, v \in Users : Online(u) /\ u # v /\ {u, v} \notin ghost.raced
        => /\ v \in users_[u].friends <=> {u, v} \in db.friends
           /\ v \in users_[u].blocked_users <=> <<u, v>> \in db.blocked

\* "If the user is still in a game, do not remove them from the user list. Otherwise,
\* drop this data": only users with a connection or a match are kept, unless the
\* login came after the connection had gone, or the connection was used twice.
DataIsDropped ==
    AtRest => \A u \in DOMAIN users_ :
        Online(u) \/ ~Expired(users_[u].current_match) \/ u \in ghost.late

\* A player who is connected, again or still, is in the match the UserManager has for
\* them, so that a login during a match is told of it, unless the start of the match
\* came when the user had gone, or the end of another match took it away.
PlayersRejoin ==
    AtRest => \A u \in Users, m \in Matches :
        Online(u) /\ live_matches_[m] = "live" /\ u \in players[m]
          => users_[u].current_match = m \/ <<u, m>> \in ghost.missed

\* "Check if the sender is blocked by the receiver": nobody receives a friend request
\* of somebody they have blocked.  (do_send_friend_request)
BlockedSendNoRequests ==
    [][\A r \in db'.requests \ db.requests : <<r[2], r[1]>> \notin db.blocked]_vars
=============================================================================
