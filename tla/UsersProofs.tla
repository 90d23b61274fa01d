----------------------------- MODULE UsersProofs -----------------------------
(***************************************************************************)
(* What holds of accounts and logins for any number of users, connections, *)
(* requests and matches: an open connection that is logged in is the       *)
(* user's current one, a banned user is out once everything has come to    *)
(* rest, data is kept only of users with a connection or a match, a player *)
(* who comes back is led to the match being played, and the friends and    *)
(* blocks in memory are those of the tables for two users of whom no two   *)
(* changes overlapped.  The last section is about the KeyedExecutor that   *)
(* runs the users' jobs.                                                   *)
(***************************************************************************)
EXTENDS Users, KeyedExecutor, FiniteSetTheorems, SequenceTheorems, WellFoundedInduction, TLAPS

-----------------------------------------------------------------------------
(* Sequences.                                                              *)

LEMMA Wider ==
    ASSUME NEW S, NEW T, S \subseteq T, NEW q \in Seq(S)
    PROVE  q \in Seq(T)
  <1>1. q \in [1 .. Len(q) -> T] /\ Len(q) \in Nat
    OBVIOUS
  <1> QED BY <1>1, SeqDef

LEMMA AfterAppend ==
    ASSUME NEW S, NEW q \in Seq(S), NEW x \in S
    PROVE  /\ Append(q, x) \in Seq(S)
           /\ Len(q) \in Nat /\ Len(Append(q, x)) = Len(q) + 1
           /\ Append(q, x)[Len(q) + 1] = x
           /\ \A i \in 1 .. Len(q) : Append(q, x)[i] = q[i]
           /\ q # <<>> => Head(Append(q, x)) = Head(q)
           /\ Append(q, x) # <<>>
  <1>1. /\ Append(q, x) \in Seq(S)
        /\ Len(q) \in Nat /\ Len(Append(q, x)) = Len(q) + 1
        /\ Append(q, x)[Len(q) + 1] = x
        /\ \A i \in 1 .. Len(q) : Append(q, x)[i] = q[i]
    BY AppendProperties
  <1>2. Append(q, x) # <<>>
    BY <1>1
  <1>3. q # <<>> => Head(Append(q, x)) = Head(q)
    <2> SUFFICES ASSUME q # <<>> PROVE Head(Append(q, x)) = Head(q)
      OBVIOUS
    <2> DEFINE r == Append(q, x)
    <2>1. Head(q) = q[1] /\ Len(q) \in Nat \ {0}
      BY EmptySeq, HeadTailProperties
    <2>2. r \in Seq(S) /\ r # <<>> /\ r[1] = q[1]
      BY <1>1, <1>2, <2>1
    <2> HIDE DEF r
    <2>3. Head(r) = r[1]
      BY <2>2, HeadTailProperties
    <2> QED BY <2>1, <2>2, <2>3 DEF r
  <1> QED BY <1>1, <1>2, <1>3

LEMMA AfterTail ==
    ASSUME NEW S, NEW q \in Seq(S), q # <<>>
    PROVE  /\ Tail(q) \in Seq(S) /\ Head(q) \in S /\ Head(q) = q[1]
           /\ Len(q) \in Nat \ {0} /\ Len(Tail(q)) = Len(q) - 1
           /\ \A i \in 1 .. Len(Tail(q)) : Tail(q)[i] = q[i + 1]
  BY EmptySeq, HeadTailProperties

-----------------------------------------------------------------------------
(* Types.                                                                  *)

Sess == [state : {"off", "open", "closing", "closed", "gone"},
         user_data_ : Users \cup {Nobody},
         called_register_ : BOOLEAN, has_new_matches_ : BOOLEAN]

\* The connections that have been accepted; only they ask for anything.
Came == {s \in Sessions : session[s].state # "off"}

IpJob == [op : {"ban_ip", "unban_ip"}, by : {Nobody}, to : IPs, s : {Nobody}]
BanJob(us) == [op : {"ban", "unban"}, by : {Nobody}, to : us, s : {Nobody}]
LoginJob(us, C) == [op : {"login"}, by : Users, to : us, s : C]
NameJob == [op : ByName \cup {"register"}, by : Users, to : Users, s : Sessions]
OtherJob == [op : ByName \cup ById \cup {"history"}, by : Users, to : Users, s : Sessions]

PoolJob(C) == IpJob \cup BanJob(Users) \cup LoginJob(Users, C) \cup NameJob

\* The jobs on the strand of user u: logins and bans are those of u.
StrandJob(u, C) == BanJob({u}) \cup LoginJob({u}, C) \cup OtherJob

LoginItem(C) == [op : {"login"}, u : Users, s : C,
                 friends : SUBSET Users, blocks : SUBSET Users]
GoneItem(C) == [op : {"disconnect"}, s : C]
MatchItem == [op : {"start", "finished"}, u : Users, m : Matches, mode : BOOLEAN]

BanItem == [op : {"ban"}, by : {Nobody}, to : Users, s : {Nobody}]
ListItem == [op : {"accept", "remove", "block", "unblock"}, by : Users, to : Users,
             s : Sessions]

ServerItem(C) == LoginItem(C) \cup GoneItem(C) \cup BanItem
ManagerItem(C) == ServerItem(C) \cup ListItem \cup MatchItem

UserRec == [current_session : Sessions \cup {Nobody}, current_match : Matches \cup {Nobody},
            friends : SUBSET Users, blocked_users : SUBSET Users]

IsUsers(f) == DOMAIN f \subseteq Users /\ f \in [DOMAIN f -> UserRec]
IsSids(f) == DOMAIN f \subseteq Sessions /\ f \in [DOMAIN f -> Users]

SessionTypes ==
    /\ session \in [Sessions -> Sess]
    /\ \A s \in Sessions : session[s].state = "off" => session[s].user_data_ = Nobody

QueueTypes ==
    /\ pool \subseteq PoolJob(Came)
    /\ uuid_strands_ = [u \in Users |-> uuid_strands_[u]]
    /\ \A u \in Users : uuid_strands_[u] \in Seq(StrandJob(u, Came))
    /\ server_strand_ \in Seq(ServerItem(Came))
    /\ manager_strand \in Seq(ManagerItem(Came))

ManagerTypes == IsUsers(users_) /\ IsSids(sid_to_uuid_)

OtherTypes ==
    /\ stage \in [Users -> {"begin", "tested", "found", "posted", "committed"}]
    /\ live_matches_ \in [Matches -> {"none", "live", "over", "recorded"}]
    /\ players \in [Matches -> SUBSET Users]
    /\ ghost = [raced |-> ghost.raced, late |-> ghost.late, missed |-> ghost.missed]

Typed == SessionTypes /\ db \in Tables /\ QueueTypes /\ ManagerTypes /\ OtherTypes

\* The job a step of strand u is about.
LEMMA HeadJob ==
    ASSUME Typed, NEW u \in Users, uuid_strands_[u] # <<>>
    PROVE  /\ Head(uuid_strands_[u]) \in StrandJob(u, Came)
           /\ Tail(uuid_strands_[u]) \in Seq(StrandJob(u, Came))
  BY AfterTail DEF Typed, QueueTypes

LEMMA JobFields ==
    ASSUME NEW u \in Users, NEW C \in SUBSET Sessions, NEW j \in StrandJob(u, C)
    PROVE  /\ j.op \in {"login", "ban", "unban", "history"} \cup ByName \cup ById
           /\ j.op \in {"login", "ban", "unban"} => j.to = u
           /\ j.op = "login" => j.s \in C
           /\ j.op \in ByName \cup ById \cup {"history"} =>
                    j.by \in Users /\ j.to \in Users /\ j.s \in Sessions
           /\ j.to \in Users
           /\ j.op = "ban" => j \in BanItem
           /\ j.op \in {"accept", "remove", "block", "unblock"} => j \in ListItem
  BY DEF StrandJob, BanJob, LoginJob, OtherJob, ByName, ById, BanItem, ListItem

-----------------------------------------------------------------------------
(* The handlers of the UserManager.                                        *)

World == [users_ |-> users_, sid_to_uuid_ |-> sid_to_uuid_, session |-> session]

ItemHead == Head(manager_strand)

LEMMA HeadItem ==
    ASSUME Typed, RunManager
    PROVE  /\ manager_strand # <<>>
           /\ ItemHead \in ManagerItem(Came)
           /\ manager_strand' = Tail(manager_strand)
           /\ Tail(manager_strand) \in Seq(ManagerItem(Came))
  <1>1. manager_strand # <<>> /\ manager_strand' = Tail(manager_strand)
    BY DEF RunManager
  <1> QED BY <1>1, AfterTail DEF Typed, QueueTypes, ItemHead

LEMMA ItemFields ==
    ASSUME NEW C \in SUBSET Sessions, NEW h \in ManagerItem(C)
    PROVE  /\ h.op \in {"login", "disconnect", "start", "finished", "ban", "block",
                        "unblock", "accept", "remove"}
           /\ h.op = "login" => /\ h.u \in Users /\ h.s \in C
                                /\ h.friends \subseteq Users /\ h.blocks \subseteq Users
           /\ h.op = "disconnect" => h.s \in C
           /\ h.op \in {"start", "finished"} =>
                    h.u \in Users /\ h.m \in Matches /\ h.mode \in BOOLEAN
           /\ h.op = "ban" => h.to \in Users
           /\ h.op \in {"block", "unblock", "accept", "remove"} =>
                    h.by \in Users /\ h.to \in Users
  BY DEF ManagerItem, ServerItem, LoginItem, GoneItem, BanItem, ListItem, MatchItem

LEMMA Handled ==
    ASSUME RunManager
    PROVE  LET w == Handle(World, ItemHead)
           IN  users_' = w.users_ /\ sid_to_uuid_' = w.sid_to_uuid_ /\ session' = w.session
  BY DEF RunManager, World, ItemHead

\* The members of a session that logins and removals are about.
SameSession(s) ==
    session'[s].state = session[s].state /\ session'[s].user_data_ = session[s].user_data_

SameConnections ==
    /\ sid_to_uuid_' = sid_to_uuid_
    /\ session' \in [Sessions -> Sess]
    /\ \A s \in Sessions : SameSession(s)

SamePlace(u) ==
    /\ users_'[u].current_session = users_[u].current_session
    /\ users_'[u].current_match = users_[u].current_match

LoginEffect(h) ==
    /\ IsUsers(users_') /\ IsSids(sid_to_uuid_') /\ session' \in [Sessions -> Sess]
    /\ DOMAIN users_' = DOMAIN users_ \cup {h.u}
    /\ users_'[h.u].current_session = h.s
    /\ users_'[h.u].current_match =
            IF h.u \in DOMAIN users_ THEN users_[h.u].current_match ELSE Nobody
    /\ \A u \in DOMAIN users_ : u # h.u => SamePlace(u)
    /\ DOMAIN sid_to_uuid_' = DOMAIN sid_to_uuid_ \cup {h.s}
    /\ sid_to_uuid_'[h.s] = h.u
    /\ \A s \in DOMAIN sid_to_uuid_ : s # h.s => sid_to_uuid_'[s] = sid_to_uuid_[s]
    /\ \A s \in Sessions :
        /\ session'[s].user_data_ = IF s = h.s THEN h.u ELSE session[s].user_data_
        /\ session'[s].state =
                IF /\ h.u \in DOMAIN users_ /\ s = users_[h.u].current_session
                   /\ session[s].state = "open"
                THEN "closing" ELSE session[s].state

LEMMA LoginRuns ==
    ASSUME Typed, RunManager, ItemHead.op = "login"
    PROVE  LoginEffect(ItemHead)
  <1> DEFINE h == ItemHead
             old == IF h.u \in DOMAIN users_ THEN users_[h.u] ELSE User(Nobody, Nobody, {}, {})
             new == User(h.s, old.current_match, h.friends, h.blocks)
             before == close_session(session, old.current_session)
  <1>1. /\ h.u \in Users /\ h.s \in Sessions /\ h.s \in Came
        /\ h.friends \subseteq Users /\ h.blocks \subseteq Users
    BY HeadItem, ItemFields DEF Came
  <1>2. /\ users_' = Put(users_, h.u, new)
        /\ sid_to_uuid_' = Put(sid_to_uuid_, h.s, h.u)
        /\ session' = [before EXCEPT ![h.s].user_data_ = h.u]
    <2>1. Handle(World, ItemHead) = on_login(World, ItemHead)
      BY DEF Handle
    <2> QED BY <2>1, Handled DEF on_login, Known, World
  <1>3. /\ IsUsers(users_) /\ IsSids(sid_to_uuid_) /\ session \in [Sessions -> Sess]
        /\ Nobody \notin Sessions
    BY UsersAssumption DEF Typed, ManagerTypes, SessionTypes
  <1>4. old \in UserRec /\ new \in UserRec /\ new.current_session = h.s
          /\ new.current_match = old.current_match
    BY <1>1, <1>3 DEF UserRec, User, IsUsers
  <1>5. /\ old.current_match =
              IF h.u \in DOMAIN users_ THEN users_[h.u].current_match ELSE Nobody
        /\ old.current_session =
              IF h.u \in DOMAIN users_ THEN users_[h.u].current_session ELSE Nobody
    BY DEF User
  <1> HIDE DEF h, old, new
  <1>6. /\ IsUsers(users_') /\ DOMAIN users_' = DOMAIN users_ \cup {h.u}
        /\ users_'[h.u] = new
        /\ \A u \in DOMAIN users_ : u # h.u => users_'[u] = users_[u]
    BY <1>1, <1>2, <1>3, <1>4 DEF Put, IsUsers
  <1>7. /\ IsSids(sid_to_uuid_')
        /\ DOMAIN sid_to_uuid_' = DOMAIN sid_to_uuid_ \cup {h.s}
        /\ sid_to_uuid_'[h.s] = h.u
        /\ \A s \in DOMAIN sid_to_uuid_ : s # h.s => sid_to_uuid_'[s] = sid_to_uuid_[s]
    BY <1>1, <1>2, <1>3 DEF Put, IsSids
  <1>8. /\ before \in [Sessions -> Sess]
        /\ \A s \in Sessions :
            /\ before[s].user_data_ = session[s].user_data_
            /\ before[s].state =
                    IF s = old.current_session /\ session[s].state = "open"
                    THEN "closing" ELSE session[s].state
    <2>1. old.current_session \in Sessions \cup {Nobody}
      BY <1>4 DEF UserRec
    <2> QED BY <1>3, <2>1 DEF close_session, Sess
  <1> HIDE DEF before
  <1>9. /\ session' \in [Sessions -> Sess]
        /\ \A s \in Sessions :
            /\ session'[s].user_data_ = IF s = h.s THEN h.u ELSE session[s].user_data_
            /\ session'[s].state = before[s].state
    BY <1>1, <1>2, <1>8 DEF Sess
  <1>10. \A s \in Sessions : session'[s].state =
                IF /\ h.u \in DOMAIN users_ /\ s = users_[h.u].current_session
                   /\ session[s].state = "open"
                THEN "closing" ELSE session[s].state
    BY <1>3, <1>5, <1>8, <1>9
  <1>11. LoginEffect(h)
    BY <1>4, <1>5, <1>6, <1>7, <1>9, <1>10 DEF LoginEffect, SamePlace
  <1> QED BY <1>11 DEF h

\* The removal takes the user's entry, or the session out of it, if it is the user's
\* current one.
Leaves(u, h) ==
    /\ h.s \in DOMAIN sid_to_uuid_ /\ sid_to_uuid_[h.s] = u
    /\ users_[u].current_session = h.s

GoneEffect(h) ==
    /\ IsUsers(users_') /\ IsSids(sid_to_uuid_') /\ session' \in [Sessions -> Sess]
    /\ DOMAIN users_' \subseteq DOMAIN users_
    /\ \A u \in DOMAIN users_ :
        /\ ~Leaves(u, h) => u \in DOMAIN users_' /\ SamePlace(u)
        /\ (Leaves(u, h) /\ Expired(users_[u].current_match)) => u \notin DOMAIN users_'
        /\ (Leaves(u, h) /\ ~Expired(users_[u].current_match)) =>
                /\ u \in DOMAIN users_' /\ users_'[u].current_session = Nobody
                /\ users_'[u].current_match = users_[u].current_match
    /\ \A s \in DOMAIN sid_to_uuid_ : s # h.s =>
            s \in DOMAIN sid_to_uuid_' /\ sid_to_uuid_'[s] = sid_to_uuid_[s]
    /\ \A s \in Sessions :
        /\ session'[s].user_data_ = session[s].user_data_
        /\ session'[s].state = IF s = h.s THEN "gone" ELSE session[s].state

LEMMA GoneRuns ==
    ASSUME Typed, RunManager, ItemHead.op = "disconnect"
    PROVE  GoneEffect(ItemHead)
  <1> DEFINE h == ItemHead
             u == sid_to_uuid_[h.s]
             gone == [World EXCEPT !.session[h.s].state = "gone"]
             unmapped == [gone EXCEPT !.sid_to_uuid_ = Without(@, h.s)]
             w == disconnect(World, h)
  <1>1. h.s \in Sessions
    BY HeadItem, ItemFields DEF Came
  <1>2. users_' = w.users_ /\ sid_to_uuid_' = w.sid_to_uuid_ /\ session' = w.session
    <2>1. Handle(World, ItemHead) = disconnect(World, ItemHead)
      BY DEF Handle
    <2> QED BY <2>1, Handled
  <1>3. w = IF h.s \notin DOMAIN sid_to_uuid_ THEN gone
            ELSE IF u \notin DOMAIN users_ \/ users_[u].current_session # h.s THEN unmapped
            ELSE IF Expired(users_[u].current_match)
            THEN [unmapped EXCEPT !.users_ = Without(@, u)]
            ELSE [unmapped EXCEPT !.users_[u].current_session = Nobody]
    BY DEF disconnect, World, Known, replaced, drop_user
  <1>4. /\ IsUsers(users_) /\ IsSids(sid_to_uuid_) /\ session \in [Sessions -> Sess]
    BY DEF Typed, ManagerTypes, SessionTypes
  <1> DEFINE closed == [session EXCEPT ![h.s].state = "gone"]
             rest == Without(sid_to_uuid_, h.s)
  <1>5. /\ closed \in [Sessions -> Sess]
        /\ \A s \in Sessions :
            /\ closed[s].user_data_ = session[s].user_data_
            /\ closed[s].state = IF s = h.s THEN "gone" ELSE session[s].state
    BY <1>1, <1>4 DEF Sess
  <1>6. /\ IsSids(rest)
        /\ \A s \in DOMAIN sid_to_uuid_ : s # h.s =>
              s \in DOMAIN rest /\ rest[s] = sid_to_uuid_[s]
    BY <1>4 DEF Without, IsSids
  <1>7. /\ gone = [users_ |-> users_, sid_to_uuid_ |-> sid_to_uuid_, session |-> closed]
        /\ unmapped = [users_ |-> users_, sid_to_uuid_ |-> rest, session |-> closed]
    <2>1. gone = [users_ |-> users_, sid_to_uuid_ |-> sid_to_uuid_, session |-> closed]
      BY DEF World
    <2> HIDE DEF gone, closed
    <2>2. gone.sid_to_uuid_ = sid_to_uuid_
      BY <2>1
    <2>3. unmapped = [gone EXCEPT !.sid_to_uuid_ = rest]
      BY <2>2
    <2> HIDE DEF unmapped, rest
    <2>4. unmapped = [users_ |-> users_, sid_to_uuid_ |-> rest, session |-> closed]
      BY <2>1, <2>3
    <2> QED BY <2>1, <2>4
  <1> HIDE DEF closed, rest, h, w, gone, unmapped
  <1>8. CASE h.s \notin DOMAIN sid_to_uuid_
    <2>1. users_' = users_ /\ sid_to_uuid_' = sid_to_uuid_ /\ session' = closed
      BY <1>2, <1>3, <1>7, <1>8
    <2>2. \A v : ~Leaves(v, h)
      BY <1>8 DEF Leaves
    <2>3. GoneEffect(h)
      BY <1>4, <1>5, <2>1, <2>2 DEF GoneEffect, SamePlace
    <2> QED BY <2>3 DEF h
  <1>9. CASE h.s \in DOMAIN sid_to_uuid_
    <2>1. sid_to_uuid_' = rest /\ session' = closed
      BY <1>2, <1>3, <1>7, <1>9
    <2>2. \A v : Leaves(v, h) <=> (v = u /\ users_[v].current_session = h.s)
      BY <1>9 DEF Leaves
    <2> HIDE DEF u
    <2>3. CASE u \notin DOMAIN users_ \/ users_[u].current_session # h.s
      <3>1. users_' = users_
        BY <1>2, <1>3, <1>7, <1>9, <2>3 DEF u
      <3>2. \A v \in DOMAIN users_ : ~Leaves(v, h)
        BY <2>2, <2>3
      <3>3. GoneEffect(h)
        BY <1>4, <1>5, <1>6, <2>1, <3>1, <3>2 DEF GoneEffect, SamePlace
      <3> QED BY <3>3 DEF h
    <2>4. CASE u \in DOMAIN users_ /\ users_[u].current_session = h.s
                /\ Expired(users_[u].current_match)
      <3>1. users_' = Without(users_, u)
        BY <1>2, <1>3, <1>7, <1>9, <2>4 DEF u
      <3>2. /\ IsUsers(users_') /\ DOMAIN users_' = DOMAIN users_ \ {u}
            /\ \A v \in DOMAIN users_ : v # u => users_'[v] = users_[v]
        BY <1>4, <3>1 DEF Without, IsUsers
      <3>3. GoneEffect(h)
        BY <1>4, <1>5, <1>6, <2>1, <2>2, <2>4, <3>2 DEF GoneEffect, SamePlace
      <3> QED BY <3>3 DEF h
    <2>5. CASE u \in DOMAIN users_ /\ users_[u].current_session = h.s
                /\ ~Expired(users_[u].current_match)
      <3>1. users_' = [users_ EXCEPT ![u].current_session = Nobody]
        BY <1>2, <1>3, <1>7, <1>9, <2>5 DEF u
      <3>2. /\ IsUsers(users_') /\ DOMAIN users_' = DOMAIN users_
            /\ \A v \in DOMAIN users_ : v # u => users_'[v] = users_[v]
            /\ users_'[u].current_session = Nobody
            /\ users_'[u].current_match = users_[u].current_match
        BY <1>4, <2>5, <3>1 DEF IsUsers, UserRec
      <3>3. GoneEffect(h)
        BY <1>4, <1>5, <1>6, <2>1, <2>2, <2>5, <3>2 DEF GoneEffect, SamePlace
      <3> QED BY <3>3 DEF h
    <2> QED BY <2>3, <2>4, <2>5
  <1> QED BY <1>8, <1>9

StartEffect(h) ==
    /\ IsUsers(users_') /\ SameConnections
    /\ DOMAIN users_' = DOMAIN users_
    /\ \A u \in DOMAIN users_ :
        /\ users_'[u].current_session = users_[u].current_session
        /\ users_'[u].current_match = IF u = h.u THEN h.m ELSE users_[u].current_match

LEMMA StartRuns ==
    ASSUME Typed, RunManager, ItemHead.op = "start"
    PROVE  StartEffect(ItemHead)
  <1> DEFINE h == ItemHead
  <1>1. h.u \in Users /\ h.m \in Matches
    BY HeadItem, ItemFields DEF Came
  <1>2. Handle(World, h) = notify_match_start(World, h)
    BY DEF Handle
  <1>3. /\ IsUsers(users_) /\ session \in [Sessions -> Sess]
    BY DEF Typed, ManagerTypes, SessionTypes
  <1>4. /\ users_' = IF h.u \in DOMAIN users_
                     THEN [users_ EXCEPT ![h.u].current_match = h.m] ELSE users_
        /\ sid_to_uuid_' = sid_to_uuid_ /\ session' = session
    BY <1>2, Handled DEF notify_match_start, World, Known
  <1> HIDE DEF h
  <1>5. /\ IsUsers(users_') /\ DOMAIN users_' = DOMAIN users_
        /\ \A u \in DOMAIN users_ :
            /\ users_'[u].current_session = users_[u].current_session
            /\ users_'[u].current_match = IF u = h.u THEN h.m ELSE users_[u].current_match
    BY <1>1, <1>3, <1>4 DEF IsUsers, UserRec
  <1>6. SameConnections
    BY <1>3, <1>4 DEF SameConnections, SameSession
  <1>7. StartEffect(h)
    BY <1>5, <1>6 DEF StartEffect
  <1> QED BY <1>7 DEF h

\* The user has no connection, or one that is closing.
Away(u) ==
    LET s == users_[u].current_session IN s = Nobody \/ session[s].state # "open"

FinishEffect(h) ==
    /\ IsUsers(users_') /\ SameConnections
    /\ DOMAIN users_' \subseteq DOMAIN users_
    /\ \A u \in DOMAIN users_ :
        /\ u # h.u => u \in DOMAIN users_' /\ SamePlace(u)
        /\ (u = h.u /\ Away(u)) => u \notin DOMAIN users_'
        /\ (u = h.u /\ ~Away(u)) =>
                /\ u \in DOMAIN users_' /\ users_'[u].current_match = Nobody
                /\ users_'[u].current_session = users_[u].current_session

LEMMA FinishRuns ==
    ASSUME Typed, RunManager, ItemHead.op = "finished"
    PROVE  FinishEffect(ItemHead)
  <1> DEFINE h == ItemHead
             s == users_[h.u].current_session
             w == notify_match_finished(World, h)
  <1>1. h.u \in Users /\ h.mode \in BOOLEAN
    BY HeadItem, ItemFields DEF Came
  <1>2. users_' = w.users_ /\ sid_to_uuid_' = w.sid_to_uuid_ /\ session' = w.session
    <2>1. Handle(World, ItemHead) = notify_match_finished(World, ItemHead)
      BY DEF Handle
    <2> QED BY <2>1, Handled
  <1>3. /\ IsUsers(users_) /\ session \in [Sessions -> Sess]
    BY DEF Typed, ManagerTypes, SessionTypes
  <1>4. w = IF h.u \notin DOMAIN users_ THEN World
            ELSE IF s = Nobody \/ session[s].state # "open"
            THEN [World EXCEPT !.users_ = Without(@, h.u)]
            ELSE [World EXCEPT !.users_[h.u].current_match = Nobody,
                               !.session[s].has_new_matches_ = h.mode \/ @]
    BY DEF notify_match_finished, World, Known
  <1> HIDE DEF h, w
  <1>5. CASE h.u \notin DOMAIN users_
    <2>1. users_' = users_ /\ sid_to_uuid_' = sid_to_uuid_ /\ session' = session
      BY <1>2, <1>4, <1>5 DEF World
    <2>2. FinishEffect(h)
      BY <1>3, <1>5, <2>1 DEF FinishEffect, SameConnections, SameSession, SamePlace
    <2> QED BY <2>2 DEF h
  <1>6. CASE h.u \in DOMAIN users_ /\ (s = Nobody \/ session[s].state # "open")
    <2>1. users_' = Without(users_, h.u) /\ sid_to_uuid_' = sid_to_uuid_ /\ session' = session
      BY <1>2, <1>4, <1>6 DEF World
    <2>2. /\ IsUsers(users_') /\ DOMAIN users_' = DOMAIN users_ \ {h.u}
          /\ \A v \in DOMAIN users_ : v # h.u => users_'[v] = users_[v]
      BY <1>3, <2>1 DEF Without, IsUsers
    <2>3. SameConnections
      BY <1>3, <2>1 DEF SameConnections, SameSession
    <2>4. Away(h.u)
      BY <1>6 DEF Away
    <2>5. FinishEffect(h)
      BY <2>2, <2>3, <2>4 DEF FinishEffect, SamePlace
    <2> QED BY <2>5 DEF h
  <1>7. CASE h.u \in DOMAIN users_ /\ s # Nobody /\ session[s].state = "open"
    <2>1. /\ users_' = [users_ EXCEPT ![h.u].current_match = Nobody]
          /\ sid_to_uuid_' = sid_to_uuid_
          /\ session' = [session EXCEPT ![s].has_new_matches_ = h.mode \/ @]
      BY <1>2, <1>4, <1>7 DEF World
    <2>2. s \in Sessions
      BY <1>3, <1>7 DEF IsUsers, UserRec
    <2>3. ~Away(h.u)
      BY <1>7 DEF Away
    <2> HIDE DEF s
    <2>4. /\ IsUsers(users_') /\ DOMAIN users_' = DOMAIN users_
          /\ \A v \in DOMAIN users_ : v # h.u => users_'[v] = users_[v]
          /\ users_'[h.u].current_match = Nobody
          /\ users_'[h.u].current_session = users_[h.u].current_session
      BY <1>3, <1>7, <2>1 DEF IsUsers, UserRec
    <2>5. SameConnections
      <3>1. (h.mode \/ session[s].has_new_matches_) \in BOOLEAN
        BY <1>1
      <3>2. session' \in [Sessions -> Sess] /\ \A v \in Sessions : SameSession(v)
        BY <1>3, <2>1, <2>2, <3>1 DEF Sess, SameSession
      <3> QED BY <2>1, <3>2 DEF SameConnections
    <2>6. FinishEffect(h)
      BY <2>3, <2>4, <2>5 DEF FinishEffect, SamePlace
    <2> QED BY <2>6 DEF h
  <1> QED BY <1>5, <1>6, <1>7

BanEffect(h) ==
    /\ IsUsers(users_') /\ sid_to_uuid_' = sid_to_uuid_ /\ session' \in [Sessions -> Sess]
    /\ DOMAIN users_' = DOMAIN users_ \ {h.to}
    /\ \A u \in DOMAIN users_' : SamePlace(u)
    /\ \A s \in Sessions :
        /\ session'[s].user_data_ = session[s].user_data_
        /\ session'[s].state =
                IF /\ h.to \in DOMAIN users_ /\ s = users_[h.to].current_session
                   /\ session[s].state = "open"
                THEN "closing" ELSE session[s].state

LEMMA BanRuns ==
    ASSUME Typed, RunManager, ItemHead.op = "ban"
    PROVE  BanEffect(ItemHead)
  <1> DEFINE h == ItemHead
             s == users_[h.to].current_session
             w == on_ban_user(World, h)
  <1>1. h.to \in Users
    BY HeadItem, ItemFields DEF Came
  <1>2. users_' = w.users_ /\ sid_to_uuid_' = w.sid_to_uuid_ /\ session' = w.session
    <2>1. Handle(World, ItemHead) = on_ban_user(World, ItemHead)
      BY DEF Handle
    <2> QED BY <2>1, Handled
  <1>3. /\ IsUsers(users_) /\ session \in [Sessions -> Sess] /\ Nobody \notin Sessions
    BY UsersAssumption DEF Typed, ManagerTypes, SessionTypes
  <1>4. w = IF h.to \notin DOMAIN users_ THEN World
            ELSE [World EXCEPT !.users_ = Without(@, h.to),
                               !.session = close_session(@, s)]
    BY DEF on_ban_user, World, Known
  <1> HIDE DEF h, w
  <1>5. CASE h.to \notin DOMAIN users_
    <2>1. users_' = users_ /\ sid_to_uuid_' = sid_to_uuid_ /\ session' = session
      BY <1>2, <1>4, <1>5 DEF World
    <2>2. BanEffect(h)
      BY <1>3, <1>5, <2>1 DEF BanEffect, SamePlace
    <2> QED BY <2>2 DEF h
  <1>6. CASE h.to \in DOMAIN users_
    <2>1. /\ users_' = Without(users_, h.to) /\ sid_to_uuid_' = sid_to_uuid_
          /\ session' = close_session(session, s)
      BY <1>2, <1>4, <1>6 DEF World
    <2>2. /\ IsUsers(users_') /\ DOMAIN users_' = DOMAIN users_ \ {h.to}
          /\ \A v \in DOMAIN users_' : users_'[v] = users_[v]
      BY <1>3, <2>1 DEF Without, IsUsers
    <2>3. s \in Sessions \cup {Nobody}
      BY <1>3, <1>6 DEF IsUsers, UserRec
    <2>4. s = users_[h.to].current_session
      OBVIOUS
    <2> HIDE DEF s
    <2>5. /\ session' \in [Sessions -> Sess]
          /\ \A v \in Sessions :
              /\ session'[v].user_data_ = session[v].user_data_
              /\ session'[v].state = IF v = s /\ session[v].state = "open"
                                     THEN "closing" ELSE session[v].state
      BY <1>3, <2>1, <2>3 DEF close_session, Sess
    <2>6. BanEffect(h)
      BY <1>6, <2>1, <2>2, <2>4, <2>5 DEF BanEffect, SamePlace
    <2> QED BY <2>6 DEF h
  <1> QED BY <1>5, <1>6

ListEffect ==
    /\ IsUsers(users_') /\ SameConnections
    /\ DOMAIN users_' = DOMAIN users_
    /\ \A u \in DOMAIN users_ : SamePlace(u)

\* A user whose lists alone have changed.
Relisted(a, b) ==
    /\ b \in UserRec
    /\ b.current_session = a.current_session /\ b.current_match = a.current_match

LEMMA ListsRun ==
    ASSUME Typed, RunManager, ItemHead.op \in {"block", "unblock", "accept", "remove"}
    PROVE  ListEffect
  <1> DEFINE h == ItemHead
  <1>1. h.by \in Users /\ h.to \in Users
    BY HeadItem, ItemFields DEF Came
  <1>2. IsUsers(users_) /\ session \in [Sessions -> Sess]
    BY DEF Typed, ManagerTypes, SessionTypes
  <1>3. \A a \in UserRec : \A v \in Users :
            /\ Relisted(a, a)
            /\ Relisted(a, [a EXCEPT !.friends = @ \ {v}])
            /\ Relisted(a, [a EXCEPT !.friends = @ \cup {v}])
            /\ Relisted(a, [a EXCEPT !.blocked_users = @ \ {v}])
            /\ Relisted(a, [a EXCEPT !.friends = @ \ {v}, !.blocked_users = @ \cup {v}])
    BY DEF UserRec, Relisted
  <1>4. \A u \in DOMAIN users_ : users_[u] \in UserRec
    BY <1>2 DEF IsUsers
  <1>5. ASSUME NEW f, users_' = [u \in DOMAIN users_ |-> f[u]],
               \A u \in DOMAIN users_ : Relisted(users_[u], f[u]),
               sid_to_uuid_' = sid_to_uuid_, session' = session
        PROVE  ListEffect
    <2>1. DOMAIN users_' = DOMAIN users_ /\ \A u \in DOMAIN users_ : users_'[u] = f[u]
      BY <1>5
    <2>2. IsUsers(users_')
      BY <1>2, <1>5 DEF IsUsers, Relisted
    <2>3. SameConnections
      BY <1>2, <1>5 DEF SameConnections, SameSession
    <2> QED BY <1>5, <2>1, <2>2, <2>3 DEF ListEffect, Relisted, SamePlace
  <1>6. CASE h.op = "block"
    <2> DEFINE f == [u \in DOMAIN users_ |->
                CASE u = h.by -> [users_[u] EXCEPT !.friends = @ \ {h.to},
                                                   !.blocked_users = @ \cup {h.to}]
                  [] u = h.to -> [users_[u] EXCEPT !.friends = @ \ {h.by}]
                  [] OTHER -> users_[u]]
    <2>1. Handle(World, h) = on_block_user(World, h)
      BY <1>6 DEF Handle
    <2>2. users_' = f /\ sid_to_uuid_' = sid_to_uuid_ /\ session' = session
      <3>1. World.users_ = users_
        BY DEF World
      <3>2. on_block_user(World, h) = [World EXCEPT !.users_ = f]
        BY <3>1 DEF on_block_user
      <3> HIDE DEF f
      <3> QED BY <2>1, <3>2, Handled DEF World
    <2>3. \A u \in DOMAIN users_ : Relisted(users_[u], f[u])
      <3> HIDE DEF h
      <3> QED BY <1>1, <1>3, <1>4
    <2>4. f = [u \in DOMAIN users_ |-> f[u]]
      OBVIOUS
    <2> HIDE DEF f
    <2> QED BY <1>5, <2>2, <2>3, <2>4
  <1>7. CASE h.op = "unblock"
    <2> DEFINE f == [u \in DOMAIN users_ |->
                IF u = h.by THEN [users_[u] EXCEPT !.blocked_users = @ \ {h.to}]
                ELSE users_[u]]
    <2>1. Handle(World, h) = on_unblock_user(World, h)
      BY <1>7 DEF Handle
    <2>2. users_' = f /\ sid_to_uuid_' = sid_to_uuid_ /\ session' = session
      BY <2>1, Handled DEF on_unblock_user, World
    <2>3. \A u \in DOMAIN users_ : Relisted(users_[u], f[u])
      <3> HIDE DEF h
      <3> QED BY <1>1, <1>3, <1>4
    <2>4. f = [u \in DOMAIN users_ |-> f[u]]
      OBVIOUS
    <2> HIDE DEF f
    <2> QED BY <1>5, <2>2, <2>3, <2>4
  <1>8. CASE h.op = "accept"
    <2> DEFINE f == [u \in DOMAIN users_ |->
                CASE u = h.by -> [users_[u] EXCEPT !.friends = @ \cup {h.to}]
                  [] u = h.to /\ users_[u].current_session # Nobody ->
                        [users_[u] EXCEPT !.friends = @ \cup {h.by}]
                  [] OTHER -> users_[u]]
    <2>1. Handle(World, h) = on_friend_user(World, h)
      BY <1>8 DEF Handle
    <2>2. users_' = f /\ sid_to_uuid_' = sid_to_uuid_ /\ session' = session
      BY <2>1, Handled DEF on_friend_user, World
    <2>3. \A u \in DOMAIN users_ : Relisted(users_[u], f[u])
      <3> HIDE DEF h
      <3> QED BY <1>1, <1>3, <1>4
    <2>4. f = [u \in DOMAIN users_ |-> f[u]]
      OBVIOUS
    <2> HIDE DEF f
    <2> QED BY <1>5, <2>2, <2>3, <2>4
  <1>9. CASE h.op = "remove"
    <2> DEFINE f == [u \in DOMAIN users_ |->
                CASE u = h.by -> [users_[u] EXCEPT !.friends = @ \ {h.to}]
                  [] u = h.to /\ users_[u].current_session # Nobody ->
                        [users_[u] EXCEPT !.friends = @ \ {h.by}]
                  [] OTHER -> users_[u]]
    <2>1. Handle(World, h) = on_unfriend_user(World, h)
      BY <1>9 DEF Handle
    <2>2. users_' = f /\ sid_to_uuid_' = sid_to_uuid_ /\ session' = session
      BY <2>1, Handled DEF on_unfriend_user, World
    <2>3. \A u \in DOMAIN users_ : Relisted(users_[u], f[u])
      <3> HIDE DEF h
      <3> QED BY <1>1, <1>3, <1>4
    <2>4. f = [u \in DOMAIN users_ |-> f[u]]
      OBVIOUS
    <2> HIDE DEF f
    <2> QED BY <1>5, <2>2, <2>3, <2>4
  <1> QED BY <1>6, <1>7, <1>8, <1>9

-----------------------------------------------------------------------------
(* The other steps.                                                        *)

\* How far a connection gets without the UserManager.
Moves(a, b) == \/ a = b
               \/ a = "off" /\ b \in {"open", "gone"}
               \/ a = "open" /\ b = "closing"
               \/ a = "closing" /\ b = "closed"

Beside ==
    /\ users_' = users_ /\ sid_to_uuid_' = sid_to_uuid_
    /\ session' \in [Sessions -> Sess]
    /\ \A s \in Sessions : /\ session'[s].user_data_ = session[s].user_data_
                           /\ Moves(session[s].state, session'[s].state)

LEMMA CloseMoves ==
    ASSUME session \in [Sessions -> Sess], NEW s \in Sessions,
           session' = close_session(session, s)
    PROVE  /\ session' \in [Sessions -> Sess]
           /\ \A r \in Sessions : /\ session'[r].user_data_ = session[r].user_data_
                                  /\ Moves(session[r].state, session'[r].state)
  BY UsersAssumption DEF close_session, Sess, Moves

LEMMA BesideSteps ==
    ASSUME Typed, [Next]_vars
    PROVE  RunManager \/ Beside
  <1>a. session \in [Sessions -> Sess]
    BY DEF Typed, SessionTypes
  <1>b. ASSUME users_' = users_, sid_to_uuid_' = sid_to_uuid_, session' = session
        PROVE  Beside
    BY <1>a, <1>b DEF Beside, Moves
  <1>1. ASSUME NEW s \in Sessions, handle_accept(s) PROVE Beside
    <2>1. /\ session[s].state = "off" /\ UNCHANGED manager
          /\ session' = [session EXCEPT ![s].state =
                     IF bans_[ip[s]] = "active" THEN "gone" ELSE "open"]
      BY <1>1 DEF handle_accept
    <2> QED BY <1>a, <2>1 DEF Beside, Moves, Sess, manager
  <1>2. ASSUME NEW s \in Sessions, LosePeer(s) PROVE Beside
    <2>1. session' = close_session(session, s) /\ UNCHANGED manager
      BY <1>2 DEF LosePeer
    <2> QED BY <1>a, <2>1, CloseMoves DEF Beside, manager
  <1>3. ASSUME NEW s \in Sessions, remove_session(s) PROVE Beside
    <2>1. /\ session[s].state = "closing" /\ UNCHANGED manager
          /\ session' = [session EXCEPT ![s].state = "closed"]
      BY <1>3 DEF remove_session
    <2> QED BY <1>a, <2>1 DEF Beside, Moves, Sess, manager
  <1>4. ASSUME NEW s \in Sessions, FetchMatchHistory(s) PROVE Beside
    <2>1. /\ session' = [session EXCEPT ![s].has_new_matches_ = FALSE]
          /\ UNCHANGED manager
      BY <1>4 DEF FetchMatchHistory
    <2> QED BY <1>a, <2>1 DEF Beside, Moves, Sess, manager
  <1>5. ASSUME NEW s \in Sessions, NEW u \in Users,
               \/ Login(s, u) \/ Register(s, u)
               \/ \E op \in ByName \cup ById : ChangeRelation(s, op, u)
        PROVE  Beside
    BY <1>b, <1>5 DEF Login, Register, ChangeRelation, manager
  <1>6. ASSUME NEW op, NEW x, Console(op, x) PROVE Beside
    BY <1>b, <1>6 DEF Console, manager
  <1>7. ASSUME NEW j \in pool, do_register(j) PROVE Beside
    <2>1. /\ UNCHANGED manager
          /\ \/ session' = session
             \/ session' = [session EXCEPT ![j.s].called_register_ = TRUE]
      BY <1>7 DEF do_register, OffPool
    <2>2. CASE session' = session
      BY <1>b, <2>1, <2>2 DEF manager
    <2>3. CASE session' = [session EXCEPT ![j.s].called_register_ = TRUE]
      BY <1>a, <2>1, <2>3 DEF Beside, Moves, Sess, manager
    <2> QED BY <2>1, <2>2, <2>3
  <1>8. ASSUME NEW j \in pool,
               Lookup(j) \/ do_ban_ip(j) \/ do_unban_ip(j) \/ FailOnPool(j)
        PROVE  Beside
    BY <1>b, <1>8 DEF Lookup, do_ban_ip, do_unban_ip, FailOnPool, OffPool, manager
  <1>9. ASSUME NEW u \in Users, AuthBanned(u) PROVE Beside
    <2> DEFINE j == Head(uuid_strands_[u])
    <2>1. /\ session' = close_session(session, j.s) /\ UNCHANGED manager
          /\ uuid_strands_[u] # <<>> /\ j.op = "login"
      BY <1>9 DEF AuthBanned, At
    <2>2. j \in StrandJob(u, Came)
      BY <2>1, HeadJob
    <2>3. Came \in SUBSET Sessions
      BY DEF Came
    <2> HIDE DEF j
    <2>4. j.s \in Came
      BY <2>1, <2>2, <2>3, JobFields
    <2> QED BY <1>a, <2>1, <2>3, <2>4, CloseMoves DEF Beside, manager
  <1>10. ASSUME NEW u \in Users,
                \/ AuthRefused(u) \/ AuthGood(u)
                \/ do_send_friend_request(u) \/ AcceptFriend(u) \/ DeclineFriend(u)
                \/ Commit(u) \/ Post(u) \/ do_unban_user(u) \/ do_fetch_new_matches(u)
         PROVE  Beside
    <2>1. UNCHANGED <<session, manager>>
      BY <1>10 DEF AuthRefused, AuthGood, do_send_friend_request, AcceptFriend,
                   DeclineFriend, Commit, Post, do_unban_user, do_fetch_new_matches, At
    <2> QED BY <1>b, <2>1 DEF manager
  <1>11. ASSUME NEW m \in Matches,
                \/ StartMatch(m) \/ FinishMatch(m) \/ RecordMatch(m)
                \/ \E u \in Users : ForfeitMatch(m, u)
         PROVE  Beside
    BY <1>b, <1>11 DEF StartMatch, FinishMatch, RecordMatch, ForfeitMatch, manager
  <1>12. ASSUME RunServer \/ UNCHANGED vars PROVE Beside
    BY <1>b, <1>12 DEF RunServer, vars, manager
  <1> QED BY <1>1, <1>2, <1>3, <1>4, <1>5, <1>6, <1>7, <1>8, <1>9, <1>10, <1>11, <1>12
          DEF Next

-----------------------------------------------------------------------------
(* Types are kept.                                                         *)

LEMMA ManagerEffect ==
    ASSUME Typed, RunManager
    PROVE  \/ ItemHead.op = "login" /\ LoginEffect(ItemHead)
           \/ ItemHead.op = "disconnect" /\ GoneEffect(ItemHead)
           \/ ItemHead.op = "start" /\ StartEffect(ItemHead)
           \/ ItemHead.op = "finished" /\ FinishEffect(ItemHead)
           \/ ItemHead.op = "ban" /\ BanEffect(ItemHead)
           \/ ItemHead.op \in {"block", "unblock", "accept", "remove"} /\ ListEffect
  <1>1. ItemHead \in ManagerItem(Came) /\ Came \in SUBSET Sessions
    BY HeadItem DEF Came
  <1>2. ItemHead.op \in {"login", "disconnect", "start", "finished", "ban", "block",
                         "unblock", "accept", "remove"}
    BY <1>1, ItemFields
  <1> QED BY <1>2, LoginRuns, GoneRuns, StartRuns, FinishRuns, BanRuns, ListsRun

LEMMA ConnectionTypes ==
    ASSUME Typed, [Next]_vars
    PROVE  SessionTypes' /\ ManagerTypes' /\ Came \subseteq Came'
  <1>1. /\ session \in [Sessions -> Sess] /\ IsUsers(users_) /\ IsSids(sid_to_uuid_)
        /\ \A s \in Sessions : session[s].state = "off" => session[s].user_data_ = Nobody
    BY DEF Typed, SessionTypes, ManagerTypes
  <1>2. ASSUME session' \in [Sessions -> Sess],
               \A s \in Sessions : session'[s].state = "off" => session[s].state = "off",
               \A s \in Sessions : session'[s].state = "off" =>
                                    session'[s].user_data_ = session[s].user_data_
        PROVE  SessionTypes' /\ Came \subseteq Came'
    BY <1>1, <1>2 DEF SessionTypes, Came
  <1>3. CASE Beside
    BY <1>1, <1>2, <1>3 DEF Beside, Moves, ManagerTypes
  <1>4. CASE RunManager
    <2>1. ItemHead \in ManagerItem(Came) /\ Came \in SUBSET Sessions
      BY <1>4, HeadItem DEF Came
    <2>2. CASE ItemHead.op = "login" /\ LoginEffect(ItemHead)
      <3>1. session[ItemHead.s].state # "off"
        BY <2>1, <2>2, ItemFields DEF Came
      <3> QED BY <1>1, <1>2, <2>2, <3>1 DEF LoginEffect, ManagerTypes
    <2>3. CASE GoneEffect(ItemHead)
      BY <1>1, <1>2, <2>3 DEF GoneEffect, ManagerTypes
    <2>4. CASE StartEffect(ItemHead) \/ FinishEffect(ItemHead) \/ ListEffect
      BY <1>1, <1>2, <2>4
         DEF StartEffect, FinishEffect, ListEffect, SameConnections, SameSession,
             ManagerTypes
    <2>5. CASE BanEffect(ItemHead)
      BY <1>1, <1>2, <2>5 DEF BanEffect, ManagerTypes
    <2> QED BY <1>4, <2>2, <2>3, <2>4, <2>5, ManagerEffect
  <1> QED BY <1>3, <1>4, BesideSteps

LEMMA TableEffects ==
    ASSUME NEW d \in Tables, NEW j, j.to \in Users
    PROVE  /\ ban_user(d, j) \in Tables
           /\ j.by \in Users =>
                /\ friend_request(d, j) \in Tables /\ delete_friend_request(d, j) \in Tables
                /\ accept_friend(d, j) \in Tables /\ remove_friend(d, j) \in Tables
                /\ block_user(d, j) \in Tables /\ unblock_user(d, j) \in Tables
  <1> DEFINE by == j.by
             to == j.to
  <1>1. ban_user(d, j) \in Tables
    BY DEF ban_user, Tables
  <1>2. ASSUME by \in Users
        PROVE  /\ friend_request(d, j) \in Tables /\ delete_friend_request(d, j) \in Tables
               /\ remove_friend(d, j) \in Tables /\ unblock_user(d, j) \in Tables
    BY <1>2 DEF friend_request, delete_friend_request, remove_friend, unblock_user, Tables
  <1>3. ASSUME by \in Users PROVE accept_friend(d, j) \in Tables
    <2> DEFINE e == delete_friend_request(d, j)
    <2>1. e \in Tables
      BY <1>2, <1>3
    <2>2. accept_friend(d, j) = [e EXCEPT !.friends = @ \cup {{by, to}}]
      BY DEF accept_friend
    <2> HIDE DEF e
    <2> QED BY <1>3, <2>1, <2>2 DEF Tables
  <1>4. ASSUME by \in Users PROVE block_user(d, j) \in Tables
    <2> DEFINE e == remove_friend(d, j)
    <2>1. e \in Tables
      BY <1>2, <1>4
    <2>2. block_user(d, j) = [e EXCEPT !.blocked = @ \cup {<<by, to>>},
                                       !.requests = @ \ {<<by, to>>, <<to, by>>}]
      BY DEF block_user
    <2> HIDE DEF e, by, to
    <2>3. e.blocked \cup {<<by, to>>} \in SUBSET (Users \X Users)
      BY <1>4, <2>1 DEF Tables, to
    <2>4. e.requests \ {<<by, to>>, <<to, by>>} \in SUBSET (Users \X Users)
      BY <2>1 DEF Tables
    <2>5. \A a, b \in SUBSET (Users \X Users) :
            [e EXCEPT !.blocked = a, !.requests = b] \in Tables
      BY <2>1 DEF Tables
    <2>6. block_user(d, j) = [e EXCEPT !.blocked = e.blocked \cup {<<by, to>>},
                              !.requests = e.requests \ {<<by, to>>, <<to, by>>}]
      BY <2>1, <2>2 DEF Tables
    <2> DEFINE a == e.blocked \cup {<<by, to>>}
               b == e.requests \ {<<by, to>>, <<to, by>>}
    <2>7. a \in SUBSET (Users \X Users) /\ b \in SUBSET (Users \X Users)
      BY <2>3, <2>4
    <2>8. block_user(d, j) = [e EXCEPT !.blocked = a, !.requests = b]
      BY <2>6
    <2> HIDE DEF a, b
    <2> QED BY <2>5, <2>7, <2>8
  <1> QED BY <1>1, <1>2, <1>3, <1>4

LEMMA TablesTyped ==
    ASSUME Typed, [Next]_vars
    PROVE  db' \in Tables
  <1>1. db \in Tables /\ pool \subseteq PoolJob(Came) /\ Came \in SUBSET Sessions
    BY DEF Typed, QueueTypes, Came
  <1>2. ASSUME NEW j \in pool, do_register(j) PROVE db' \in Tables
    <2>1. j.to \in Users
      BY <1>1, <1>2 DEF do_register, PoolJob, IpJob, BanJob, LoginJob, NameJob, ByName
    <2> QED BY <1>1, <1>2, <2>1 DEF do_register, Tables
  <1>3. ASSUME NEW j \in pool, do_ban_ip(j) PROVE db' \in Tables
    BY <1>1, <1>3 DEF do_ban_ip, Tables
  <1>4. ASSUME NEW j \in pool, do_unban_ip(j) PROVE db' \in Tables
    BY <1>1, <1>4 DEF do_unban_ip, Tables
  <1>5. ASSUME NEW j \in pool, Lookup(j) \/ FailOnPool(j) PROVE db' \in Tables
    BY <1>1, <1>5 DEF Lookup, FailOnPool
  <1>6. ASSUME NEW u \in Users,
               \/ do_send_friend_request(u) \/ AcceptFriend(u) \/ DeclineFriend(u)
               \/ Commit(u) \/ do_unban_user(u)
        PROVE  db' \in Tables
    <2> DEFINE j == Head(uuid_strands_[u])
    <2>1. /\ uuid_strands_[u] # <<>>
          /\ \/ db' = db
             \/ j.op = "request" /\ db' = friend_request(db, j)
             \/ j.op = "accept" /\ db' = accept_friend(db, j)
             \/ j.op = "decline" /\ db' = delete_friend_request(db, j)
             \/ j.op = "block" /\ db' = block_user(db, j)
             \/ j.op = "unblock" /\ db' = unblock_user(db, j)
             \/ j.op = "remove" /\ db' = remove_friend(db, j)
             \/ j.op = "ban" /\ db' = ban_user(db, j)
             \/ db' = [db EXCEPT !.bans = @ \ {u}]
      BY <1>6 DEF do_send_friend_request, AcceptFriend, DeclineFriend, Commit, Changes,
                  do_unban_user, At
    <2>2. j \in StrandJob(u, Came)
      BY <2>1, HeadJob
    <2> HIDE DEF j
    <2>3. /\ j.to \in Users
          /\ j.op \in {"request", "accept", "decline", "block", "unblock", "remove"} =>
                j.by \in Users
      BY <1>1, <2>2, JobFields DEF ByName, ById
    <2>4. [db EXCEPT !.bans = @ \ {u}] \in Tables
      BY <1>1 DEF Tables
    <2> QED BY <1>1, <2>1, <2>3, <2>4, TableEffects
  <1>7. ASSUME NEW u \in Users, AuthBanned(u) \/ AuthRefused(u) \/ AuthGood(u) \/ Post(u)
                                \/ do_fetch_new_matches(u)
        PROVE  db' \in Tables
    BY <1>1, <1>7 DEF AuthBanned, AuthRefused, AuthGood, Post, do_fetch_new_matches
  <1>8. ASSUME NEW s \in Sessions,
               \/ handle_accept(s) \/ LosePeer(s) \/ remove_session(s)
               \/ FetchMatchHistory(s)
               \/ \E u \in Users :
                    \/ Login(s, u) \/ Register(s, u)
                    \/ \E op \in ByName \cup ById : ChangeRelation(s, op, u)
        PROVE  db' \in Tables
    BY <1>1, <1>8 DEF handle_accept, LosePeer, remove_session, FetchMatchHistory, Login,
                      Register, ChangeRelation
  <1>9. ASSUME NEW op, NEW x, Console(op, x) PROVE db' \in Tables
    BY <1>1, <1>9 DEF Console
  <1>10. ASSUME NEW m \in Matches,
                \/ StartMatch(m) \/ FinishMatch(m) \/ RecordMatch(m)
                \/ \E u \in Users : ForfeitMatch(m, u)
         PROVE  db' \in Tables
    BY <1>1, <1>10 DEF StartMatch, FinishMatch, RecordMatch, ForfeitMatch
  <1>11. ASSUME RunServer \/ RunManager \/ UNCHANGED vars PROVE db' \in Tables
    BY <1>1, <1>11 DEF RunServer, RunManager, vars
  <1> QED BY <1>2, <1>3, <1>4, <1>5, <1>6, <1>7, <1>8, <1>9, <1>10, <1>11 DEF Next

LEMMA Monotone ==
    ASSUME NEW C, NEW D, C \subseteq D
    PROVE  /\ PoolJob(C) \subseteq PoolJob(D)
           /\ \A u : StrandJob(u, C) \subseteq StrandJob(u, D)
           /\ ServerItem(C) \subseteq ServerItem(D)
           /\ ManagerItem(C) \subseteq ManagerItem(D)
  <1>1. LoginJob(Users, C) \subseteq LoginJob(Users, D)
    BY DEF LoginJob
  <1>2. \A u : LoginJob({u}, C) \subseteq LoginJob({u}, D)
    BY DEF LoginJob
  <1>3. LoginItem(C) \subseteq LoginItem(D) /\ GoneItem(C) \subseteq GoneItem(D)
    BY DEF LoginItem, GoneItem
  <1>4. ServerItem(C) \subseteq ServerItem(D)
    BY <1>3 DEF ServerItem
  <1> QED BY <1>1, <1>2, <1>4 DEF PoolJob, StrandJob, ManagerItem

LEMMA PoolTyped ==
    ASSUME Typed, [Next]_vars
    PROVE  pool' \subseteq PoolJob(Came')
  <1>1. /\ pool \subseteq PoolJob(Came) /\ session \in [Sessions -> Sess]
        /\ Came \subseteq Came'
    BY ConnectionTypes DEF Typed, QueueTypes, SessionTypes
  <1>2. PoolJob(Came) \subseteq PoolJob(Came')
    BY <1>1, Monotone
  <1>3. pool' \subseteq pool \/ \E j \in PoolJob(Came) : pool' = pool \cup {j}
    <2>1. ASSUME NEW s \in Sessions, handle_accept(s)
          PROVE  pool' \subseteq pool \/ \E j \in PoolJob(Came) : pool' = pool \cup {j}
      <3> DEFINE j == Job("unban_ip", Nobody, ip[s], Nobody)
      <3>1. j \in IpJob
        BY UsersAssumption DEF Job, IpJob
      <3>2. pool' = pool \/ pool' = pool \cup {j}
        BY <2>1 DEF handle_accept
      <3> QED BY <3>1, <3>2 DEF PoolJob
    <2>2. ASSUME NEW s \in Sessions, NEW u \in Users, Login(s, u)
          PROVE  \E j \in PoolJob(Came) : pool' = pool \cup {j}
      <3>1. s \in Came /\ pool' = pool \cup {Job("login", u, u, s)}
        BY <2>2 DEF Login, Receive, Came, ToPool
      <3>2. Job("login", u, u, s) \in LoginJob(Users, Came)
        BY <3>1 DEF Job, LoginJob
      <3> QED BY <3>1, <3>2 DEF PoolJob
    <2>3. ASSUME NEW s \in Sessions, NEW u \in Users, Register(s, u)
          PROVE  \E j \in PoolJob(Came) : pool' = pool \cup {j}
      <3>1. pool' = pool \cup {Job("register", u, u, s)}
        BY <2>3 DEF Register, ToPool
      <3>2. Job("register", u, u, s) \in NameJob
        BY DEF Job, NameJob
      <3> QED BY <3>1, <3>2 DEF PoolJob
    <2>4. ASSUME NEW s \in Sessions, NEW v \in Users, NEW op \in ByName \cup ById,
                 ChangeRelation(s, op, v)
          PROVE  pool' = pool \/ \E j \in PoolJob(Came) : pool' = pool \cup {j}
      <3> DEFINE me == session[s].user_data_
      <3>1. /\ me # Nobody
            /\ pool' = pool \/ (op \in ByName /\ pool' = pool \cup {Job(op, me, v, s)})
        BY <2>4 DEF ChangeRelation, ToPool, ToStrand
      <3>2. me \in Users
        BY <1>1, <3>1 DEF Sess
      <3> HIDE DEF me
      <3>3. op \in ByName => Job(op, me, v, s) \in NameJob
        BY <3>2 DEF Job, NameJob
      <3> QED BY <3>1, <3>3 DEF PoolJob
    <2>5. ASSUME NEW op \in {"ban", "unban", "ban_ip"}, NEW x, Console(op, x)
          PROVE  \E j \in PoolJob(Came) : pool' = pool \cup {j}
      <3>1. pool' = pool \cup {Job(op, Nobody, x, Nobody)}
        BY <2>5 DEF Console, ToPool
      <3>2. Job(op, Nobody, x, Nobody) \in IpJob \cup BanJob(Users)
        BY <2>5 DEF Console, Job, IpJob, BanJob
      <3> QED BY <3>1, <3>2 DEF PoolJob
    <2>6. ASSUME NEW s \in Sessions,
                 LosePeer(s) \/ remove_session(s) \/ FetchMatchHistory(s)
          PROVE  pool' = pool
      BY <2>6 DEF LosePeer, remove_session, FetchMatchHistory, ToStrand, strands
    <2>7. ASSUME NEW j \in pool, \/ Lookup(j) \/ do_register(j) \/ do_ban_ip(j)
                                 \/ do_unban_ip(j) \/ FailOnPool(j)
          PROVE  pool' \subseteq pool
      BY <2>7 DEF Lookup, do_register, do_ban_ip, do_unban_ip, FailOnPool, OffPool
    <2>8. ASSUME NEW u \in Users,
                 \/ AuthBanned(u) \/ AuthRefused(u) \/ AuthGood(u)
                 \/ do_send_friend_request(u) \/ AcceptFriend(u) \/ DeclineFriend(u)
                 \/ Commit(u) \/ Post(u) \/ do_unban_user(u) \/ do_fetch_new_matches(u)
          PROVE  pool' = pool
      BY <2>8 DEF AuthBanned, AuthRefused, AuthGood, do_send_friend_request, AcceptFriend,
                  DeclineFriend, Commit, Post, do_unban_user, do_fetch_new_matches, At
    <2>9. ASSUME NEW m \in Matches,
                 \/ StartMatch(m) \/ FinishMatch(m) \/ RecordMatch(m)
                 \/ \E u \in Users : ForfeitMatch(m, u)
          PROVE  pool' = pool
      BY <2>9 DEF StartMatch, FinishMatch, RecordMatch, ForfeitMatch, strands
    <2>10. ASSUME RunServer \/ RunManager \/ UNCHANGED vars PROVE pool' = pool
      BY <2>10 DEF RunServer, RunManager, vars, strands
    <2> QED BY <2>1, <2>2, <2>3, <2>4, <2>5, <2>6, <2>7, <2>8, <2>9, <2>10 DEF Next
  <1> QED BY <1>1, <1>2, <1>3

\* The steps of the job at the head of the strand of user u.
OnStrand(u) ==
    \/ AuthBanned(u) \/ AuthRefused(u) \/ AuthGood(u)
    \/ do_send_friend_request(u) \/ AcceptFriend(u) \/ DeclineFriend(u)
    \/ Commit(u) \/ Post(u) \/ do_unban_user(u) \/ do_fetch_new_matches(u)

Grows(q, p, S) == p = q \/ \E x \in S : p = Append(q, x)

StrandMoves(u) ==
    \/ /\ stage'[u] = stage[u]
       /\ Grows(uuid_strands_[u], uuid_strands_'[u], StrandJob(u, Came))
    \/ /\ OnStrand(u) /\ uuid_strands_[u] # <<>>
       /\ uuid_strands_'[u] \in {uuid_strands_[u], Tail(uuid_strands_[u])}

IsFcn(f) == f = [u \in Users |-> f[u]]

LEMMA StrandSteps ==
    ASSUME Typed, [Next]_vars
    PROVE  /\ IsFcn(uuid_strands_') /\ \A u \in Users : StrandMoves(u)
           /\ stage' \in [Users -> {"begin", "tested", "found", "posted", "committed"}]
  <1> DEFINE Stages == {"begin", "tested", "found", "posted", "committed"}
             Goal == /\ IsFcn(uuid_strands_') /\ \A u \in Users : StrandMoves(u)
                     /\ stage' \in [Users -> Stages]
  <1>1. /\ IsFcn(uuid_strands_) /\ session \in [Sessions -> Sess]
        /\ pool \subseteq PoolJob(Came) /\ stage \in [Users -> Stages]
    BY DEF Typed, QueueTypes, SessionTypes, OtherTypes, IsFcn
  <1> HIDE DEF Stages
  <1>2. ASSUME uuid_strands_' = uuid_strands_, stage' = stage PROVE Goal
    BY <1>1, <1>2 DEF StrandMoves, Grows
  <1>3. ASSUME NEW u \in Users, NEW j \in StrandJob(u, Came), stage' = stage,
               uuid_strands_' = [uuid_strands_ EXCEPT ![u] = Append(@, j)]
        PROVE  Goal
    <2> DEFINE more == Append(uuid_strands_[u], j)
    <2>1. uuid_strands_' = [uuid_strands_ EXCEPT ![u] = more]
      BY <1>3
    <2>2. \E x \in StrandJob(u, Came) : more = Append(uuid_strands_[u], x)
      OBVIOUS
    <2> HIDE DEF more
    <2>3. IsFcn(uuid_strands_') /\ uuid_strands_'[u] = more
          /\ \A v \in Users \ {u} : uuid_strands_'[v] = uuid_strands_[v]
      BY <1>1, <2>1 DEF IsFcn
    <2> QED BY <1>1, <1>3, <2>2, <2>3 DEF StrandMoves, Grows
  <1>4. ASSUME NEW s \in Sessions, FetchMatchHistory(s) PROVE Goal
    <2> DEFINE me == session[s].user_data_
    <2>1. /\ me # Nobody /\ stage' = stage
          /\ uuid_strands_' = [uuid_strands_ EXCEPT ![me] =
                                    Append(@, Job("history", me, me, s))]
      BY <1>4 DEF FetchMatchHistory, ToStrand
    <2>2. me \in Users
      BY <1>1, <2>1 DEF Sess
    <2> HIDE DEF me
    <2>3. Job("history", me, me, s) \in StrandJob(me, Came)
      BY <2>2 DEF StrandJob, OtherJob, Job
    <2> QED BY <1>3, <2>1, <2>2, <2>3
  <1>5. ASSUME NEW s \in Sessions, NEW v \in Users, NEW op \in ByName \cup ById,
               ChangeRelation(s, op, v)
        PROVE  Goal
    <2> DEFINE me == session[s].user_data_
               u == StrandOf(op, me, v)
               j == Job(op, me, v, s)
    <2>1. /\ me # Nobody /\ stage' = stage
          /\ \/ uuid_strands_' = uuid_strands_
             \/ uuid_strands_' = [uuid_strands_ EXCEPT ![u] = Append(@, j)]
      BY <1>5 DEF ChangeRelation, ToPool, ToStrand
    <2>2. me \in Users
      BY <1>1, <2>1 DEF Sess
    <2> HIDE DEF me
    <2>3. u \in Users /\ j \in StrandJob(u, Came)
      BY <2>2 DEF StrandJob, OtherJob, Job, StrandOf
    <2> HIDE DEF u, j
    <2> QED BY <1>2, <1>3, <2>1, <2>3
  <1>6. ASSUME NEW j \in pool, Lookup(j) PROVE Goal
    <2>1. /\ stage' = stage /\ j.op \in {"login", "ban", "unban"} \cup ByName
          /\ \/ uuid_strands_' = uuid_strands_
             \/ uuid_strands_' = [uuid_strands_ EXCEPT ![j.to] = Append(@, j)]
      BY <1>6 DEF Lookup, OffPool
    <2>2. j.to \in Users /\ j \in StrandJob(j.to, Came)
      BY <1>1, <2>1 DEF PoolJob, IpJob, BanJob, LoginJob, NameJob, StrandJob, OtherJob,
                        ByName
    <2> QED BY <1>2, <1>3, <2>1, <2>2
  <1>7. ASSUME NEW u \in Users, OnStrand(u) PROVE Goal
    <2>1. uuid_strands_[u] # <<>>
      BY <1>7 DEF OnStrand, AuthBanned, AuthRefused, AuthGood, do_send_friend_request,
                  AcceptFriend, DeclineFriend, Commit, Post, do_unban_user,
                  do_fetch_new_matches, At
    <2>2. \/ Finish(u)
          \/ \E st \in Stages : GoOn(u, st)
      BY <1>7 DEF OnStrand, AuthBanned, AuthRefused, AuthGood, do_send_friend_request,
                  AcceptFriend, DeclineFriend, Commit, Post, do_unban_user,
                  do_fetch_new_matches, Stages
    <2>3. /\ stage' \in [Users -> Stages]
          /\ \A v \in Users \ {u} : stage'[v] = stage[v]
      <3>1. "begin" \in Stages
        BY DEF Stages
      <3> QED BY <1>1, <2>2, <3>1 DEF Finish, GoOn
    <2> DEFINE less == Tail(uuid_strands_[u])
    <2>4. \/ uuid_strands_' = uuid_strands_
          \/ uuid_strands_' = [uuid_strands_ EXCEPT ![u] = less]
      BY <2>2 DEF Finish, GoOn
    <2> HIDE DEF less
    <2>5. /\ IsFcn(uuid_strands_') /\ uuid_strands_'[u] \in {uuid_strands_[u], less}
          /\ \A v \in Users \ {u} : uuid_strands_'[v] = uuid_strands_[v]
      BY <1>1, <2>4 DEF IsFcn
    <2> QED BY <1>7, <2>1, <2>3, <2>5 DEF StrandMoves, Grows, less
  <1>8. ASSUME NEW s \in Sessions, handle_accept(s) \/ LosePeer(s) \/ remove_session(s)
        PROVE  Goal
    <2>1. UNCHANGED <<uuid_strands_, stage>>
      BY <1>8 DEF handle_accept, LosePeer, remove_session, strands
    <2> QED BY <1>2, <2>1
  <1>9. ASSUME NEW s \in Sessions, NEW u \in Users, Login(s, u) \/ Register(s, u)
        PROVE  Goal
    <2>1. UNCHANGED <<uuid_strands_, stage>>
      BY <1>9 DEF Login, Register, ToPool
    <2> QED BY <1>2, <2>1
  <1>10. ASSUME NEW op, NEW x, Console(op, x) PROVE Goal
    <2>1. UNCHANGED <<uuid_strands_, stage>>
      BY <1>10 DEF Console, ToPool
    <2> QED BY <1>2, <2>1
  <1>11. ASSUME NEW j \in pool, \/ do_register(j) \/ do_ban_ip(j)
                                \/ do_unban_ip(j) \/ FailOnPool(j)
         PROVE  Goal
    <2>1. UNCHANGED <<uuid_strands_, stage>>
      BY <1>11 DEF do_register, do_ban_ip, do_unban_ip, FailOnPool, OffPool
    <2> QED BY <1>2, <2>1
  <1>12. ASSUME NEW m \in Matches,
                \/ StartMatch(m) \/ FinishMatch(m) \/ RecordMatch(m)
                \/ \E u \in Users : ForfeitMatch(m, u)
         PROVE  Goal
    <2>1. UNCHANGED <<uuid_strands_, stage>>
      BY <1>12 DEF StartMatch, FinishMatch, RecordMatch, ForfeitMatch, strands
    <2> QED BY <1>2, <2>1
  <1>13. ASSUME RunServer \/ RunManager \/ UNCHANGED vars PROVE Goal
    <2>1. UNCHANGED <<uuid_strands_, stage>>
      BY <1>13 DEF RunServer, RunManager, vars, strands
    <2> QED BY <1>2, <2>1
  <1> HIDE DEF Goal
  <1>14. Goal
    BY <1>4, <1>5, <1>6, <1>7, <1>8, <1>9, <1>10, <1>11, <1>12, <1>13 DEF Next, OnStrand
  <1> QED BY <1>14 DEF Goal, Stages

\* p is q with items of N at its end.
Adds(q, p, N) ==
    /\ Len(q) \in Nat /\ Len(p) \in Nat /\ Len(q) <= Len(p)
    /\ \A i \in 1 .. Len(q) : p[i] = q[i]
    /\ \A i \in 1 .. Len(p) : i > Len(q) => p[i] \in N

LEMMA AppendAdds ==
    ASSUME NEW S, NEW q \in Seq(S), NEW N, NEW x \in S, x \in N
    PROVE  Append(q, x) \in Seq(S) /\ Adds(q, Append(q, x), N)
  <1> DEFINE p == Append(q, x)
  <1>1. /\ p \in Seq(S) /\ Len(q) \in Nat /\ Len(p) = Len(q) + 1 /\ p[Len(q) + 1] = x
        /\ \A i \in 1 .. Len(q) : p[i] = q[i]
    BY AfterAppend
  <1> HIDE DEF p
  <1>2. Adds(q, p, N)
    BY <1>1 DEF Adds
  <1> QED BY <1>1, <1>2 DEF p

LEMMA ConcatAdds ==
    ASSUME NEW S, NEW q \in Seq(S), NEW N, N \subseteq S, NEW r \in Seq(N)
    PROVE  q \o r \in Seq(S) /\ Adds(q, q \o r, N)
  <1> DEFINE p == q \o r
  <1>1. r \in Seq(S)
    BY Wider
  <1>2. /\ p \in Seq(S) /\ Len(p) = Len(q) + Len(r)
        /\ \A i \in 1 .. Len(q) + Len(r) : p[i] =
                IF i <= Len(q) THEN q[i] ELSE r[i - Len(q)]
    BY <1>1, ConcatProperties
  <1>3. Len(q) \in Nat /\ Len(r) \in Nat /\ \A i \in 1 .. Len(r) : r[i] \in N
    OBVIOUS
  <1> HIDE DEF p
  <1>4. \A i \in 1 .. Len(p) : i > Len(q) => p[i] \in N
    <2> SUFFICES ASSUME NEW i \in 1 .. Len(p), i > Len(q) PROVE p[i] \in N
      OBVIOUS
    <2>1. i - Len(q) \in 1 .. Len(r) /\ ~(i <= Len(q)) /\ i \in 1 .. Len(q) + Len(r)
      BY <1>2, <1>3
    <2> QED BY <1>2, <1>3, <2>1
  <1>5. Adds(q, p, N)
    <2>1. Len(q) <= Len(p) /\ Len(p) \in Nat
      BY <1>2, <1>3
    <2>2. \A i \in 1 .. Len(q) : p[i] = q[i]
      BY <1>2, <1>3
    <2> QED BY <1>3, <1>4, <2>1, <2>2 DEF Adds
  <1> QED BY <1>2, <1>5 DEF p

\* What Tell puts on the strand: everybody is told, in some order.
Told(op, m) ==
    [i \in DOMAIN SetToSeq(Users) |-> Match(op, SetToSeq(Users)[i], m, TRUE)]

LEMMA EverybodyIsTold ==
    ASSUME NEW op \in {"start", "finished"}, NEW m \in Matches
    PROVE  /\ Told(op, m) \in Seq({x \in MatchItem : x.op = op /\ x.m = m})
           /\ \A u \in Users : \E i \in 1 .. Len(Told(op, m)) : Told(op, m)[i].u = u
  <1> DEFINE n == Cardinality(Users)
             f == SetToSeq(Users)
             N == {x \in MatchItem : x.op = op /\ x.m = m}
  <1>1. n \in Nat /\ ExistsBijection(1 .. n, Users) /\ IsFiniteSet(Users)
    BY UsersAssumption, FS_CardinalityType
  <1>2. \E g \in [1 .. n -> Users] : IsInjective(g)
    BY <1>1 DEF ExistsBijection, Bijection, Injection
  <1>3. f \in [1 .. n -> Users] /\ IsInjective(f)
    BY <1>2 DEF SetToSeq
  <1> HIDE DEF f, n
  <1>4. f \in Injection(1 .. n, Users)
    BY <1>3 DEF Injection
  <1>5. Cardinality(1 .. n) = n
    BY <1>1, FS_Interval
  <1>6. f \in Surjection(1 .. n, Users)
    BY <1>1, <1>4, <1>5, FS_Injection DEF n
  <1>7. \A i \in 1 .. n : Match(op, f[i], m, TRUE) \in N /\ Match(op, f[i], m, TRUE).u = f[i]
    BY <1>3 DEF Match, MatchItem
  <1>8. Told(op, m) = [i \in 1 .. n |-> Match(op, f[i], m, TRUE)]
    BY <1>3 DEF Told, f
  <1> HIDE DEF N
  <1>9. Told(op, m) \in [1 .. n -> N]
    BY <1>7, <1>8
  <1>10. Told(op, m) \in Seq(N) /\ Len(Told(op, m)) = n
    BY <1>1, <1>9, SeqDef
  <1>11. \A u \in Users : \E i \in 1 .. n : Told(op, m)[i].u = u
    BY <1>6, <1>7, <1>8 DEF Surjection
  <1> QED BY <1>10, <1>11 DEF N

ServerMoves ==
    \/ RunServer
    \/ server_strand_' = server_strand_
    \/ \E x \in ServerItem(Came) :
          /\ server_strand_' = Append(server_strand_, x)
          /\ x.op = "login" => x.u \notin db.bans

LEMMA ServerSteps ==
    ASSUME Typed, [Next]_vars
    PROVE  ServerMoves
  <1>1. Came \in SUBSET Sessions
    BY DEF Came
  <1>2. ASSUME NEW s \in Sessions, remove_session(s) PROVE ServerMoves
    <2> DEFINE x == [op |-> "disconnect", s |-> s]
    <2>1. s \in Came /\ server_strand_' = Append(server_strand_, x)
      BY <1>2 DEF remove_session, Came
    <2>2. x \in ServerItem(Came) /\ x.op # "login"
      BY <2>1 DEF ServerItem, GoneItem
    <2> QED BY <2>1, <2>2 DEF ServerMoves
  <1>3. ASSUME NEW u \in Users, AuthGood(u) PROVE ServerMoves
    <2> DEFINE j == Head(uuid_strands_[u])
    <2>1. /\ uuid_strands_[u] # <<>> /\ j.op = "login" /\ u \notin db.bans
          /\ \E a, b \in SUBSET Users :
                server_strand_' = Append(server_strand_, LoginHandler(u, j.s, a, b))
      <3>1. FriendsOf(u) \in SUBSET Users /\ BlocksOf(u) \in SUBSET Users
            /\ {} \in SUBSET Users
        BY DEF FriendsOf, BlocksOf
      <3> QED BY <1>3, <3>1 DEF AuthGood, At
    <2>2. j \in StrandJob(u, Came)
      BY <2>1, HeadJob
    <2> HIDE DEF j
    <2>3. j.s \in Came
      BY <1>1, <2>1, <2>2, JobFields
    <2>4. \A a, b \in SUBSET Users : /\ LoginHandler(u, j.s, a, b) \in ServerItem(Came)
                                     /\ LoginHandler(u, j.s, a, b).u = u
      BY <2>3 DEF LoginHandler, ServerItem, LoginItem
    <2> QED BY <2>1, <2>4 DEF ServerMoves
  <1>4. ASSUME NEW u \in Users, Post(u) PROVE ServerMoves
    <2> DEFINE j == Head(uuid_strands_[u])
    <2>1. /\ uuid_strands_[u] # <<>>
          /\ \/ server_strand_' = server_strand_
             \/ j.op = "ban" /\ server_strand_' = Append(server_strand_, j)
      BY <1>4 DEF Post, At
    <2>2. j \in StrandJob(u, Came)
      BY <2>1, HeadJob
    <2> HIDE DEF j
    <2>3. j.op = "ban" => j \in ServerItem(Came)
      BY <1>1, <2>2, JobFields DEF ServerItem
    <2> QED BY <2>1, <2>3 DEF ServerMoves
  <1>5. ASSUME NEW u \in Users,
               \/ AuthBanned(u) \/ AuthRefused(u)
               \/ do_send_friend_request(u) \/ AcceptFriend(u) \/ DeclineFriend(u)
               \/ Commit(u) \/ do_unban_user(u) \/ do_fetch_new_matches(u)
        PROVE  ServerMoves
    BY <1>5 DEF AuthBanned, AuthRefused, do_send_friend_request, AcceptFriend,
                DeclineFriend, Commit, do_unban_user, do_fetch_new_matches, ServerMoves
  <1>6. ASSUME NEW s \in Sessions,
               \/ handle_accept(s) \/ LosePeer(s) \/ FetchMatchHistory(s)
               \/ \E u \in Users :
                    \/ Login(s, u) \/ Register(s, u)
                    \/ \E op \in ByName \cup ById : ChangeRelation(s, op, u)
        PROVE  ServerMoves
    BY <1>6 DEF handle_accept, LosePeer, FetchMatchHistory, Login, Register,
                ChangeRelation, strands, ServerMoves
  <1>7. ASSUME NEW op, NEW x, Console(op, x) PROVE ServerMoves
    BY <1>7 DEF Console, ServerMoves
  <1>8. ASSUME NEW j \in pool, \/ Lookup(j) \/ do_register(j) \/ do_ban_ip(j)
                               \/ do_unban_ip(j) \/ FailOnPool(j)
        PROVE  ServerMoves
    BY <1>8 DEF Lookup, do_register, do_ban_ip, do_unban_ip, FailOnPool, OffPool,
                ServerMoves
  <1>9. ASSUME NEW m \in Matches,
               \/ StartMatch(m) \/ FinishMatch(m) \/ RecordMatch(m)
               \/ \E u \in Users : ForfeitMatch(m, u)
        PROVE  ServerMoves
    BY <1>9 DEF StartMatch, FinishMatch, RecordMatch, ForfeitMatch, strands, ServerMoves
  <1>10. ASSUME RunServer \/ RunManager \/ UNCHANGED vars PROVE ServerMoves
    BY <1>10 DEF RunServer, RunManager, vars, strands, ServerMoves
  <1> QED BY <1>2, <1>3, <1>4, <1>5, <1>6, <1>7, <1>8, <1>9, <1>10 DEF Next

Grown(N) ==
    manager_strand' \in Seq(ManagerItem(Came)) /\ Adds(manager_strand, manager_strand', N)

\* Everything but the matches: only the lists of friends and blocks are about the
\* UserManager.
Quiet ==
    /\ live_matches_' = live_matches_ /\ players' = players
    /\ manager_strand' = manager_strand \/ Grown(ListItem)

ManagerMoves ==
    \/ RunManager \/ RunServer \/ Quiet
    \/ \E m \in Matches :
          \/ StartMatch(m) \/ FinishMatch(m) \/ RecordMatch(m)
          \/ \E u \in Users : ForfeitMatch(m, u)

LEMMA ManagerSteps ==
    ASSUME Typed, [Next]_vars
    PROVE  ManagerMoves
  <1>1. Came \in SUBSET Sessions /\ manager_strand \in Seq(ManagerItem(Came))
    BY DEF Came, Typed, QueueTypes
  <1>2. ASSUME NEW u \in Users, AcceptFriend(u) \/ Post(u) PROVE Quiet
    <2> DEFINE j == Head(uuid_strands_[u])
    <2>1. /\ uuid_strands_[u] # <<>> /\ UNCHANGED match_vars
          /\ \/ manager_strand' = manager_strand
             \/ /\ j.op \in {"accept", "remove", "block", "unblock"}
                /\ manager_strand' = Append(manager_strand, j)
      BY <1>2 DEF AcceptFriend, Post, At, Changes
    <2>2. j \in StrandJob(u, Came)
      BY <2>1, HeadJob
    <2> HIDE DEF j
    <2>3. j.op \in {"accept", "remove", "block", "unblock"} =>
             j \in ListItem /\ j \in ManagerItem(Came)
      BY <1>1, <2>2, JobFields DEF ManagerItem
    <2> QED BY <1>1, <2>1, <2>3, AppendAdds DEF Quiet, Grown, match_vars
  <1>3. ASSUME NEW u \in Users,
               \/ AuthBanned(u) \/ AuthRefused(u) \/ AuthGood(u)
               \/ do_send_friend_request(u) \/ DeclineFriend(u)
               \/ Commit(u) \/ do_unban_user(u) \/ do_fetch_new_matches(u)
        PROVE  Quiet
    BY <1>3 DEF AuthBanned, AuthRefused, AuthGood, do_send_friend_request,
                DeclineFriend, Commit, do_unban_user, do_fetch_new_matches, At,
                match_vars, Quiet
  <1>4. ASSUME NEW s \in Sessions,
               \/ handle_accept(s) \/ LosePeer(s) \/ remove_session(s)
               \/ FetchMatchHistory(s)
               \/ \E u \in Users :
                    \/ Login(s, u) \/ Register(s, u)
                    \/ \E op \in ByName \cup ById : ChangeRelation(s, op, u)
        PROVE  Quiet
    BY <1>4 DEF handle_accept, LosePeer, remove_session, FetchMatchHistory, Login,
                Register, ChangeRelation, strands, match_vars, Quiet
  <1>5. ASSUME NEW op, NEW x, Console(op, x) PROVE Quiet
    BY <1>5 DEF Console, match_vars, Quiet
  <1>6. ASSUME NEW j \in pool, \/ Lookup(j) \/ do_register(j) \/ do_ban_ip(j)
                               \/ do_unban_ip(j) \/ FailOnPool(j)
        PROVE  Quiet
    BY <1>6 DEF Lookup, do_register, do_ban_ip, do_unban_ip, FailOnPool, OffPool,
                match_vars, Quiet
  <1>7. ASSUME UNCHANGED vars PROVE Quiet
    BY <1>7 DEF vars, strands, match_vars, Quiet
  <1> QED BY <1>2, <1>3, <1>4, <1>5, <1>6, <1>7 DEF Next, ManagerMoves

LEMMA MatchStepsAdd ==
    ASSUME Typed, NEW m \in Matches
    PROVE  /\ StartMatch(m) =>
                /\ Grown({x \in MatchItem : x.op = "start" /\ x.m = m})
                /\ \A u \in Users : \E i \in 1 .. Len(manager_strand') :
                      i > Len(manager_strand) /\ manager_strand'[i].u = u
           /\ FinishMatch(m) =>
                /\ Grown({x \in MatchItem : x.op = "finished" /\ x.m = m})
                /\ \A u \in Users : \E i \in 1 .. Len(manager_strand') :
                      i > Len(manager_strand) /\ manager_strand'[i].u = u
           /\ \A u \in Users : ForfeitMatch(m, u) =>
                Grown({x \in MatchItem : x.op = "finished" /\ x.m = m /\ x.u = u})
  <1>1. manager_strand \in Seq(ManagerItem(Came)) /\ MatchItem \subseteq ManagerItem(Came)
    BY DEF Typed, QueueTypes, ManagerItem
  <1>2. ASSUME NEW op \in {"start", "finished"}, Tell(op, m)
        PROVE  /\ Grown({x \in MatchItem : x.op = op /\ x.m = m})
               /\ \A u \in Users : \E i \in 1 .. Len(manager_strand') :
                      i > Len(manager_strand) /\ manager_strand'[i].u = u
    <2> DEFINE r == Told(op, m)
               N == {x \in MatchItem : x.op = op /\ x.m = m}
    <2>1. manager_strand' = manager_strand \o r
      BY <1>2 DEF Tell, Told
    <2>2. r \in Seq(N) /\ \A u \in Users : \E i \in 1 .. Len(r) : r[i].u = u
      BY EverybodyIsTold
    <2>3. N \subseteq ManagerItem(Came)
      BY <1>1
    <2> HIDE DEF r, N
    <2>4. Grown(N)
      BY <1>1, <2>1, <2>2, <2>3, ConcatAdds DEF Grown
    <2>5. r \in Seq(ManagerItem(Came))
      BY <2>2, <2>3, Wider
    <2>6. /\ Len(manager_strand') = Len(manager_strand) + Len(r)
          /\ \A i \in 1 .. Len(manager_strand) + Len(r) : manager_strand'[i] =
                IF i <= Len(manager_strand) THEN manager_strand[i]
                ELSE r[i - Len(manager_strand)]
          /\ Len(manager_strand) \in Nat /\ Len(r) \in Nat
      BY <1>1, <2>1, <2>5, ConcatProperties
    <2>7. ASSUME NEW u \in Users
          PROVE  \E i \in 1 .. Len(manager_strand') :
                      i > Len(manager_strand) /\ manager_strand'[i].u = u
      <3>1. PICK k \in 1 .. Len(r) : r[k].u = u
        BY <2>2
      <3> DEFINE i == Len(manager_strand) + k
      <3>2. /\ i \in 1 .. Len(manager_strand') /\ i > Len(manager_strand)
            /\ ~(i <= Len(manager_strand)) /\ i - Len(manager_strand) = k
            /\ i \in 1 .. Len(manager_strand) + Len(r)
        BY <2>6
      <3> HIDE DEF i
      <3>3. manager_strand'[i] = r[k]
        BY <2>6, <3>2
      <3> QED BY <3>1, <3>2, <3>3
    <2> QED BY <2>4, <2>7 DEF N
  <1>3. ASSUME NEW u \in Users, ForfeitMatch(m, u)
        PROVE  Grown({x \in MatchItem : x.op = "finished" /\ x.m = m /\ x.u = u})
    <2> DEFINE x == Match("finished", u, m, FALSE)
    <2>1. manager_strand' = Append(manager_strand, x)
      BY <1>3 DEF ForfeitMatch
    <2>2. x \in MatchItem /\ x.op = "finished" /\ x.m = m /\ x.u = u
      BY DEF Match, MatchItem
    <2> HIDE DEF x
    <2> QED BY <1>1, <2>1, <2>2, AppendAdds DEF Grown
  <1> QED BY <1>2, <1>3 DEF StartMatch, FinishMatch

LEMMA QueuesTyped ==
    ASSUME Typed, [Next]_vars
    PROVE  QueueTypes'
  <1>1. Came \subseteq Came'
    BY ConnectionTypes
  <1>2. /\ \A u : StrandJob(u, Came) \subseteq StrandJob(u, Came')
        /\ ServerItem(Came) \subseteq ServerItem(Came')
        /\ ManagerItem(Came) \subseteq ManagerItem(Came')
    BY <1>1, Monotone
  <1>3. /\ \A u \in Users : uuid_strands_[u] \in Seq(StrandJob(u, Came))
        /\ server_strand_ \in Seq(ServerItem(Came))
        /\ manager_strand \in Seq(ManagerItem(Came))
    BY DEF Typed, QueueTypes
  <1>4. ASSUME NEW u \in Users PROVE uuid_strands_'[u] \in Seq(StrandJob(u, Came'))
    <2>1. uuid_strands_'[u] \in Seq(StrandJob(u, Came))
      <3>1. StrandMoves(u)
        BY StrandSteps
      <3>2. uuid_strands_[u] # <<>> => Tail(uuid_strands_[u]) \in Seq(StrandJob(u, Came))
        BY <1>3, AfterTail
      <3>3. \A x \in StrandJob(u, Came) :
                Append(uuid_strands_[u], x) \in Seq(StrandJob(u, Came))
        BY <1>3, AfterAppend
      <3> QED BY <1>3, <3>1, <3>2, <3>3 DEF StrandMoves, Grows
    <2> QED BY <1>2, <2>1, Wider
  <1>5. server_strand_' \in Seq(ServerItem(Came'))
    <2>1. server_strand_' \in Seq(ServerItem(Came))
      <3>1. ServerMoves
        BY ServerSteps
      <3>2. CASE RunServer
        BY <1>3, <3>2, AfterTail DEF RunServer
      <3>3. CASE server_strand_' = server_strand_
        BY <1>3, <3>3
      <3>4. \A x \in ServerItem(Came) :
                Append(server_strand_, x) \in Seq(ServerItem(Came))
        BY <1>3, AfterAppend
      <3> QED BY <3>1, <3>2, <3>3, <3>4 DEF ServerMoves
    <2> QED BY <1>2, <2>1, Wider
  <1>6. manager_strand' \in Seq(ManagerItem(Came'))
    <2>1. manager_strand' \in Seq(ManagerItem(Came))
      <3>1. ManagerMoves
        BY ManagerSteps
      <3>2. CASE RunManager
        BY <3>2, HeadItem
      <3>3. CASE RunServer
        <4>1. /\ server_strand_ # <<>>
              /\ manager_strand' = Append(manager_strand, Head(server_strand_))
          BY <3>3 DEF RunServer
        <4>2. Head(server_strand_) \in ServerItem(Came)
          BY <1>3, <4>1, AfterTail
        <4>3. Head(server_strand_) \in ManagerItem(Came)
          BY <4>2 DEF ManagerItem
        <4> QED BY <1>3, <4>1, <4>3, AfterAppend
      <3>4. CASE Quiet
        BY <1>3, <3>4 DEF Quiet, Grown
      <3>5. ASSUME NEW m \in Matches, RecordMatch(m)
            PROVE  manager_strand' \in Seq(ManagerItem(Came))
        BY <1>3, <3>5 DEF RecordMatch, strands
      <3>6. ASSUME NEW m \in Matches, \/ StartMatch(m) \/ FinishMatch(m)
                                      \/ \E u \in Users : ForfeitMatch(m, u)
            PROVE  manager_strand' \in Seq(ManagerItem(Came))
        BY <3>6, MatchStepsAdd DEF Grown
      <3> QED BY <3>1, <3>2, <3>3, <3>4, <3>5, <3>6 DEF ManagerMoves
    <2> QED BY <1>2, <2>1, Wider
  <1>7. IsFcn(uuid_strands_')
    BY StrandSteps
  <1> QED BY <1>4, <1>5, <1>6, <1>7, PoolTyped DEF QueueTypes, IsFcn

IsGhost(g) == g = [raced |-> g.raced, late |-> g.late, missed |-> g.missed]

LEMMA GhostSteps ==
    ASSUME Typed, [Next]_vars
    PROVE  /\ IsGhost(ghost')
           /\ RunManager => /\ ghost'.late = LateAfter(ItemHead)
                            /\ ghost'.missed = MissedAfter(ItemHead)
           /\ RunManager \/ (ghost'.late = ghost.late /\ ghost'.missed = ghost.missed)
           /\ ghost.raced \subseteq ghost'.raced
  <1>1. IsGhost(ghost)
    BY DEF Typed, OtherTypes, IsGhost
  <1>2. ASSUME NEW p, Mark(p)
        PROVE  /\ IsGhost(ghost') /\ ghost'.late = ghost.late
               /\ ghost'.missed = ghost.missed /\ ghost.raced \subseteq ghost'.raced
    BY <1>1, <1>2 DEF Mark, IsGhost
  <1>3. ASSUME RunManager
        PROVE  /\ IsGhost(ghost') /\ ghost'.late = LateAfter(ItemHead)
               /\ ghost'.missed = MissedAfter(ItemHead)
               /\ ghost.raced \subseteq ghost'.raced
    <2> DEFINE a == LateAfter(ItemHead)
               b == MissedAfter(ItemHead)
    <2>1. ghost' = [ghost EXCEPT !.late = a, !.missed = b]
      BY <1>3 DEF RunManager, ItemHead
    <2> HIDE DEF a, b
    <2>2. IsGhost(ghost') /\ ghost'.late = a /\ ghost'.missed = b
          /\ ghost'.raced = ghost.raced
      BY <1>1, <2>1 DEF IsGhost
    <2> QED BY <2>2 DEF a, b
  <1>4. ASSUME NEW u \in Users, OnStrand(u) PROVE ghost' = ghost \/ \E p : Mark(p)
    BY <1>4 DEF OnStrand, AuthBanned, AuthRefused, AuthGood, do_send_friend_request,
                AcceptFriend, DeclineFriend, Commit, Post, do_unban_user,
                do_fetch_new_matches, MarkIfRaced
  <1>5. ASSUME NEW s \in Sessions,
               \/ handle_accept(s) \/ LosePeer(s) \/ remove_session(s)
               \/ FetchMatchHistory(s)
               \/ \E u \in Users :
                    \/ Login(s, u) \/ Register(s, u)
                    \/ \E op \in ByName \cup ById : ChangeRelation(s, op, u)
        PROVE  ghost' = ghost
    BY <1>5 DEF handle_accept, LosePeer, remove_session, FetchMatchHistory, Login,
                Register, ChangeRelation
  <1>6. ASSUME NEW op, NEW x, Console(op, x) PROVE ghost' = ghost
    BY <1>6 DEF Console
  <1>7. ASSUME NEW j \in pool, \/ Lookup(j) \/ do_register(j) \/ do_ban_ip(j)
                               \/ do_unban_ip(j) \/ FailOnPool(j)
        PROVE  ghost' = ghost
    BY <1>7 DEF Lookup, do_register, do_ban_ip, do_unban_ip, FailOnPool, OffPool
  <1>8. ASSUME NEW m \in Matches,
               \/ StartMatch(m) \/ FinishMatch(m) \/ RecordMatch(m)
               \/ \E u \in Users : ForfeitMatch(m, u)
        PROVE  ghost' = ghost
    BY <1>8 DEF StartMatch, FinishMatch, RecordMatch, ForfeitMatch
  <1>9. ASSUME RunServer \/ UNCHANGED vars PROVE ghost' = ghost
    BY <1>9 DEF RunServer, vars
  <1>10. RunManager \/ ghost' = ghost \/ \E p : Mark(p)
    BY <1>4, <1>5, <1>6, <1>7, <1>8, <1>9 DEF Next, OnStrand
  <1> QED BY <1>1, <1>2, <1>3, <1>10

LEMMA MatchesTyped ==
    ASSUME Typed, [Next]_vars
    PROVE  /\ live_matches_' \in [Matches -> {"none", "live", "over", "recorded"}]
           /\ players' \in [Matches -> SUBSET Users]
  <1>1. /\ live_matches_ \in [Matches -> {"none", "live", "over", "recorded"}]
        /\ players \in [Matches -> SUBSET Users]
    BY DEF Typed, OtherTypes
  <1>2. CASE RunManager \/ RunServer \/ Quiet
    BY <1>1, <1>2 DEF RunManager, RunServer, Quiet, match_vars
  <1>3. ASSUME NEW m \in Matches, StartMatch(m) \/ FinishMatch(m) \/ RecordMatch(m)
        PROVE  /\ live_matches_' \in [Matches -> {"none", "live", "over", "recorded"}]
               /\ players' \in [Matches -> SUBSET Users]
    BY <1>1, <1>3 DEF StartMatch, FinishMatch, RecordMatch
  <1>4. ASSUME NEW m \in Matches, NEW u \in Users, ForfeitMatch(m, u)
        PROVE  /\ live_matches_' \in [Matches -> {"none", "live", "over", "recorded"}]
               /\ players' \in [Matches -> SUBSET Users]
    BY <1>1, <1>4 DEF ForfeitMatch
  <1> QED BY <1>2, <1>3, <1>4, ManagerSteps DEF ManagerMoves

LEMMA TypedStep ==
    ASSUME Typed, [Next]_vars
    PROVE  Typed'
  <1>1. OtherTypes'
    BY StrandSteps, MatchesTyped, GhostSteps DEF OtherTypes, IsGhost
  <1> QED BY <1>1, ConnectionTypes, TablesTyped, QueuesTyped DEF Typed

\* At the start everybody who is logged in is known, with that session.
LEMMA AtTheStart ==
    ASSUME Init
    PROVE  /\ Typed
           /\ \A s \in Sessions : session[s].user_data_ # Nobody =>
                /\ s \in DOMAIN sid_to_uuid_ /\ sid_to_uuid_[s] = session[s].user_data_
                /\ session[s].state = "open" /\ session[s].user_data_ \in DOMAIN users_
                /\ users_[session[s].user_data_].current_session = s
           /\ \A u \in DOMAIN users_ :
                /\ users_[u].current_session \in Sessions
                /\ session[users_[u].current_session].user_data_ = u
                /\ users_[u].current_match = Nobody
           /\ \A u \in db.bans : u \notin DOMAIN users_
  <1> PICK start \in Starts :
        /\ session = [s \in Sessions |->
                        LET in == s \in DOMAIN start.online
                        IN  [state |-> IF in THEN "open" ELSE "off",
                             user_data_ |-> IF in THEN start.online[s] ELSE Nobody,
                             called_register_ |-> FALSE, has_new_matches_ |-> TRUE]]
        /\ db = start.db
        /\ server_strand_ = <<>> /\ pool = {} /\ manager_strand = <<>>
        /\ uuid_strands_ = [u \in Users |-> <<>>]
        /\ stage = [u \in Users |-> "begin"]
        /\ sid_to_uuid_ = start.online
        /\ users_ = [u \in Range(start.online) |->
                       User(CHOOSE s \in DOMAIN start.online : start.online[s] = u, Nobody,
                            FriendsOf(u), BlocksOf(u))]
        /\ live_matches_ =
                [m \in Matches |-> IF m \in start.forfeited THEN "live" ELSE "none"]
        /\ players = [m \in Matches |-> IF m \in start.forfeited THEN {} ELSE Users]
        /\ ghost = [raced |-> {}, late |-> {}, missed |-> {}]
    BY DEF Init
  <1> DEFINE online == start.online
  <1>1. /\ Nobody \notin Users \cup Sessions \cup Matches /\ start.db \in Tables
        /\ \A s, r \in DOMAIN online : online[s] = online[r] => s = r
    BY UsersAssumption
  <1>2. PICK S \in SUBSET Sessions : online \in [S -> start.db.accounts \ start.db.bans]
    BY UsersAssumption
  <1>3. /\ DOMAIN online \subseteq Sessions
        /\ \A s \in DOMAIN online : online[s] \in Users /\ online[s] \notin start.db.bans
        /\ online \in [DOMAIN online -> Users]
    BY <1>1, <1>2 DEF Tables
  <1>4. /\ session \in [Sessions -> Sess]
        /\ \A s \in Sessions :
            /\ s \in DOMAIN online => session[s].state = "open"
                                      /\ session[s].user_data_ = online[s]
            /\ s \notin DOMAIN online => session[s].state = "off"
                                         /\ session[s].user_data_ = Nobody
    BY <1>3 DEF Sess
  <1>5. /\ DOMAIN users_ = Range(online)
        /\ \A u \in Range(online) :
            users_[u] = User(CHOOSE s \in DOMAIN online : online[s] = u, Nobody,
                             FriendsOf(u), BlocksOf(u))
    OBVIOUS
  <1> HIDE DEF online
  <1>6. \A u \in Range(online) :
            /\ users_[u] \in UserRec /\ users_[u].current_session \in DOMAIN online
            /\ online[users_[u].current_session] = u /\ users_[u].current_match = Nobody
    <2> SUFFICES ASSUME NEW u \in Range(online)
                 PROVE  /\ users_[u] \in UserRec
                        /\ users_[u].current_session \in DOMAIN online
                        /\ online[users_[u].current_session] = u
                        /\ users_[u].current_match = Nobody
      OBVIOUS
    <2> DEFINE s == CHOOSE s \in DOMAIN online : online[s] = u
    <2>1. s \in DOMAIN online /\ online[s] = u
      BY DEF Range
    <2> HIDE DEF s
    <2>2. FriendsOf(u) \subseteq Users /\ BlocksOf(u) \subseteq Users
      BY DEF FriendsOf, BlocksOf
    <2>3. users_[u] = User(s, Nobody, FriendsOf(u), BlocksOf(u))
      BY <1>5 DEF s
    <2>4. s \in Sessions
      BY <1>3, <2>1
    <2>5. \A a, b \in SUBSET Users : LET x == User(s, Nobody, a, b) IN
             x \in UserRec /\ x.current_session = s /\ x.current_match = Nobody
      BY <2>4 DEF User, UserRec
    <2>6. /\ users_[u] \in UserRec /\ users_[u].current_session = s
          /\ users_[u].current_match = Nobody
      BY <2>2, <2>3, <2>5
    <2> QED BY <2>1, <2>6
  <1>7. /\ \A u \in Range(online) : u \in Users /\ u \notin start.db.bans
        /\ \A s \in DOMAIN online : online[s] \in Range(online)
    BY <1>3 DEF Range
  <1>8. IsUsers(users_) /\ IsSids(sid_to_uuid_)
    <2>1. sid_to_uuid_ = online /\ users_ = [u \in DOMAIN users_ |-> users_[u]]
      BY DEF online
    <2> QED BY <1>3, <1>5, <1>6, <1>7, <2>1 DEF IsUsers, IsSids
  <1>9. Typed
    <2>1. SessionTypes
      BY <1>3, <1>4 DEF SessionTypes
    <2>2. QueueTypes
      BY DEF QueueTypes
    <2>3. OtherTypes
      BY DEF OtherTypes
    <2>4. ManagerTypes
      BY <1>8 DEF ManagerTypes
    <2> QED BY <1>1, <2>1, <2>2, <2>3, <2>4 DEF Typed
  <1>10. \A s \in Sessions : session[s].user_data_ # Nobody =>
                /\ s \in DOMAIN sid_to_uuid_ /\ sid_to_uuid_[s] = session[s].user_data_
                /\ session[s].state = "open" /\ session[s].user_data_ \in DOMAIN users_
                /\ users_[session[s].user_data_].current_session = s
    <2> SUFFICES ASSUME NEW s \in Sessions, session[s].user_data_ # Nobody
                 PROVE  /\ s \in DOMAIN sid_to_uuid_
                        /\ sid_to_uuid_[s] = session[s].user_data_
                        /\ session[s].state = "open"
                        /\ session[s].user_data_ \in DOMAIN users_
                        /\ users_[session[s].user_data_].current_session = s
      OBVIOUS
    <2>1. sid_to_uuid_ = online
      BY DEF online
    <2>2. /\ s \in DOMAIN online /\ session[s].state = "open"
          /\ session[s].user_data_ = online[s]
      BY <1>4
    <2>3. online[s] \in Range(online)
      BY <1>7, <2>2
    <2>4. /\ users_[online[s]].current_session \in DOMAIN online
          /\ online[users_[online[s]].current_session] = online[s]
      BY <1>6, <2>3
    <2>5. users_[online[s]].current_session = s
      BY <1>1, <2>2, <2>4
    <2> QED BY <1>5, <2>1, <2>2, <2>3, <2>5
  <1>11. \A u \in DOMAIN users_ :
                /\ users_[u].current_session \in Sessions
                /\ session[users_[u].current_session].user_data_ = u
                /\ users_[u].current_match = Nobody
    BY <1>3, <1>4, <1>5, <1>6
  <1>12. \A u \in db.bans : u \notin DOMAIN users_
    BY <1>5, <1>7
  <1> QED BY <1>9, <1>10, <1>11, <1>12

-----------------------------------------------------------------------------
(* Who is logged in where.                                                 *)

\* Not only at rest: on_login closes the connection it replaces in the same handler.
Attached ==
    \A s \in Sessions : session[s].state = "open" /\ session[s].user_data_ # Nobody =>
        /\ session[s].user_data_ \in DOMAIN users_
        /\ users_[session[s].user_data_].current_session = s

LEMMA AttachedStep ==
    ASSUME Typed, Attached, [Next]_vars
    PROVE  Attached'
  <1>1. /\ session \in [Sessions -> Sess] /\ IsUsers(users_) /\ Nobody \notin Users
        /\ \A s \in Sessions : session[s].state = "off" => session[s].user_data_ = Nobody
    BY UsersAssumption DEF Typed, SessionTypes, ManagerTypes
  <1> SUFFICES ASSUME NEW s \in Sessions, session'[s].state = "open",
                      session'[s].user_data_ # Nobody
               PROVE  /\ session'[s].user_data_ \in DOMAIN users_'
                      /\ users_'[session'[s].user_data_].current_session = s
    BY DEF Attached
  <1> DEFINE u == session[s].user_data_
             h == ItemHead
  <1>2. ASSUME session[s].state = "open", u # Nobody
        PROVE  u \in DOMAIN users_ /\ users_[u].current_session = s
    BY <1>2 DEF Attached
  <1>3. CASE Beside
    BY <1>1, <1>2, <1>3 DEF Beside, Moves
  <1>4. CASE RunManager /\ h.op = "login" /\ LoginEffect(h)
    <2>1. CASE s = h.s
      BY <1>4, <2>1 DEF LoginEffect
    <2>2. CASE s # h.s
      <3>1. session'[s].user_data_ = u /\ session[s].state = "open"
        BY <1>4, <2>2 DEF LoginEffect
      <3>2. u \in DOMAIN users_ /\ users_[u].current_session = s
        BY <1>2, <3>1
      <3>3. u # h.u
        BY <1>4, <3>1, <3>2 DEF LoginEffect
      <3> QED BY <1>4, <3>1, <3>2, <3>3 DEF LoginEffect, SamePlace
    <2> QED BY <2>1, <2>2
  <1>5. CASE RunManager /\ GoneEffect(h)
    <2>1. session'[s].user_data_ = u /\ session[s].state = "open" /\ s # h.s
      BY <1>5 DEF GoneEffect
    <2>2. u \in DOMAIN users_ /\ users_[u].current_session = s
      BY <1>2, <2>1
    <2>3. ~Leaves(u, h)
      BY <2>1, <2>2 DEF Leaves
    <2> QED BY <1>5, <2>1, <2>2, <2>3 DEF GoneEffect, SamePlace
  <1>6. CASE RunManager /\ (StartEffect(h) \/ ListEffect)
    BY <1>2, <1>6 DEF StartEffect, ListEffect, SameConnections, SameSession, SamePlace
  <1>7. CASE RunManager /\ FinishEffect(h)
    <2>1. session'[s].user_data_ = u /\ session[s].state = "open"
      BY <1>7 DEF FinishEffect, SameConnections, SameSession
    <2>2. u \in DOMAIN users_ /\ users_[u].current_session = s
      BY <1>2, <2>1
    <2>3. ~Away(u)
      BY <2>1, <2>2, UsersAssumption DEF Away
    <2> QED BY <1>7, <2>1, <2>2, <2>3 DEF FinishEffect, SamePlace
  <1>8. CASE RunManager /\ BanEffect(h)
    <2>1. session'[s].user_data_ = u /\ session[s].state = "open"
      BY <1>8 DEF BanEffect
    <2>2. u \in DOMAIN users_ /\ users_[u].current_session = s
      BY <1>2, <2>1
    <2>3. u # h.to
      BY <1>8, <2>1, <2>2 DEF BanEffect
    <2> QED BY <1>8, <2>1, <2>2, <2>3 DEF BanEffect, SamePlace
  <1> QED BY <1>3, <1>4, <1>5, <1>6, <1>7, <1>8, BesideSteps, ManagerEffect

\* The types of everything the UserManager, the Server and the Database keep here: a
\* job names an accepted connection, the jobs of a user's strand are the user's own
\* logins and bans, and what is read from users_ and sid_to_uuid_ is of its type.
THEOREM TypeCorrect == Spec => []Typed
  <1>1. Init => Typed
    BY AtTheStart
  <1>2. Typed /\ [Next]_vars => Typed'
    BY TypedStep
  <1> QED BY <1>1, <1>2, PTL DEF Spec

\* An open connection that is logged in is the user's current session, whatever logins
\* and disconnects of the user overlap: on_login closes the connection it replaces,
\* and disconnect leaves a user alone whom another connection has taken over.
THEOREM ConnectionsAreCurrent == Spec => []SessionsAreKnown
  <1>1. Init => Attached
    BY AtTheStart DEF Attached
  <1>2. Typed /\ Attached /\ [Next]_vars => Attached'
    BY AttachedStep
  <1>3. Attached => SessionsAreKnown
    BY DEF Attached, SessionsAreKnown
  <1> QED BY <1>1, <1>2, <1>3, TypeCorrect, PTL DEF Spec

-----------------------------------------------------------------------------
(* Bans.                                                                   *)

\* A login or a ban of user u.
About(x, u) == (x.op = "login" /\ x.u = u) \/ (x.op = "ban" /\ x.to = u)

NoneAbout(q, u) == \A i \in 1 .. Len(q) : ~About(q[i], u)

BanIsLast(q, u) ==
    \E i \in 1 .. Len(q) :
        /\ q[i].op = "ban" /\ q[i].to = u
        /\ \A k \in 1 .. Len(q) : k > i => ~About(q[k], u)

LEMMA AboutAdds ==
    ASSUME NEW q, NEW p, NEW N, Adds(q, p, N), NEW u, \A x \in N : ~About(x, u)
    PROVE  /\ NoneAbout(q, u) => NoneAbout(p, u)
           /\ BanIsLast(q, u) => BanIsLast(p, u)
  <1>1. /\ Len(q) \in Nat /\ Len(p) \in Nat /\ Len(q) <= Len(p)
        /\ \A i \in 1 .. Len(q) : p[i] = q[i]
        /\ \A i \in 1 .. Len(p) : i > Len(q) => ~About(p[i], u)
    BY DEF Adds
  <1>2. ASSUME NEW i \in 1 .. Len(q), NEW k \in 1 .. Len(p)
        PROVE  i \in 1 .. Len(p) /\ (k \in 1 .. Len(q) \/ k > Len(q))
    BY <1>1
  <1>3. ASSUME NoneAbout(q, u) PROVE NoneAbout(p, u)
    <2> SUFFICES ASSUME NEW k \in 1 .. Len(p) PROVE ~About(p[k], u)
      BY DEF NoneAbout
    <2>1. k \in 1 .. Len(q) \/ k > Len(q)
      BY <1>1
    <2> QED BY <1>1, <1>3, <2>1 DEF NoneAbout
  <1>4. ASSUME BanIsLast(q, u) PROVE BanIsLast(p, u)
    <2>1. PICK i \in 1 .. Len(q) :
                /\ q[i].op = "ban" /\ q[i].to = u
                /\ \A k \in 1 .. Len(q) : k > i => ~About(q[k], u)
      BY <1>4 DEF BanIsLast
    <2>2. \A k \in 1 .. Len(p) : k > i => ~About(p[k], u)
      BY <1>1, <1>2, <2>1
    <2>3. p[i].op = "ban" /\ p[i].to = u /\ i \in 1 .. Len(p)
      <3>1. p[i] = q[i]
        BY <1>1
      <3>2. i \in 1 .. Len(p)
        BY <1>1
      <3> QED BY <2>1, <3>1, <3>2
    <2> QED BY <2>2, <2>3 DEF BanIsLast
  <1> QED BY <1>3, <1>4

LEMMA AboutAppend ==
    ASSUME NEW S, NEW q \in Seq(S), NEW x \in S, NEW u
    PROVE  /\ x.op = "ban" /\ x.to = u => BanIsLast(Append(q, x), u)
           /\ ~About(x, u) /\ NoneAbout(q, u) => NoneAbout(Append(q, x), u)
           /\ ~About(x, u) /\ BanIsLast(q, u) => BanIsLast(Append(q, x), u)
  <1> DEFINE p == Append(q, x)
  <1>1. Adds(q, p, {x})
    BY AppendAdds
  <1>2. Len(q) \in Nat /\ Len(p) = Len(q) + 1 /\ p[Len(q) + 1] = x
    BY AfterAppend
  <1> HIDE DEF p
  <1>3. ASSUME x.op = "ban", x.to = u PROVE BanIsLast(p, u)
    <2> DEFINE n == Len(q) + 1
    <2>1. n \in 1 .. Len(p) /\ \A k \in 1 .. Len(p) : ~(k > n)
      BY <1>2
    <2> HIDE DEF n
    <2> QED BY <1>2, <1>3, <2>1 DEF BanIsLast, n
  <1>4. ASSUME ~About(x, u)
        PROVE  /\ NoneAbout(q, u) => NoneAbout(p, u)
               /\ BanIsLast(q, u) => BanIsLast(p, u)
    <2>1. \A y \in {x} : ~About(y, u)
      BY <1>4
    <2> QED BY <1>1, <2>1, AboutAdds
  <1> QED BY <1>3, <1>4 DEF p

LEMMA AboutTail ==
    ASSUME NEW S, NEW q \in Seq(S), q # <<>>, NEW u
    PROVE  /\ NoneAbout(q, u) => NoneAbout(Tail(q), u) /\ ~About(Head(q), u)
           /\ BanIsLast(q, u) =>
                \/ BanIsLast(Tail(q), u)
                \/ NoneAbout(Tail(q), u) /\ Head(q).op = "ban" /\ Head(q).to = u
  <1> DEFINE t == Tail(q)
             h == Head(q)
  <1>1. /\ h = q[1] /\ Len(q) \in Nat \ {0} /\ Len(t) = Len(q) - 1
        /\ \A i \in 1 .. Len(t) : t[i] = q[i + 1]
    BY AfterTail
  <1> HIDE DEF t, h
  <1>2. \A i \in 1 .. Len(t) : i + 1 \in 1 .. Len(q) /\ i + 1 > 1
    BY <1>1
  <1>3. ASSUME NoneAbout(q, u) PROVE NoneAbout(t, u) /\ ~About(h, u)
    <2>1. 1 \in 1 .. Len(q)
      BY <1>1
    <2> QED BY <1>1, <1>2, <1>3, <2>1 DEF NoneAbout
  <1>4. ASSUME BanIsLast(q, u)
        PROVE  BanIsLast(t, u) \/ (NoneAbout(t, u) /\ h.op = "ban" /\ h.to = u)
    <2>1. PICK i \in 1 .. Len(q) :
                /\ q[i].op = "ban" /\ q[i].to = u
                /\ \A k \in 1 .. Len(q) : k > i => ~About(q[k], u)
      BY <1>4 DEF BanIsLast
    <2>2. CASE i = 1
      BY <1>1, <1>2, <2>1, <2>2 DEF NoneAbout
    <2>3. CASE i # 1
      <3> DEFINE b == i - 1
      <3>1. b \in 1 .. Len(t) /\ b + 1 = i
        BY <1>1, <2>3
      <3>2. \A k \in 1 .. Len(t) : k > b => k + 1 \in 1 .. Len(q) /\ k + 1 > i
        BY <1>1
      <3> HIDE DEF b
      <3>3. t[b].op = "ban" /\ t[b].to = u
        BY <1>1, <2>1, <3>1
      <3>4. \A k \in 1 .. Len(t) : k > b => ~About(t[k], u)
        BY <1>1, <2>1, <3>2
      <3> QED BY <3>1, <3>3, <3>4 DEF BanIsLast
    <2> QED BY <2>2, <2>3
  <1> QED BY <1>3, <1>4 DEF t, h

\* The ban is in the tables, and the job is about to tell the server.
Committing(u) ==
    uuid_strands_[u] # <<>> /\ stage[u] = "committed" /\ Head(uuid_strands_[u]).op = "ban"

\* Of the logins and bans of u that are on their way the last is a ban, or there is
\* none and u is out.
WillLeave(u) ==
    \/ BanIsLast(server_strand_, u)
    \/ /\ NoneAbout(server_strand_, u)
       /\ \/ BanIsLast(manager_strand, u)
          \/ NoneAbout(manager_strand, u) /\ u \notin DOMAIN users_

Barred == \A u \in db.bans : Committing(u) \/ WillLeave(u)

LEMMA BansKept ==
    ASSUME NEW d \in Tables, NEW j
    PROVE  /\ friend_request(d, j).bans = d.bans /\ delete_friend_request(d, j).bans = d.bans
           /\ accept_friend(d, j).bans = d.bans /\ remove_friend(d, j).bans = d.bans
           /\ block_user(d, j).bans = d.bans /\ unblock_user(d, j).bans = d.bans
           /\ ban_user(d, j).bans = d.bans \cup {j.to}
  <1>1. /\ friend_request(d, j).bans = d.bans /\ delete_friend_request(d, j).bans = d.bans
        /\ remove_friend(d, j).bans = d.bans /\ unblock_user(d, j).bans = d.bans
        /\ ban_user(d, j).bans = d.bans \cup {j.to}
    BY DEF friend_request, delete_friend_request, remove_friend, unblock_user, ban_user,
           Tables
  <1>2. accept_friend(d, j).bans = d.bans
    BY DEF accept_friend, delete_friend_request, Tables
  <1>3. block_user(d, j).bans = d.bans
    BY DEF block_user, remove_friend, Tables
  <1> QED BY <1>1, <1>2, <1>3

LEMMA BanSteps ==
    ASSUME Typed, [Next]_vars, NEW u \in db'.bans, u \notin db.bans
    PROVE  Committing(u)'
  <1>1. db \in Tables /\ pool \subseteq PoolJob(Came) /\ Came \in SUBSET Sessions
        /\ stage \in [Users -> {"begin", "tested", "found", "posted", "committed"}]
    BY DEF Typed, QueueTypes, Came, OtherTypes
  <1>3. ASSUME NEW j \in pool, \/ Lookup(j) \/ do_register(j) \/ do_ban_ip(j)
                               \/ do_unban_ip(j) \/ FailOnPool(j)
        PROVE  db'.bans = db.bans
    BY <1>1, <1>3 DEF Lookup, do_register, do_ban_ip, do_unban_ip, FailOnPool, Tables
  <1>4. ASSUME NEW v \in Users,
               do_send_friend_request(v) \/ AcceptFriend(v) \/ DeclineFriend(v)
        PROVE  db'.bans = db.bans
    <2> DEFINE j == Head(uuid_strands_[v])
    <2>1. \/ db' = db \/ db' = friend_request(db, j) \/ db' = accept_friend(db, j)
          \/ db' = delete_friend_request(db, j)
      BY <1>4 DEF do_send_friend_request, AcceptFriend, DeclineFriend
    <2> HIDE DEF j
    <2>2. /\ friend_request(db, j).bans = db.bans /\ accept_friend(db, j).bans = db.bans
          /\ delete_friend_request(db, j).bans = db.bans
      BY <1>1, BansKept
    <2> QED BY <2>1, <2>2
  <1>5. ASSUME NEW v \in Users, do_unban_user(v) PROVE db'.bans \subseteq db.bans
    BY <1>1, <1>5 DEF do_unban_user, Tables
  <1>6. ASSUME NEW v \in Users, Commit(v) PROVE Committing(u)'
    <2> DEFINE j == Head(uuid_strands_[v])
    <2>1. /\ uuid_strands_[v] # <<>> /\ j.op \in Changes
          /\ \/ /\ GoOn(v, "committed")
                /\ db' = CASE j.op = "block" -> block_user(db, j)
                           [] j.op = "unblock" -> unblock_user(db, j)
                           [] j.op = "remove" -> remove_friend(db, j)
                           [] j.op = "ban" -> ban_user(db, j)
             \/ db' = db
      BY <1>6 DEF Commit, At
    <2>2. j \in StrandJob(v, Came)
      BY <2>1, HeadJob
    <2>3. j.op = "ban" => j.to = v
      BY <1>1, <2>2, JobFields
    <2>4. j.op = "ban" /\ j.to = u /\ GoOn(v, "committed")
      <3>1. \/ db' = db \/ db' = block_user(db, j) \/ db' = unblock_user(db, j)
            \/ db' = remove_friend(db, j)
            \/ j.op = "ban" /\ GoOn(v, "committed") /\ db' = ban_user(db, j)
        BY <2>1 DEF Changes
      <3> HIDE DEF j
      <3>2. /\ block_user(db, j).bans = db.bans /\ unblock_user(db, j).bans = db.bans
            /\ remove_friend(db, j).bans = db.bans
            /\ ban_user(db, j).bans = db.bans \cup {j.to}
        BY <1>1, BansKept
      <3>3. \/ db'.bans = db.bans
            \/ /\ j.op = "ban" /\ GoOn(v, "committed")
               /\ db'.bans = db.bans \cup {j.to}
        BY <3>1, <3>2
      <3> QED BY <3>3
    <2>5. stage'[v] = "committed" /\ uuid_strands_' = uuid_strands_
      BY <1>1, <2>4 DEF GoOn
    <2> QED BY <2>1, <2>3, <2>4, <2>5 DEF Committing
  <1>7. ASSUME NEW v \in Users, AuthBanned(v) \/ AuthRefused(v) \/ AuthGood(v) \/ Post(v)
                                \/ do_fetch_new_matches(v)
        PROVE  db' = db
    BY <1>7 DEF AuthBanned, AuthRefused, AuthGood, Post, do_fetch_new_matches
  <1>8. ASSUME NEW s \in Sessions,
               \/ handle_accept(s) \/ LosePeer(s) \/ remove_session(s)
               \/ FetchMatchHistory(s)
               \/ \E v \in Users :
                    \/ Login(s, v) \/ Register(s, v)
                    \/ \E op \in ByName \cup ById : ChangeRelation(s, op, v)
        PROVE  db' = db
    BY <1>8 DEF handle_accept, LosePeer, remove_session, FetchMatchHistory, Login,
                Register, ChangeRelation
  <1>9. ASSUME NEW op, NEW x, Console(op, x) PROVE db' = db
    BY <1>9 DEF Console
  <1>10. ASSUME NEW m \in Matches,
                \/ StartMatch(m) \/ FinishMatch(m) \/ RecordMatch(m)
                \/ \E v \in Users : ForfeitMatch(m, v)
         PROVE  db' = db
    BY <1>10 DEF StartMatch, FinishMatch, RecordMatch, ForfeitMatch
  <1>11. ASSUME RunServer \/ RunManager \/ UNCHANGED vars PROVE db' = db
    BY <1>11 DEF RunServer, RunManager, vars
  <1> QED BY <1>3, <1>4, <1>5, <1>6, <1>7, <1>8, <1>9, <1>10, <1>11 DEF Next

\* Only Post ends what Commit has begun.
LEMMA CommittingStep ==
    ASSUME Typed, [Next]_vars, NEW u \in Users, Committing(u)
    PROVE  Committing(u)' \/ Post(u)
  <1>1. uuid_strands_[u] \in Seq(StrandJob(u, Came))
    BY DEF Typed, QueueTypes
  <1>2. StrandMoves(u)
    BY StrandSteps
  <1>3. CASE OnStrand(u)
    BY <1>3 DEF Committing, OnStrand, AuthBanned, AuthRefused, AuthGood,
                do_send_friend_request, AcceptFriend, DeclineFriend, Commit, do_unban_user,
                do_fetch_new_matches, At
  <1>4. CASE /\ stage'[u] = stage[u]
             /\ Grows(uuid_strands_[u], uuid_strands_'[u], StrandJob(u, Came))
    <2>1. /\ uuid_strands_'[u] # <<>>
          /\ Head(uuid_strands_'[u]) = Head(uuid_strands_[u])
      BY <1>1, <1>4, AfterAppend DEF Grows, Committing
    <2> QED BY <1>4, <2>1 DEF Committing
  <1> QED BY <1>2, <1>3, <1>4 DEF StrandMoves

LEMMA WillLeaveStep ==
    ASSUME Typed, [Next]_vars, NEW u \in db.bans, WillLeave(u)
    PROVE  WillLeave(u)'
  <1>1. /\ server_strand_ \in Seq(ServerItem(Came))
        /\ manager_strand \in Seq(ManagerItem(Came))
        /\ ServerItem(Came) \subseteq ManagerItem(Came)
    BY DEF Typed, QueueTypes, ManagerItem
  <1>2. CASE RunServer
    <2> DEFINE x == Head(server_strand_)
    <2>1. /\ server_strand_ # <<>> /\ server_strand_' = Tail(server_strand_)
          /\ manager_strand' = Append(manager_strand, x) /\ users_' = users_
      BY <1>2 DEF RunServer, manager
    <2>2. x \in ManagerItem(Came)
      BY <1>1, <2>1, AfterTail
    <2>3. /\ NoneAbout(server_strand_, u) => NoneAbout(server_strand_', u) /\ ~About(x, u)
          /\ BanIsLast(server_strand_, u) =>
                \/ BanIsLast(server_strand_', u)
                \/ NoneAbout(server_strand_', u) /\ x.op = "ban" /\ x.to = u
      BY <1>1, <2>1, AboutTail
    <2> HIDE DEF x
    <2>4. /\ x.op = "ban" /\ x.to = u => BanIsLast(manager_strand', u)
          /\ ~About(x, u) /\ NoneAbout(manager_strand, u) => NoneAbout(manager_strand', u)
          /\ ~About(x, u) /\ BanIsLast(manager_strand, u) => BanIsLast(manager_strand', u)
      BY <1>1, <2>1, <2>2, AboutAppend
    <2> QED BY <2>1, <2>3, <2>4 DEF WillLeave
  <1>3. CASE RunManager
    <2> DEFINE h == ItemHead
    <2>1. /\ manager_strand # <<>> /\ manager_strand' = Tail(manager_strand)
          /\ server_strand_' = server_strand_
      BY <1>3 DEF RunManager
    <2>2. /\ NoneAbout(manager_strand, u) => NoneAbout(manager_strand', u) /\ ~About(h, u)
          /\ BanIsLast(manager_strand, u) =>
                \/ BanIsLast(manager_strand', u)
                \/ NoneAbout(manager_strand', u) /\ h.op = "ban" /\ h.to = u
      BY <1>1, <2>1, AboutTail DEF ItemHead
    <2>3. h.op = "ban" /\ h.to = u => u \notin DOMAIN users_'
      BY <1>3, BanRuns DEF BanEffect
    <2>4. ~About(h, u) /\ u \notin DOMAIN users_ => u \notin DOMAIN users_'
      BY <1>3, ManagerEffect
         DEF LoginEffect, GoneEffect, StartEffect, FinishEffect, BanEffect, ListEffect, About
    <2> HIDE DEF h
    <2> QED BY <2>1, <2>2, <2>3, <2>4 DEF WillLeave
  <1>4. CASE ~RunServer /\ ~RunManager
    <2>1. users_' = users_
      BY <1>4, BesideSteps DEF Beside
    <2>2. \/ BanIsLast(server_strand_', u)
          \/ /\ NoneAbout(server_strand_, u) => NoneAbout(server_strand_', u)
             /\ BanIsLast(server_strand_, u) => BanIsLast(server_strand_', u)
      <3>1. CASE server_strand_' = server_strand_
        BY <3>1
      <3>2. ASSUME NEW x \in ServerItem(Came), server_strand_' = Append(server_strand_, x),
                   x.op = "login" => x.u \notin db.bans
            PROVE  \/ BanIsLast(server_strand_', u)
                   \/ /\ NoneAbout(server_strand_, u) => NoneAbout(server_strand_', u)
                      /\ BanIsLast(server_strand_, u) => BanIsLast(server_strand_', u)
        <4>1. (x.op = "ban" /\ x.to = u) \/ ~About(x, u)
          BY <3>2 DEF About
        <4> QED BY <1>1, <3>2, <4>1, AboutAppend
      <3> QED BY <1>4, <3>1, <3>2, ServerSteps DEF ServerMoves
    <2>3. /\ NoneAbout(manager_strand, u) => NoneAbout(manager_strand', u)
          /\ BanIsLast(manager_strand, u) => BanIsLast(manager_strand', u)
      <3> DEFINE N == ListItem \cup MatchItem
      <3>1. \A x \in N : ~About(x, u)
        BY DEF About, ListItem, MatchItem
      <3>2. manager_strand' = manager_strand \/ Adds(manager_strand, manager_strand', N)
        <4>1. ASSUME NEW M, M \subseteq N, Grown(M)
              PROVE  Adds(manager_strand, manager_strand', N)
          BY <4>1 DEF Grown, Adds
        <4>2. CASE Quiet
          BY <4>1, <4>2 DEF Quiet
        <4>3. ASSUME NEW m \in Matches, RecordMatch(m)
              PROVE  manager_strand' = manager_strand
          BY <4>3 DEF RecordMatch, strands
        <4>4. ASSUME NEW m \in Matches, \/ StartMatch(m) \/ FinishMatch(m)
                                        \/ \E v \in Users : ForfeitMatch(m, v)
              PROVE  Adds(manager_strand, manager_strand', N)
          <5>1. \E M : M \subseteq MatchItem /\ Grown(M)
            BY <4>4, MatchStepsAdd
          <5> QED BY <4>1, <5>1
        <4> QED BY <1>4, <4>2, <4>3, <4>4, ManagerSteps DEF ManagerMoves
      <3> HIDE DEF N
      <3> QED BY <3>1, <3>2, AboutAdds
    <2> QED BY <2>1, <2>2, <2>3 DEF WillLeave
  <1> QED BY <1>2, <1>3, <1>4

LEMMA BarredStep ==
    ASSUME Typed, Barred, [Next]_vars
    PROVE  Barred'
  <1> SUFFICES ASSUME NEW u \in db'.bans PROVE Committing(u)' \/ WillLeave(u)'
    BY DEF Barred
  <1>1. u \in Users
    BY TablesTyped DEF Tables
  <1>2. CASE u \notin db.bans
    BY <1>2, BanSteps
  <1>3. CASE u \in db.bans /\ WillLeave(u)
    BY <1>3, WillLeaveStep
  <1>4. CASE u \in db.bans /\ Committing(u)
    <2>1. Committing(u)' \/ Post(u)
      BY <1>1, <1>4, CommittingStep
    <2>2. CASE Post(u)
      <3> DEFINE j == Head(uuid_strands_[u])
      <3>1. /\ uuid_strands_[u] # <<>> /\ j.op = "ban"
            /\ server_strand_' = Append(server_strand_, j)
        BY <1>4, <2>2 DEF Post, Committing
      <3>2. j \in StrandJob(u, Came) /\ Came \in SUBSET Sessions
        BY <1>1, <3>1, HeadJob DEF Came
      <3> HIDE DEF j
      <3>3. j.to = u /\ j \in ServerItem(Came)
        BY <1>1, <3>1, <3>2, JobFields DEF ServerItem
      <3>4. server_strand_ \in Seq(ServerItem(Came))
        BY DEF Typed, QueueTypes
      <3> QED BY <3>1, <3>3, <3>4, AboutAppend DEF WillLeave
    <2> QED BY <2>1, <2>2
  <1> QED BY <1>2, <1>3, <1>4 DEF Barred

\* A banned user is out as soon as nothing is under way, however logins, bans and
\* removals were interleaved: the strand of the user orders the login's test of the
\* bans and the ban's commit, the server's strand the two messages to the UserManager.
THEOREM BannedUsersLeave == Spec => []BannedAreOut
  <1> DEFINE I == Typed /\ Attached /\ Barred
  <1>1. Init => I
    <2> SUFFICES ASSUME Init PROVE I
      OBVIOUS
    <2>1. server_strand_ = <<>> /\ manager_strand = <<>>
      BY DEF Init
    <2> QED BY <2>1, AtTheStart DEF Attached, Barred, WillLeave, NoneAbout
  <1>2. I /\ [Next]_vars => I'
    BY TypedStep, AttachedStep, BarredStep
  <1>3. I => BannedAreOut
    <2> SUFFICES ASSUME I, AtRest, NEW u \in db.bans
                 PROVE  /\ u \notin DOMAIN users_
                        /\ \A s \in Sessions : session[s].state = "open" =>
                                session[s].user_data_ # u
      BY DEF BannedAreOut
    <2>1. u \in Users /\ u # Nobody
      BY UsersAssumption DEF Typed, Tables
    <2>2. u \notin DOMAIN users_
      BY <2>1 DEF AtRest, Barred, Committing, WillLeave, BanIsLast
    <2> QED BY <2>1, <2>2 DEF Attached
  <1> QED BY <1>1, <1>2, <1>3, PTL DEF Spec

-----------------------------------------------------------------------------
(* Matches and the users who play them.                                    *)

\* The items that say nothing of a match.
Plain == {x \in ManagerItem(Came) : x.op \notin {"start", "finished"}}

PlainStep ==
    /\ live_matches_' = live_matches_ /\ players' = players
    /\ Adds(manager_strand, manager_strand', Plain)

AllTold ==
    \A u \in Users : \E i \in 1 .. Len(manager_strand') :
        i > Len(manager_strand) /\ manager_strand'[i].u = u

Starting(m) ==
    /\ live_matches_[m] = "none" /\ live_matches_' = [live_matches_ EXCEPT ![m] = "live"]
    /\ \A u \in Users, n \in Matches : live_matches_[n] = "live" => u \notin players[n]
    /\ players' = players
    /\ Adds(manager_strand, manager_strand', {x \in MatchItem : x.op = "start" /\ x.m = m})
    /\ AllTold

Finishing(m) ==
    /\ live_matches_[m] = "live" /\ live_matches_' = [live_matches_ EXCEPT ![m] = "over"]
    /\ players' = players
    /\ Adds(manager_strand, manager_strand',
            {x \in MatchItem : x.op = "finished" /\ x.m = m})
    /\ AllTold

Recording(m) ==
    /\ live_matches_[m] = "over" /\ live_matches_' = [live_matches_ EXCEPT ![m] = "recorded"]
    /\ players' = players /\ manager_strand' = manager_strand

Forfeiting(m, u) ==
    /\ live_matches_[m] = "live" /\ live_matches_' = live_matches_
    /\ players' = [players EXCEPT ![m] = @ \ {u}]
    /\ Adds(manager_strand, manager_strand',
            {x \in MatchItem : x.op = "finished" /\ x.m = m /\ x.u = u})

LEMMA MatchSteps ==
    ASSUME Typed, [Next]_vars
    PROVE  \/ RunManager /\ live_matches_' = live_matches_ /\ players' = players
           \/ PlainStep
           \/ \E m \in Matches :
                \/ Starting(m) \/ Finishing(m) \/ Recording(m)
                \/ \E u \in Users : Forfeiting(m, u)
  <1>1. /\ manager_strand \in Seq(ManagerItem(Came))
        /\ server_strand_ \in Seq(ServerItem(Came))
        /\ ServerItem(Came) \subseteq ManagerItem(Came)
    BY DEF Typed, QueueTypes, ManagerItem
  <1>2. CASE RunManager
    BY <1>2 DEF RunManager, match_vars
  <1>3. CASE RunServer
    <2> DEFINE x == Head(server_strand_)
    <2>1. /\ server_strand_ # <<>> /\ manager_strand' = Append(manager_strand, x)
          /\ live_matches_' = live_matches_ /\ players' = players
      BY <1>3 DEF RunServer, match_vars
    <2>2. x \in ServerItem(Came)
      BY <1>1, <2>1, AfterTail
    <2> HIDE DEF x
    <2>3. x \in Plain
      BY <1>1, <2>2 DEF Plain, ServerItem, LoginItem, GoneItem, BanItem
    <2>4. x \in ManagerItem(Came)
      BY <1>1, <2>2
    <2> QED BY <1>1, <2>1, <2>3, <2>4, AppendAdds DEF PlainStep
  <1>4. CASE Quiet
    <2>1. ListItem \subseteq Plain
      BY DEF Plain, ManagerItem, ListItem
    <2>2. Adds(manager_strand, manager_strand, Plain)
      BY <1>1 DEF Adds
    <2>3. Grown(ListItem) => Adds(manager_strand, manager_strand', Plain)
      BY <2>1 DEF Grown, Adds
    <2> QED BY <1>4, <2>2, <2>3 DEF Quiet, PlainStep
  <1>5. ASSUME NEW m \in Matches, StartMatch(m) PROVE Starting(m)
    BY <1>5, MatchStepsAdd DEF StartMatch, Starting, Grown, AllTold
  <1>6. ASSUME NEW m \in Matches, FinishMatch(m) PROVE Finishing(m)
    BY <1>6, MatchStepsAdd DEF FinishMatch, Finishing, Grown, AllTold
  <1>7. ASSUME NEW m \in Matches, RecordMatch(m) PROVE Recording(m)
    BY <1>7 DEF RecordMatch, Recording, strands
  <1>8. ASSUME NEW m \in Matches, NEW u \in Users, ForfeitMatch(m, u)
        PROVE  Forfeiting(m, u)
    BY <1>8, MatchStepsAdd DEF ForfeitMatch, Forfeiting, Grown
  <1> QED BY <1>2, <1>3, <1>4, <1>5, <1>6, <1>7, <1>8, ManagerSteps DEF ManagerMoves

IsStart(x, u) == x.op = "start" /\ x.u = u
IsFinish(x, u) == x.op = "finished" /\ x.u = u

Ends(q, u) == \E i \in 1 .. Len(q) : IsFinish(q[i], u)

\* The end of a match that is over is told after its start.
EndsFollow(q, L) ==
    \A i \in 1 .. Len(q) : q[i].op = "start" /\ L[q[i].m] # "live" =>
        \E k \in 1 .. Len(q) : k > i /\ IsFinish(q[k], q[i].u)

NoStart(q, u) == \A i \in 1 .. Len(q) : ~IsStart(q[i], u)
LastStart(q, u, m) ==
    \E i \in 1 .. Len(q) :
        /\ IsStart(q[i], u) /\ q[i].m = m
        /\ \A k \in 1 .. Len(q) : k > i => ~IsStart(q[k], u)

LEMMA OldAndNew ==
    ASSUME NEW q, NEW p, NEW N, Adds(q, p, N)
    PROVE  /\ \A i \in 1 .. Len(q) : i \in 1 .. Len(p) /\ p[i] = q[i] /\ ~(i > Len(q))
           /\ \A i \in 1 .. Len(p) : \/ i \in 1 .. Len(q)
                                     \/ i > Len(q) /\ p[i] \in N
           /\ \A i \in 1 .. Len(p) : \A k \in 1 .. Len(q) : i > Len(q) => i > k
  <1>1. /\ Len(q) \in Nat /\ Len(p) \in Nat /\ Len(q) <= Len(p)
        /\ \A i \in 1 .. Len(q) : p[i] = q[i]
        /\ \A i \in 1 .. Len(p) : i > Len(q) => p[i] \in N
    BY DEF Adds
  <1>2. \A i \in 1 .. Len(q) : i \in 1 .. Len(p) /\ ~(i > Len(q))
    BY <1>1
  <1>3. \A i \in 1 .. Len(p) : i \in 1 .. Len(q) \/ i > Len(q)
    BY <1>1
  <1>4. \A i \in 1 .. Len(p) : \A k \in 1 .. Len(q) : i > Len(q) => i > k
    BY <1>1
  <1> QED BY <1>1, <1>2, <1>3, <1>4

LEMMA MatchAdds ==
    ASSUME NEW q, NEW p, NEW N, Adds(q, p, N), NEW u
    PROVE  /\ Ends(q, u) => Ends(p, u)
           /\ (\A x \in N : ~IsStart(x, u)) =>
                /\ NoStart(q, u) => NoStart(p, u)
                /\ \A m : LastStart(q, u, m) => LastStart(p, u, m)
           /\ (\A x \in N : x.op # "start") =>
                \A L : EndsFollow(q, L) => EndsFollow(p, L)
  <1>1. /\ \A i \in 1 .. Len(q) : i \in 1 .. Len(p) /\ p[i] = q[i]
        /\ \A i \in 1 .. Len(p) : \/ i \in 1 .. Len(q)
                                  \/ i > Len(q) /\ p[i] \in N
    BY OldAndNew
  <1>2. Ends(q, u) => Ends(p, u)
    BY <1>1 DEF Ends
  <1>3. ASSUME \A x \in N : ~IsStart(x, u), NoStart(q, u) PROVE NoStart(p, u)
    BY <1>1, <1>3 DEF NoStart
  <1>4. ASSUME \A x \in N : ~IsStart(x, u), NEW m, LastStart(q, u, m)
        PROVE  LastStart(p, u, m)
    BY <1>1, <1>4 DEF LastStart
  <1>5. ASSUME \A x \in N : x.op # "start", NEW L, EndsFollow(q, L) PROVE EndsFollow(p, L)
    <2> SUFFICES ASSUME NEW i \in 1 .. Len(p), p[i].op = "start", L[p[i].m] # "live"
                 PROVE  \E k \in 1 .. Len(p) : k > i /\ IsFinish(p[k], p[i].u)
      BY DEF EndsFollow
    <2>1. i \in 1 .. Len(q) /\ p[i] = q[i]
      BY <1>1, <1>5
    <2>2. PICK k \in 1 .. Len(q) : k > i /\ IsFinish(q[k], q[i].u)
      BY <1>5, <2>1 DEF EndsFollow
    <2>3. k \in 1 .. Len(p) /\ p[k] = q[k]
      BY <1>1
    <2> QED BY <2>1, <2>2, <2>3
  <1> QED BY <1>2, <1>3, <1>4, <1>5

LEMMA MatchTail ==
    ASSUME NEW S, NEW q \in Seq(S), q # <<>>, NEW u
    PROVE  /\ Ends(q, u) /\ ~IsFinish(Head(q), u) => Ends(Tail(q), u)
           /\ NoStart(q, u) => NoStart(Tail(q), u) /\ ~IsStart(Head(q), u)
           /\ \A m : LastStart(q, u, m) =>
                \/ LastStart(Tail(q), u, m)
                \/ NoStart(Tail(q), u) /\ IsStart(Head(q), u) /\ Head(q).m = m
           /\ \A L : EndsFollow(q, L) =>
                /\ EndsFollow(Tail(q), L)
                /\ IsStart(Head(q), u) /\ L[Head(q).m] # "live" => Ends(Tail(q), u)
  <1> DEFINE t == Tail(q)
             h == Head(q)
  <1>1. /\ h = q[1] /\ Len(q) \in Nat \ {0} /\ Len(t) = Len(q) - 1
        /\ \A i \in 1 .. Len(t) : t[i] = q[i + 1]
    BY AfterTail
  <1> HIDE DEF t, h
  <1>2. \A i \in 1 .. Len(t) : i + 1 \in 1 .. Len(q) /\ i + 1 > 1
    BY <1>1
  <1>3. 1 \in 1 .. Len(q)
    BY <1>1
  <1>4. \A i \in 1 .. Len(q) : i = 1 \/ \E b \in 1 .. Len(t) : i = b + 1
    <2> SUFFICES ASSUME NEW i \in 1 .. Len(q), i # 1
                 PROVE  \E b \in 1 .. Len(t) : i = b + 1
      OBVIOUS
    <2>1. i - 1 \in 1 .. Len(t) /\ i = (i - 1) + 1
      BY <1>1
    <2> QED BY <2>1
  <1>5. \A i, k \in 1 .. Len(t) : k > i <=> k + 1 > i + 1
    BY <1>1
  <1>6. \A k \in 1 .. Len(q) : k > 1 => k # 1
    BY <1>1
  <1>7. ASSUME Ends(q, u), ~IsFinish(h, u) PROVE Ends(t, u)
    <2>1. PICK i \in 1 .. Len(q) : IsFinish(q[i], u)
      BY <1>7 DEF Ends
    <2>2. i # 1
      BY <1>1, <1>7, <2>1
    <2>3. PICK b \in 1 .. Len(t) : i = b + 1
      BY <1>4, <2>2
    <2>4. IsFinish(t[b], u)
      BY <1>1, <2>1, <2>3
    <2> QED BY <2>4 DEF Ends
  <1>8. ASSUME NoStart(q, u) PROVE NoStart(t, u) /\ ~IsStart(h, u)
    BY <1>1, <1>2, <1>3, <1>8 DEF NoStart
  <1>9. ASSUME NEW m, LastStart(q, u, m)
        PROVE  LastStart(t, u, m) \/ (NoStart(t, u) /\ IsStart(h, u) /\ h.m = m)
    <2>1. PICK i \in 1 .. Len(q) :
                /\ IsStart(q[i], u) /\ q[i].m = m
                /\ \A k \in 1 .. Len(q) : k > i => ~IsStart(q[k], u)
      BY <1>9 DEF LastStart
    <2>2. CASE i = 1
      BY <1>1, <1>2, <2>1, <2>2 DEF NoStart
    <2>3. CASE i # 1
      <3>1. PICK b \in 1 .. Len(t) : i = b + 1
        BY <1>4, <2>3
      <3>2. IsStart(t[b], u) /\ t[b].m = m
        BY <1>1, <2>1, <3>1
      <3>3. \A k \in 1 .. Len(t) : k > b => ~IsStart(t[k], u)
        BY <1>1, <1>2, <1>5, <2>1, <3>1
      <3> QED BY <3>2, <3>3 DEF LastStart
    <2> QED BY <2>2, <2>3
  <1>10. ASSUME NEW L, EndsFollow(q, L)
         PROVE  /\ EndsFollow(t, L)
                /\ IsStart(h, u) /\ L[h.m] # "live" => Ends(t, u)
    <2>1. EndsFollow(t, L)
      <3> SUFFICES ASSUME NEW i \in 1 .. Len(t), t[i].op = "start", L[t[i].m] # "live"
                   PROVE  \E k \in 1 .. Len(t) : k > i /\ IsFinish(t[k], t[i].u)
        BY DEF EndsFollow
      <3>1. i + 1 \in 1 .. Len(q) /\ t[i] = q[i + 1]
        BY <1>1, <1>2
      <3>2. PICK k \in 1 .. Len(q) : k > i + 1 /\ IsFinish(q[k], t[i].u)
        BY <1>10, <3>1 DEF EndsFollow
      <3>3. k # 1
        BY <1>1, <3>2
      <3>4. PICK b \in 1 .. Len(t) : k = b + 1
        BY <1>4, <3>3
      <3>5. b > i /\ t[b] = q[k]
        BY <1>1, <1>5, <3>2, <3>4
      <3> QED BY <3>2, <3>5
    <2>2. ASSUME IsStart(h, u), L[h.m] # "live" PROVE Ends(t, u)
      <3>1. h.op = "start" /\ h.u = u
        BY <2>2 DEF IsStart
      <3>2. PICK k \in 1 .. Len(q) : k > 1 /\ IsFinish(q[k], u)
        BY <1>1, <1>3, <1>10, <2>2, <3>1 DEF EndsFollow
      <3>3. PICK b \in 1 .. Len(t) : k = b + 1
        BY <1>4, <1>6, <3>2
      <3>4. IsFinish(t[b], u)
        BY <1>1, <3>2, <3>3
      <3> QED BY <3>4 DEF Ends
    <2> QED BY <2>1, <2>2
  <1> QED BY <1>7, <1>8, <1>9, <1>10 DEF t, h

LEMMA EndsFollowStep ==
    ASSUME Typed, EndsFollow(manager_strand, live_matches_), [Next]_vars
    PROVE  EndsFollow(manager_strand', live_matches_')
  <1> DEFINE q == manager_strand
             p == manager_strand'
             L == live_matches_
             M == live_matches_'
  <1>1. /\ q \in Seq(ManagerItem(Came)) /\ L \in [Matches -> {"none", "live", "over", "recorded"}]
        /\ Came \in SUBSET Sessions
    BY DEF Typed, QueueTypes, OtherTypes, Came
  <1>2. \A i \in 1 .. Len(q) : q[i].op = "start" => q[i].u \in Users /\ q[i].m \in Matches
    <2>1. \A i \in 1 .. Len(q) : q[i] \in ManagerItem(Came)
      BY <1>1
    <2> QED BY <1>1, <2>1, ItemFields
  <1>3. CASE RunManager /\ M = L
    <2>1. q # <<>> /\ p = Tail(q)
      BY <1>3 DEF RunManager
    <2>2. EndsFollow(Tail(q), L)
      BY <1>1, <2>1, MatchTail
    <2> QED BY <1>3, <2>1, <2>2
  <1>4. CASE PlainStep
    <2>1. \A x \in Plain : x.op # "start"
      BY DEF Plain
    <2> QED BY <1>4, <2>1, MatchAdds DEF PlainStep
  <1>5. ASSUME NEW m \in Matches, Starting(m) PROVE EndsFollow(p, M)
    <2> SUFFICES ASSUME NEW i \in 1 .. Len(p), p[i].op = "start", M[p[i].m] # "live"
                 PROVE  \E k \in 1 .. Len(p) : k > i /\ IsFinish(p[k], p[i].u)
      BY DEF EndsFollow
    <2>1. /\ M[m] = "live" /\ \A n \in Matches \ {m} : M[n] = L[n]
          /\ Adds(q, p, {x \in MatchItem : x.op = "start" /\ x.m = m})
      BY <1>1, <1>5 DEF Starting
    <2>2. i \in 1 .. Len(q) /\ p[i] = q[i]
      BY <2>1, OldAndNew
    <2>3. q[i].m \in Matches /\ L[q[i].m] # "live"
      BY <1>2, <2>1, <2>2
    <2>4. PICK k \in 1 .. Len(q) : k > i /\ IsFinish(q[k], q[i].u)
      BY <2>2, <2>3 DEF EndsFollow
    <2>5. k \in 1 .. Len(p) /\ p[k] = q[k]
      BY <2>1, OldAndNew
    <2> QED BY <2>2, <2>4, <2>5
  <1>6. ASSUME NEW m \in Matches, Finishing(m) PROVE EndsFollow(p, M)
    <2> DEFINE N == {x \in MatchItem : x.op = "finished" /\ x.m = m}
    <2> SUFFICES ASSUME NEW i \in 1 .. Len(p), p[i].op = "start", M[p[i].m] # "live"
                 PROVE  \E k \in 1 .. Len(p) : k > i /\ IsFinish(p[k], p[i].u)
      BY DEF EndsFollow
    <2>1. Adds(q, p, N) /\ AllTold
      BY <1>6 DEF Finishing
    <2>2. i \in 1 .. Len(q) /\ p[i] = q[i]
      BY <2>1, OldAndNew
    <2>3. PICK k \in 1 .. Len(p) : k > Len(q) /\ p[k].u = q[i].u
      BY <1>2, <2>1, <2>2 DEF AllTold
    <2>4. ~(k \in 1 .. Len(q))
      BY <2>1, <2>3, OldAndNew
    <2>5. p[k] \in N /\ k > i
      BY <2>1, <2>2, <2>3, <2>4, OldAndNew
    <2> QED BY <2>2, <2>3, <2>5 DEF IsFinish
  <1>7. ASSUME NEW m \in Matches, Recording(m) PROVE EndsFollow(p, M)
    <2>1. p = q /\ \A n \in Matches : M[n] # "live" => L[n] # "live"
      BY <1>1, <1>7 DEF Recording
    <2> HIDE DEF q, p, L, M
    <2>2. EndsFollow(q, L)
      BY DEF q, L
    <2> QED BY <1>2, <2>1, <2>2 DEF EndsFollow
  <1>8. ASSUME NEW m \in Matches, NEW u \in Users, Forfeiting(m, u) PROVE EndsFollow(p, M)
    BY <1>8, MatchAdds DEF Forfeiting
  <1> QED BY <1>3, <1>4, <1>5, <1>6, <1>7, <1>8, MatchSteps

\* Why the UserManager keeps the data of user u: a match goes on or its end is to come,
\* or the connection has not gone.
KeptFor(u) ==
    LET s == users_[u].current_session IN
    \/ u \in ghost.late
    \/ /\ s = Nobody
       /\ ~Expired(users_[u].current_match) \/ Ends(manager_strand, u)
    \/ /\ s # Nobody /\ s \in DOMAIN sid_to_uuid_ /\ sid_to_uuid_[s] = u
       /\ session[s].state \notin {"gone", "off"}

Kept == \A u \in DOMAIN users_ : KeptFor(u)

\* A match that has ended by the next step, and a user who left during it.
LEMMA ExpiryStep ==
    ASSUME Typed, [Next]_vars, ~RunManager, NEW u \in Users,
           NEW m \in Matches \cup {Nobody}, ~Expired(m) \/ Ends(manager_strand, u)
    PROVE  ~Expired(m)' \/ Ends(manager_strand', u)
  <1> DEFINE q == manager_strand
             p == manager_strand'
  <1>1. live_matches_ \in [Matches -> {"none", "live", "over", "recorded"}]
    BY DEF Typed, OtherTypes
  <1>2. ASSUME NEW N, Adds(q, p, N), Ends(q, u) PROVE Ends(p, u)
    BY <1>2, MatchAdds
  <1>3. ASSUME live_matches_' = live_matches_, NEW N, Adds(q, p, N)
        PROVE  ~Expired(m)' \/ Ends(p, u)
    BY <1>2, <1>3 DEF Expired
  <1>4. CASE PlainStep
    BY <1>3, <1>4 DEF PlainStep
  <1>5. ASSUME NEW n \in Matches, Starting(n) PROVE ~Expired(m)' \/ Ends(p, u)
    <2>1. \A k \in Matches : live_matches_[k] = "live" => live_matches_'[k] = "live"
      BY <1>1, <1>5 DEF Starting
    <2>2. ~Expired(m) => ~Expired(m)'
      BY <2>1 DEF Expired
    <2> QED BY <1>2, <1>5, <2>2 DEF Starting
  <1>6. ASSUME NEW n \in Matches, Finishing(n) PROVE Ends(p, u)
    <2>1. Adds(q, p, {x \in MatchItem : x.op = "finished" /\ x.m = n}) /\ AllTold
      BY <1>6 DEF Finishing
    <2>2. PICK k \in 1 .. Len(p) : k > Len(q) /\ p[k].u = u
      BY <2>1 DEF AllTold
    <2>3. p[k].op = "finished"
      BY <2>1, <2>2, OldAndNew
    <2> QED BY <2>2, <2>3 DEF Ends, IsFinish
  <1>7. ASSUME NEW n \in Matches, Recording(n) PROVE ~Expired(m)' \/ Ends(p, u)
    <2>1. \A k \in Matches : live_matches_[k] = "live" => live_matches_'[k] = "live"
      BY <1>1, <1>7 DEF Recording
    <2>2. ~Expired(m) => ~Expired(m)'
      BY <2>1 DEF Expired
    <2> QED BY <1>7, <2>2 DEF Recording
  <1>8. ASSUME NEW n \in Matches, NEW v \in Users, Forfeiting(n, v)
        PROVE  ~Expired(m)' \/ Ends(p, u)
    BY <1>3, <1>8 DEF Forfeiting
  <1> QED BY <1>4, <1>5, <1>6, <1>7, <1>8, MatchSteps

LEMMA KeptStep ==
    ASSUME Typed, Kept, EndsFollow(manager_strand, live_matches_), [Next]_vars
    PROVE  Kept'
  <1>1. /\ IsUsers(users_) /\ session \in [Sessions -> Sess] /\ IsSids(sid_to_uuid_)
        /\ manager_strand \in Seq(ManagerItem(Came)) /\ Came \in SUBSET Sessions
        /\ Nobody \notin Sessions
    BY UsersAssumption DEF Typed, ManagerTypes, SessionTypes, QueueTypes, Came
  <1>2. \A u \in DOMAIN users_ :
            /\ u \in Users /\ users_[u].current_match \in Matches \cup {Nobody}
            /\ users_[u].current_session \in Sessions \cup {Nobody}
    BY <1>1 DEF IsUsers, UserRec
  <1>3. CASE ~RunManager
    <2> SUFFICES ASSUME NEW u \in DOMAIN users_' PROVE KeptFor(u)'
      BY DEF Kept
    <2>1. Beside /\ ghost'.late = ghost.late
      BY <1>3, BesideSteps, GhostSteps
    <2>2. u \in DOMAIN users_ /\ KeptFor(u)
      BY <2>1 DEF Beside, Kept
    <2> DEFINE s == users_[u].current_session
               m == users_[u].current_match
    <2>3. /\ users_' = users_ /\ sid_to_uuid_' = sid_to_uuid_
          /\ s \in Sessions => Moves(session[s].state, session'[s].state)
      BY <2>1 DEF Beside
    <2>4. CASE u \in ghost.late
      BY <2>1, <2>4 DEF KeptFor
    <2>5. CASE s = Nobody /\ (~Expired(m) \/ Ends(manager_strand, u))
      <3>1. ~Expired(m)' \/ Ends(manager_strand', u)
        <4>1. \A n \in Matches \cup {Nobody} :
                 (~Expired(n) \/ Ends(manager_strand, u)) =>
                    (~Expired(n)' \/ Ends(manager_strand', u))
          BY <1>2, <1>3, <2>2, ExpiryStep
        <4> HIDE DEF m
        <4>2. m \in Matches \cup {Nobody} /\ m' = m
          BY <1>2, <2>2, <2>3 DEF m
        <4> QED BY <2>5, <4>1, <4>2 DEF Expired
      <3> QED BY <2>3, <2>5, <3>1 DEF KeptFor
    <2>6. CASE /\ s # Nobody /\ s \in DOMAIN sid_to_uuid_ /\ sid_to_uuid_[s] = u
               /\ session[s].state \notin {"gone", "off"}
      <3>1. session'[s].state \notin {"gone", "off"}
        BY <1>2, <2>2, <2>3, <2>6 DEF Moves
      <3> QED BY <2>3, <2>6, <3>1 DEF KeptFor
    <2> QED BY <2>2, <2>4, <2>5, <2>6 DEF KeptFor
  <1>4. CASE RunManager
    <2> DEFINE h == ItemHead
    <2> SUFFICES ASSUME NEW u \in DOMAIN users_' PROVE KeptFor(u)'
      BY DEF Kept
    <2>1. /\ manager_strand # <<>> /\ h \in ManagerItem(Came)
          /\ manager_strand' = Tail(manager_strand)
          /\ live_matches_' = live_matches_ /\ ghost'.late = LateAfter(h)
      BY <1>4, HeadItem, GhostSteps DEF RunManager, match_vars
    <2>2. Ends(manager_strand, u) /\ ~IsFinish(h, u) => Ends(manager_strand', u)
      BY <1>1, <2>1, MatchTail DEF ItemHead
    <2>3. IsStart(h, u) /\ live_matches_[h.m] # "live" => Ends(manager_strand', u)
      BY <1>1, <2>1, MatchTail DEF ItemHead
    <2>4. h.op # "login" => ghost'.late = ghost.late
      BY <2>1 DEF LateAfter
    <2>5. \A n : Expired(n)' <=> (n' = Nobody \/ live_matches_[n'] # "live")
      BY <2>1 DEF Expired
    <2> HIDE DEF h
    \* The user's place is as it was, and so are the connections, or nearly so.
    <2>6. ASSUME u \in DOMAIN users_, SamePlace(u), u \in ghost.late => u \in ghost'.late,
                 ~IsFinish(h, u),
                 LET s == users_[u].current_session IN
                    s \in DOMAIN sid_to_uuid_ /\ sid_to_uuid_[s] = u
                      /\ session[s].state \notin {"gone", "off"} =>
                        \/ u \in ghost'.late
                        \/ /\ s \in DOMAIN sid_to_uuid_' /\ sid_to_uuid_'[s] = u
                           /\ session'[s].state \notin {"gone", "off"}
          PROVE  KeptFor(u)'
      <3>1. KeptFor(u)
        BY <2>6 DEF Kept
      <3>2. /\ users_'[u].current_session = users_[u].current_session
            /\ users_'[u].current_match = users_[u].current_match
        BY <2>6 DEF SamePlace
      <3>3. Expired(users_[u].current_match) <=> Expired(users_[u].current_match)'
        BY <2>1, <3>2 DEF Expired
      <3> QED BY <2>2, <2>6, <3>1, <3>2, <3>3 DEF KeptFor
    <2>7. CASE h.op = "login" /\ LoginEffect(h)
      <3>1. h.u \in Users /\ h.s \in Sessions /\ session[h.s].state # "off" /\ ~IsFinish(h, u)
        BY <1>1, <2>1, <2>7, ItemFields DEF Came, IsFinish
      <3>2. CASE u = h.u
        <4>1. users_'[u].current_session = h.s /\ h.s # Nobody
              /\ h.s \in DOMAIN sid_to_uuid_' /\ sid_to_uuid_'[h.s] = u
          BY <1>1, <2>7, <3>1, <3>2 DEF LoginEffect
        <4>2. session[h.s].state = "gone" => u \in ghost'.late
          BY <2>1, <2>7, <3>2 DEF LateAfter
        <4>3. session[h.s].state # "gone" => session'[h.s].state \notin {"gone", "off"}
          BY <2>7, <3>1 DEF LoginEffect
        <4> QED BY <4>1, <4>2, <4>3 DEF KeptFor
      <3>3. CASE u # h.u
        <4>1. u \in DOMAIN users_ /\ SamePlace(u)
          BY <2>7, <3>3 DEF LoginEffect
        <4>2. u \in ghost.late => u \in ghost'.late
          BY <2>1, <2>7, <3>3 DEF LateAfter
        <4> DEFINE s == users_[u].current_session
        <4>3. ASSUME s \in DOMAIN sid_to_uuid_, sid_to_uuid_[s] = u,
                     session[s].state \notin {"gone", "off"}
              PROVE  \/ u \in ghost'.late
                     \/ /\ s \in DOMAIN sid_to_uuid_' /\ sid_to_uuid_'[s] = u
                        /\ session'[s].state \notin {"gone", "off"}
          <5>1. s \in Sessions
            BY <1>1, <4>3 DEF IsSids
          <5>2. CASE s = h.s
            BY <1>2, <2>1, <2>7, <3>3, <4>1, <4>3, <5>2 DEF LateAfter
          <5>3. CASE s # h.s
            BY <2>7, <4>3, <5>1, <5>3 DEF LoginEffect
          <5> QED BY <5>2, <5>3
        <4> QED BY <2>6, <3>1, <4>1, <4>2, <4>3
      <3> QED BY <3>2, <3>3
    <2>8. CASE h.op = "disconnect" /\ GoneEffect(h)
      <3>1. u \in DOMAIN users_ /\ ghost'.late = ghost.late /\ ~IsFinish(h, u)
        BY <2>4, <2>8 DEF GoneEffect, IsFinish
      <3>2. CASE Leaves(u, h)
        <4>1. /\ ~Expired(users_[u].current_match)
              /\ users_'[u].current_session = Nobody
              /\ users_'[u].current_match = users_[u].current_match
          BY <2>8, <3>1, <3>2 DEF GoneEffect
        <4>2. ~Expired(users_[u].current_match)'
          BY <2>1, <4>1 DEF Expired
        <4> QED BY <4>1, <4>2 DEF KeptFor
      <3>3. CASE ~Leaves(u, h)
        <4>1. SamePlace(u)
          BY <2>8, <3>1, <3>3 DEF GoneEffect
        <4> DEFINE s == users_[u].current_session
        <4>2. ASSUME s \in DOMAIN sid_to_uuid_, sid_to_uuid_[s] = u,
                     session[s].state \notin {"gone", "off"}
              PROVE  /\ s \in DOMAIN sid_to_uuid_' /\ sid_to_uuid_'[s] = u
                     /\ session'[s].state \notin {"gone", "off"}
          <5>1. s \in Sessions /\ s # h.s
            BY <1>1, <3>3, <4>2 DEF IsSids, Leaves
          <5> QED BY <2>8, <4>2, <5>1 DEF GoneEffect
        <4> QED BY <2>6, <3>1, <4>1, <4>2
      <3> QED BY <3>2, <3>3
    <2>9. CASE h.op = "start" /\ StartEffect(h)
      <3>1. /\ u \in DOMAIN users_ /\ ghost'.late = ghost.late /\ ~IsFinish(h, u)
            /\ h.m \in Matches
        BY <1>1, <2>1, <2>4, <2>9, ItemFields DEF StartEffect, IsFinish
      <3>2. /\ users_'[u].current_session = users_[u].current_session
            /\ users_'[u].current_match = IF u = h.u THEN h.m ELSE users_[u].current_match
            /\ sid_to_uuid_' = sid_to_uuid_
            /\ \A s \in Sessions : session'[s].state = session[s].state
        BY <2>9, <3>1 DEF StartEffect, SameConnections, SameSession
      <3>3. CASE u # h.u
        BY <1>1, <2>6, <3>1, <3>2, <3>3 DEF SamePlace, IsSids
      <3>4. CASE u = h.u
        <4>1. KeptFor(u)
          BY <3>1 DEF Kept
        <4>2. ~Expired(users_[u].current_match)' \/ Ends(manager_strand', u)
          <5>1. Nobody \notin Matches
            BY UsersAssumption
          <5> QED BY <2>1, <2>3, <2>9, <3>1, <3>2, <3>4, <5>1 DEF Expired, IsStart
        <4>3. users_[u].current_session # Nobody => users_[u].current_session \in Sessions
          BY <1>2, <3>1
        <4> QED BY <3>1, <3>2, <4>1, <4>2, <4>3 DEF KeptFor
      <3> QED BY <3>3, <3>4
    <2>10. CASE h.op = "finished" /\ FinishEffect(h)
      <3>1. /\ u \in DOMAIN users_ /\ ghost'.late = ghost.late
            /\ sid_to_uuid_' = sid_to_uuid_
            /\ \A s \in Sessions : session'[s].state = session[s].state
        BY <2>4, <2>10 DEF FinishEffect, SameConnections, SameSession
      <3>2. CASE u # h.u
        <4>1. SamePlace(u) /\ ~IsFinish(h, u)
          BY <2>10, <3>1, <3>2 DEF FinishEffect, IsFinish
        <4> QED BY <1>1, <2>6, <3>1, <4>1 DEF IsSids
      <3>3. CASE u = h.u
        <4>1. ~Away(u) /\ users_'[u].current_session = users_[u].current_session
          BY <2>10, <3>1, <3>3 DEF FinishEffect
        <4>2. KeptFor(u) /\ users_[u].current_session # Nobody
          BY <3>1, <4>1 DEF Kept, Away
        <4>3. users_[u].current_session \in Sessions
          BY <1>2, <3>1, <4>2
        <4> QED BY <3>1, <4>1, <4>2, <4>3 DEF KeptFor
      <3> QED BY <3>2, <3>3
    <2>11. CASE h.op = "ban" /\ BanEffect(h)
      <3>1. /\ u \in DOMAIN users_ /\ ghost'.late = ghost.late /\ SamePlace(u)
            /\ ~IsFinish(h, u) /\ sid_to_uuid_' = sid_to_uuid_
            /\ \A s \in Sessions : session[s].state \notin {"gone", "off"} =>
                    session'[s].state \notin {"gone", "off"}
        BY <2>4, <2>11 DEF BanEffect, IsFinish
      <3> QED BY <1>1, <2>6, <3>1 DEF IsSids
    <2>12. CASE h.op \in {"block", "unblock", "accept", "remove"} /\ ListEffect
      <3>1. /\ u \in DOMAIN users_ /\ ghost'.late = ghost.late /\ SamePlace(u)
            /\ ~IsFinish(h, u) /\ sid_to_uuid_' = sid_to_uuid_
            /\ \A s \in Sessions : session'[s].state = session[s].state
        BY <2>4, <2>12 DEF ListEffect, SameConnections, SameSession, IsFinish
      <3> QED BY <1>1, <2>6, <3>1 DEF IsSids
    <2> QED BY <1>4, <2>7, <2>8, <2>9, <2>10, <2>11, <2>12, ManagerEffect DEF h
  <1> QED BY <1>3, <1>4

\* The data of a user who has neither a connection nor a match is dropped, by
\* disconnect or, when a match was being played, by notify_match_finished: the end of
\* a match is told after its start, so that a start that comes late is undone too.
THEOREM NothingIsKept == Spec => []DataIsDropped
  <1> DEFINE I == Typed /\ Kept /\ EndsFollow(manager_strand, live_matches_)
  <1>1. Init => I
    <2> SUFFICES ASSUME Init PROVE I
      OBVIOUS
    <2>1. manager_strand = <<>>
      BY DEF Init
    <2>2. EndsFollow(manager_strand, live_matches_)
      BY <2>1 DEF EndsFollow
    <2>3. Kept
      <3> SUFFICES ASSUME NEW u \in DOMAIN users_ PROVE KeptFor(u)
        BY DEF Kept
      <3> DEFINE s == users_[u].current_session
      <3>1. s \in Sessions /\ session[s].user_data_ = u
        BY AtTheStart
      <3>2. u # Nobody /\ s # Nobody
        BY <3>1, AtTheStart, UsersAssumption DEF Typed, ManagerTypes, IsUsers
      <3> HIDE DEF s
      <3>3. s \in DOMAIN sid_to_uuid_ /\ sid_to_uuid_[s] = u /\ session[s].state = "open"
        BY <3>1, <3>2, AtTheStart
      <3> QED BY <3>2, <3>3 DEF KeptFor, s
    <2> QED BY <2>2, <2>3, AtTheStart
  <1>2. I /\ [Next]_vars => I'
    BY TypedStep, KeptStep, EndsFollowStep
  <1>3. I => DataIsDropped
    <2> SUFFICES ASSUME I, AtRest, NEW u \in DOMAIN users_
                 PROVE  Online(u) \/ ~Expired(users_[u].current_match) \/ u \in ghost.late
      BY DEF DataIsDropped
    <2>1. KeptFor(u) /\ manager_strand = <<>>
      BY DEF Kept, AtRest
    <2>2. ~Ends(manager_strand, u)
      BY <2>1 DEF Ends
    <2> DEFINE s == users_[u].current_session
    <2>3. s \in DOMAIN sid_to_uuid_ => s \in Sessions
      BY DEF Typed, ManagerTypes, IsSids
    <2>4. s \in Sessions => session[s].state \in {"off", "open", "gone"}
      BY DEF Typed, SessionTypes, Sess, AtRest
    <2> QED BY <2>1, <2>2, <2>3, <2>4 DEF KeptFor, Online
  <1> QED BY <1>1, <1>2, <1>3, PTL DEF Spec

LEMMA GreatestExists ==
    ASSUME NEW T \in SUBSET Nat, T # {}, NEW n \in Nat, \A k \in T : k <= n
    PROVE  \E k \in T : \A l \in T : l <= k
  <1> DEFINE U == {b \in Nat : \A k \in T : k <= b}
  <1> DEFINE R == OpToRel(<, Nat)
  <1>1. U \subseteq Nat /\ U # {}
    OBVIOUS
  <1>2. \A a, b \in Nat : <<a, b>> \in R <=> a < b
    BY DEF OpToRel
  <1>3. IsWellFoundedOn(R, Nat)
    BY NatLessThanWellFounded, Zenon
  <1> HIDE DEF R, U
  <1>4. PICK b \in U : \A c \in U : ~(<<c, b>> \in R)
    BY <1>1, <1>3, WFMin
  <1>5. b \in Nat /\ \A c \in U : ~(c < b)
    BY <1>1, <1>2, <1>4
  <1> USE DEF U
  <1>6. b \in T
    <2> SUFFICES ASSUME b \notin T PROVE FALSE
      OBVIOUS
    <2>1. PICK k \in T : TRUE
      OBVIOUS
    <2>2. b \in Nat /\ \A l \in T : l <= b /\ l # b /\ l \in Nat
      BY <1>5
    <2>3. b - 1 \in Nat /\ \A l \in T : l <= b - 1
      BY <2>1, <2>2
    <2>4. b - 1 \in U
      BY <2>3
    <2>5. b - 1 < b
      BY <2>2
    <2> QED BY <1>5, <2>4, <2>5
  <1> QED BY <1>6

\* User u plays match m.
Plays(u, m) == live_matches_[m] = "live" /\ u \in players[m]

\* The end of a match is on its way only to users who no longer play it.
EndsAreTrue ==
    \A i \in 1 .. Len(manager_strand) : manager_strand[i].op = "finished" =>
        LET x == manager_strand[i] IN live_matches_[x.m] # "none" /\ ~Plays(x.u, x.m)

\* The last start on its way to a player is that of the match, or it has come.
CanRejoin ==
    \A u \in Users, m \in Matches : Plays(u, m) =>
        \/ <<u, m>> \in ghost.missed
        \/ LastStart(manager_strand, u, m)
        \/ NoStart(manager_strand, u) /\ u \in DOMAIN users_ /\ users_[u].current_match = m

LEMMA EndsAreTrueStep ==
    ASSUME Typed, EndsAreTrue, [Next]_vars
    PROVE  EndsAreTrue'
  <1> DEFINE q == manager_strand
             p == manager_strand'
             True(x) == live_matches_[x.m] # "none" /\ ~Plays(x.u, x.m)
  <1>1. /\ q \in Seq(ManagerItem(Came)) /\ Came \in SUBSET Sessions
        /\ live_matches_ \in [Matches -> {"none", "live", "over", "recorded"}]
        /\ players \in [Matches -> SUBSET Users]
    BY DEF Typed, QueueTypes, OtherTypes, Came
  <1>2. \A i \in 1 .. Len(q) : q[i].op = "finished" =>
            q[i].u \in Users /\ q[i].m \in Matches /\ True(q[i])
    <2>1. \A i \in 1 .. Len(q) : q[i] \in ManagerItem(Came)
      BY <1>1
    <2> QED BY <1>1, <2>1, ItemFields DEF EndsAreTrue
  <1> SUFFICES ASSUME NEW i \in 1 .. Len(p), p[i].op = "finished"
               PROVE  /\ live_matches_'[p[i].m] # "none"
                      /\ ~(live_matches_'[p[i].m] = "live" /\ p[i].u \in players'[p[i].m])
    BY DEF EndsAreTrue, Plays
  <1>3. CASE RunManager /\ live_matches_' = live_matches_ /\ players' = players
    <2>1. q # <<>> /\ p = Tail(q)
      BY <1>3 DEF RunManager
    <2>2. /\ Len(q) \in Nat \ {0} /\ Len(p) = Len(q) - 1 /\ p[i] = q[i + 1]
      BY <1>1, <2>1, AfterTail
    <2>3. i + 1 \in 1 .. Len(q)
      BY <2>2
    <2> QED BY <1>2, <1>3, <2>2, <2>3 DEF Plays
  \* An item that was there, and a match that has not been forgotten since.
  <1>4. ASSUME i \in 1 .. Len(q), p[i] = q[i],
               \A m \in Matches :
                    /\ live_matches_[m] # "none" => live_matches_'[m] # "none"
                    /\ live_matches_[m] # "none" /\ live_matches_'[m] = "live" =>
                            live_matches_[m] = "live"
                    /\ players'[m] \subseteq players[m]
        PROVE  /\ live_matches_'[p[i].m] # "none"
               /\ ~(live_matches_'[p[i].m] = "live" /\ p[i].u \in players'[p[i].m])
    BY <1>2, <1>4 DEF Plays
  <1>5. CASE PlainStep
    <2>1. i \in 1 .. Len(q) /\ p[i] = q[i]
      BY <1>5, OldAndNew DEF PlainStep, Plain
    <2> QED BY <1>4, <1>5, <2>1 DEF PlainStep
  <1>6. ASSUME NEW m \in Matches, Starting(m)
        PROVE  /\ live_matches_'[p[i].m] # "none"
               /\ ~(live_matches_'[p[i].m] = "live" /\ p[i].u \in players'[p[i].m])
    <2>1. i \in 1 .. Len(q) /\ p[i] = q[i]
      BY <1>6, OldAndNew DEF Starting
    <2>2. \A n \in Matches :
                    /\ live_matches_[n] # "none" => live_matches_'[n] # "none"
                    /\ live_matches_[n] # "none" /\ live_matches_'[n] = "live" =>
                            live_matches_[n] = "live"
                    /\ players'[n] \subseteq players[n]
      BY <1>1, <1>6 DEF Starting
    <2> QED BY <1>4, <2>1, <2>2
  <1>7. ASSUME NEW m \in Matches, Finishing(m)
        PROVE  /\ live_matches_'[p[i].m] # "none"
               /\ ~(live_matches_'[p[i].m] = "live" /\ p[i].u \in players'[p[i].m])
    <2>1. \/ i \in 1 .. Len(q) /\ p[i] = q[i]
          \/ p[i].m = m
      BY <1>7, OldAndNew DEF Finishing
    <2>2. /\ \A n \in Matches :
                    /\ live_matches_[n] # "none" => live_matches_'[n] # "none"
                    /\ live_matches_[n] # "none" /\ live_matches_'[n] = "live" =>
                            live_matches_[n] = "live"
                    /\ players'[n] \subseteq players[n]
          /\ live_matches_'[m] = "over"
      BY <1>1, <1>7 DEF Finishing
    <2> QED BY <1>4, <2>1, <2>2
  <1>8. ASSUME NEW m \in Matches, Recording(m)
        PROVE  /\ live_matches_'[p[i].m] # "none"
               /\ ~(live_matches_'[p[i].m] = "live" /\ p[i].u \in players'[p[i].m])
    <2>1. \A n \in Matches :
                    /\ live_matches_[n] # "none" => live_matches_'[n] # "none"
                    /\ live_matches_[n] # "none" /\ live_matches_'[n] = "live" =>
                            live_matches_[n] = "live"
                    /\ players'[n] \subseteq players[n]
      BY <1>1, <1>8 DEF Recording
    <2> QED BY <1>4, <1>8, <2>1 DEF Recording
  <1>9. ASSUME NEW m \in Matches, NEW u \in Users, Forfeiting(m, u)
        PROVE  /\ live_matches_'[p[i].m] # "none"
               /\ ~(live_matches_'[p[i].m] = "live" /\ p[i].u \in players'[p[i].m])
    <2>1. \/ i \in 1 .. Len(q) /\ p[i] = q[i]
          \/ p[i].m = m /\ p[i].u = u
      BY <1>9, OldAndNew DEF Forfeiting
    <2>2. /\ \A n \in Matches : players'[n] \subseteq players[n]
          /\ live_matches_' = live_matches_ /\ live_matches_[m] = "live"
          /\ u \notin players'[m]
      BY <1>1, <1>9 DEF Forfeiting
    <2> QED BY <1>4, <2>1, <2>2
  <1> QED BY <1>3, <1>5, <1>6, <1>7, <1>8, <1>9, MatchSteps

LEMMA CanRejoinStep ==
    ASSUME Typed, CanRejoin, EndsAreTrue, [Next]_vars
    PROVE  CanRejoin'
  <1> DEFINE q == manager_strand
             p == manager_strand'
  <1>1. /\ q \in Seq(ManagerItem(Came)) /\ Came \in SUBSET Sessions
        /\ live_matches_ \in [Matches -> {"none", "live", "over", "recorded"}]
        /\ players \in [Matches -> SUBSET Users] /\ Nobody \notin Matches
    BY UsersAssumption DEF Typed, QueueTypes, OtherTypes, Came
  <1> SUFFICES ASSUME NEW u \in Users, NEW m \in Matches,
                      live_matches_'[m] = "live", u \in players'[m]
               PROVE  \/ <<u, m>> \in ghost'.missed
                      \/ LastStart(p, u, m)
                      \/ NoStart(p, u) /\ u \in DOMAIN users_' /\ users_'[u].current_match = m
    BY DEF CanRejoin, Plays
  <1> DEFINE Goal == \/ <<u, m>> \in ghost'.missed
                     \/ LastStart(p, u, m)
                     \/ NoStart(p, u) /\ u \in DOMAIN users_' /\ users_'[u].current_match = m
  <1>2. ASSUME Plays(u, m)
        PROVE  \/ <<u, m>> \in ghost.missed
               \/ LastStart(q, u, m)
               \/ NoStart(q, u) /\ u \in DOMAIN users_ /\ users_[u].current_match = m
    BY <1>2 DEF CanRejoin
  <1>3. ASSUME RunManager, Plays(u, m) PROVE Goal
    <2> DEFINE h == ItemHead
    <2>1. /\ q # <<>> /\ h \in ManagerItem(Came) /\ p = Tail(q) /\ h = q[1]
          /\ 1 \in 1 .. Len(q) /\ ghost'.missed = MissedAfter(h)
      BY <1>1, <1>3, HeadItem, AfterTail, GhostSteps DEF ItemHead
    <2>2. /\ NoStart(q, u) => NoStart(p, u) /\ ~IsStart(h, u)
          /\ LastStart(q, u, m) =>
                \/ LastStart(p, u, m)
                \/ NoStart(p, u) /\ IsStart(h, u) /\ h.m = m
      BY <1>1, <2>1, MatchTail DEF ItemHead
    <2>3. \/ h.op = "login" /\ LoginEffect(h)
          \/ h.op = "disconnect" /\ GoneEffect(h)
          \/ h.op = "start" /\ StartEffect(h)
          \/ h.op = "finished" /\ FinishEffect(h)
          \/ h.op = "ban" /\ BanEffect(h)
          \/ h.op \in {"block", "unblock", "accept", "remove"} /\ ListEffect
      BY <1>3, ManagerEffect
    <2> HIDE DEF h
    <2>4. CASE <<u, m>> \in ghost.missed
      BY <2>1, <2>4 DEF MissedAfter
    <2>5. CASE LastStart(q, u, m)
      <3>1. CASE LastStart(p, u, m)
        BY <3>1
      <3>2. CASE NoStart(p, u) /\ IsStart(h, u) /\ h.m = m
        <4>1. h.op = "start" /\ h.u = u /\ StartEffect(h)
          BY <2>3, <3>2 DEF IsStart
        <4>2. CASE u \in DOMAIN users_
          BY <3>2, <4>1, <4>2 DEF StartEffect
        <4>3. CASE u \notin DOMAIN users_
          BY <2>1, <3>2, <4>1, <4>3 DEF MissedAfter
        <4> QED BY <4>2, <4>3
      <3> QED BY <2>2, <2>5, <3>1, <3>2
    <2>6. CASE NoStart(q, u) /\ u \in DOMAIN users_ /\ users_[u].current_match = m
      <3>1. NoStart(p, u) /\ ~IsStart(h, u)
        BY <2>2, <2>6
      <3>2. CASE h.op = "login" /\ LoginEffect(h)
        BY <2>6, <3>1, <3>2 DEF LoginEffect, SamePlace
      <3>3. CASE h.op = "disconnect" /\ GoneEffect(h)
        <4>1. ~Expired(m)
          BY <1>1, <1>3 DEF Expired, Plays
        <4> QED BY <2>6, <3>1, <3>3, <4>1 DEF GoneEffect, SamePlace
      <3>4. CASE h.op = "start" /\ StartEffect(h)
        BY <2>6, <3>1, <3>4 DEF StartEffect, IsStart
      <3>5. CASE h.op = "finished" /\ FinishEffect(h)
        <4>1. CASE u # h.u
          BY <2>6, <3>1, <3>5, <4>1 DEF FinishEffect, SamePlace
        <4>2. CASE u = h.u
          <5>1. h.m # m
            BY <1>3, <2>1, <3>5, <4>2 DEF EndsAreTrue
          <5> QED BY <2>1, <2>6, <3>5, <4>2, <5>1 DEF MissedAfter
        <4> QED BY <4>1, <4>2
      <3>6. CASE h.op = "ban" /\ BanEffect(h)
        <4>1. CASE u # h.to
          BY <2>6, <3>1, <3>6, <4>1 DEF BanEffect, SamePlace
        <4>2. CASE u = h.to
          BY <2>1, <2>6, <3>6, <4>2 DEF MissedAfter
        <4> QED BY <4>1, <4>2
      <3>7. CASE ListEffect
        BY <2>6, <3>1, <3>7 DEF ListEffect, SamePlace
      <3> QED BY <2>3, <3>2, <3>3, <3>4, <3>5, <3>6, <3>7
    <2> QED BY <1>2, <1>3, <2>4, <2>5, <2>6
  \* The items that are added are no starts.
  <1>4. ASSUME Plays(u, m), ~RunManager, NEW N, Adds(q, p, N), \A x \in N : ~IsStart(x, u)
        PROVE  Goal
    <2>1. /\ NoStart(q, u) => NoStart(p, u)
          /\ LastStart(q, u, m) => LastStart(p, u, m)
      BY <1>4, MatchAdds
    <2>2. users_' = users_ /\ ghost'.missed = ghost.missed
      BY <1>4, BesideSteps, GhostSteps DEF Beside
    <2> QED BY <1>2, <1>4, <2>1, <2>2
  <1>5. ASSUME PlainStep, ~RunManager PROVE Goal
    <2>1. Plays(u, m) /\ \A x \in Plain : ~IsStart(x, u)
      BY <1>5 DEF PlainStep, Plays, Plain, IsStart
    <2> QED BY <1>4, <1>5, <2>1 DEF PlainStep
  <1>6. ASSUME NEW n \in Matches, Starting(n) PROVE Goal
    <2> DEFINE N == {x \in MatchItem : x.op = "start" /\ x.m = n}
    <2>1. m = n
      BY <1>1, <1>6 DEF Starting
    <2>2. Adds(q, p, N) /\ AllTold
      BY <1>6 DEF Starting
    <2>3. Len(q) \in Nat /\ Len(p) \in Nat
      BY <2>2 DEF Adds
    <2> DEFINE At1(k) == k \in 1 .. Len(p) /\ k > Len(q) /\ p[k].u = u
    <2>4. \E k \in 1 .. Len(p) : At1(k)
      BY <2>2 DEF AllTold
    <2>5. \E k \in 1 .. Len(p) : At1(k) /\ \A l \in 1 .. Len(p) : l > k => ~At1(l)
      <3> DEFINE T == {k \in 1 .. Len(p) : At1(k)}
      <3>1. T # {} /\ T \in SUBSET Nat /\ \A k \in T : k <= Len(p)
        BY <2>3, <2>4
      <3> HIDE DEF T, At1
      <3>2. \E k \in T : \A l \in T : l <= k
        BY <2>3, <3>1, GreatestExists
      <3>3. \A k, l \in T : l <= k => ~(l > k)
        BY <3>1
      <3> QED BY <3>2, <3>3 DEF T
    <2>6. PICK k \in 1 .. Len(p) : At1(k) /\ \A l \in 1 .. Len(p) : l > k => ~At1(l)
      BY <2>5
    <2>7. p[k] \in N
      BY <2>2, <2>6, OldAndNew
    <2>8. \A l \in 1 .. Len(p) : l > k => ~IsStart(p[l], u)
      <3> SUFFICES ASSUME NEW l \in 1 .. Len(p), l > k PROVE ~(p[l].u = u)
        BY DEF IsStart
      <3>1. l > Len(q)
        BY <2>3, <2>6
      <3> QED BY <2>6, <3>1
    <2> QED BY <2>1, <2>6, <2>7, <2>8 DEF LastStart, IsStart
  <1>7. ASSUME NEW n \in Matches, Finishing(n), ~RunManager PROVE Goal
    <2>1. Plays(u, m)
      BY <1>1, <1>7 DEF Finishing, Plays
    <2>2. \A x \in {x \in MatchItem : x.op = "finished" /\ x.m = n} : ~IsStart(x, u)
      BY DEF IsStart
    <2> QED BY <1>4, <1>7, <2>1, <2>2 DEF Finishing
  <1>8. ASSUME NEW n \in Matches, Recording(n), ~RunManager PROVE Goal
    <2>1. Plays(u, m)
      BY <1>1, <1>8 DEF Recording, Plays
    <2>2. Adds(q, p, {})
      BY <1>1, <1>8 DEF Recording, Adds
    <2> QED BY <1>4, <1>8, <2>1, <2>2
  <1>9. ASSUME NEW n \in Matches, NEW v \in Users, Forfeiting(n, v), ~RunManager PROVE Goal
    <2>1. Plays(u, m)
      BY <1>1, <1>9 DEF Forfeiting, Plays
    <2>2. \A x \in {x \in MatchItem : x.op = "finished" /\ x.m = n /\ x.u = v} :
                ~IsStart(x, u)
      BY DEF IsStart
    <2> QED BY <1>4, <1>9, <2>1, <2>2 DEF Forfeiting
  <1>10. ASSUME RunManager, live_matches_' = live_matches_, players' = players PROVE Goal
    BY <1>3, <1>10 DEF Plays
  <1>11. RunManager => live_matches_' = live_matches_ /\ players' = players
    BY DEF RunManager, match_vars
  <1> HIDE DEF Goal
  <1>12. ASSUME ~RunManager PROVE Goal
    <2>1. ASSUME PlainStep PROVE Goal
      BY <1>5, <1>12, <2>1
    <2>2. ASSUME NEW n \in Matches, \/ Starting(n) \/ Finishing(n) \/ Recording(n)
                                    \/ \E v \in Users : Forfeiting(n, v)
          PROVE  Goal
      BY <1>6, <1>7, <1>8, <1>9, <1>12, <2>2
    <2> QED BY <1>12, <2>1, <2>2, MatchSteps
  <1>13. Goal
    BY <1>10, <1>11, <1>12
  <1> QED BY <1>13 DEF Goal

\* A player who is connected, again or still, is in the match the UserManager has for
\* them, so that on_login leads them back into it: a disconnect during a match keeps
\* the user's data, and a forfeit or an end is told only to users who no longer play.
\* The exceptions are those of PlayersRejoin: a start that came when the user had gone
\* or was banned, and the end of an earlier match that took the later one away.
THEOREM PlayersAreLedBack == Spec => []PlayersRejoin
  <1> DEFINE I == Typed /\ EndsAreTrue /\ CanRejoin
  <1>1. Init => I
    <2> SUFFICES ASSUME Init PROVE I
      OBVIOUS
    <2>1. /\ manager_strand = <<>>
          /\ \A m \in Matches : live_matches_[m] = "live" => players[m] = {}
      BY DEF Init
    <2> QED BY <2>1, AtTheStart DEF EndsAreTrue, CanRejoin, Plays
  <1>2. I /\ [Next]_vars => I'
    BY TypedStep, EndsAreTrueStep, CanRejoinStep
  <1>3. I => PlayersRejoin
    <2> SUFFICES ASSUME I, AtRest, NEW u \in Users, NEW m \in Matches, Plays(u, m)
                 PROVE  users_[u].current_match = m \/ <<u, m>> \in ghost.missed
      BY DEF PlayersRejoin, Plays
    <2>1. manager_strand = <<>>
      BY DEF AtRest
    <2>2. ~LastStart(manager_strand, u, m)
      BY <2>1 DEF LastStart
    <2> QED BY <2>2 DEF CanRejoin
  <1> QED BY <1>1, <1>2, <1>3, PTL DEF Spec


-----------------------------------------------------------------------------
(* What a queue says of the elements of a set.                             *)

Has(s, X) == \E k \in 1 .. Len(s) : s[k] \in X

\* An element of A is in it, and none of R behind it.
Pending(s, A, R) ==
  \E k \in 1 .. Len(s) : s[k] \in A /\ \A l \in k + 1 .. Len(s) : s[l] \notin R

\* Whether v is in L once all of s is handled: those in A put it there,
\* those in R take it out.
Final(v, L, s, A, R) == Pending(s, A, R) \/ (v \in L /\ ~Has(s, R))

\* No element of Y is in front of one of X.
NoneBefore(s, X, Y) ==
  \A k \in 1 .. Len(s) : s[k] \in X => \A j \in 1 .. k - 1 : s[j] \notin Y

LEMMA EmptyQueue ==
  /\ \A X : ~Has(<<>>, X)
  /\ \A A, R : ~Pending(<<>>, A, R)
  /\ \A X, Y : NoneBefore(<<>>, X, Y)
  BY DEF Has, Pending, NoneBefore

LEMMA TailIndex ==
  ASSUME NEW S, NEW s \in Seq(S), s # <<>>
  PROVE  /\ Len(s) \in Nat /\ Len(s) > 0 /\ Head(s) = s[1] /\ Head(s) \in S
         /\ Tail(s) \in Seq(S) /\ Len(Tail(s)) = Len(s) - 1
         /\ \A k \in 1 .. Len(s) - 1 : Tail(s)[k] = s[k + 1]
         /\ \A k \in 1 .. Len(s) :
              k = 1 \/ (k - 1 \in 1 .. Len(s) - 1 /\ s[k] = Tail(s)[k - 1])
  <1>1. /\ Len(s) \in Nat /\ Len(s) > 0 /\ Head(s) = s[1] /\ Head(s) \in S
        /\ Tail(s) \in Seq(S) /\ Len(Tail(s)) = Len(s) - 1
        /\ \A k \in 1 .. Len(s) - 1 : Tail(s)[k] = s[k + 1]
    OBVIOUS
  <1>2. \A k \in 1 .. Len(s) :
           k = 1 \/ (k - 1 \in 1 .. Len(s) - 1 /\ (k - 1) + 1 = k)
    BY <1>1
  <1> QED BY <1>1, <1>2

LEMMA HasTail ==
  ASSUME NEW S, NEW s \in Seq(S), s # <<>>, NEW X
  PROVE  Has(s, X) <=> Head(s) \in X \/ Has(Tail(s), X)
  <1> DEFINE t == Tail(s)
             h == Head(s)
             n == Len(s)
  <1>1. /\ n \in Nat /\ n > 0 /\ h = s[1] /\ Len(t) = n - 1
        /\ \A k \in 1 .. n - 1 : t[k] = s[k + 1]
        /\ \A k \in 1 .. n : k = 1 \/ (k - 1 \in 1 .. n - 1 /\ s[k] = t[k - 1])
    BY TailIndex
  <1>2. \A k \in 1 .. n - 1 : k + 1 \in 1 .. n
    BY <1>1
  <1> HIDE DEF t, h, n
  <1>3. Has(s, X) => h \in X \/ Has(t, X)
    BY <1>1 DEF Has, n
  <1>4. h \in X \/ Has(t, X) => Has(s, X)
    BY <1>1, <1>2 DEF Has, n
  <1> QED BY <1>3, <1>4 DEF t, h

LEMMA HasAppend ==
  ASSUME NEW S, NEW s \in Seq(S), NEW e, NEW X
  PROVE  Has(Append(s, e), X) <=> Has(s, X) \/ e \in X
  <1> DEFINE q == Append(s, e)
             n == Len(s)
  <1>1. /\ n \in Nat /\ Len(q) = n + 1 /\ q[n + 1] = e
        /\ \A k \in 1 .. n : q[k] = s[k]
    OBVIOUS
  <1> HIDE DEF q, n
  <1>2. \A k \in 1 .. n + 1 : k \in 1 .. n \/ k = n + 1
    BY <1>1
  <1>3. /\ n + 1 \in 1 .. n + 1
        /\ \A k \in 1 .. n : k \in 1 .. n + 1
    BY <1>1
  <1>4. Has(q, X) <=> Has(s, X) \/ e \in X
    BY <1>1, <1>2, <1>3 DEF Has, n
  <1> QED BY <1>4 DEF q

LEMMA PendingTail ==
  ASSUME NEW S, NEW s \in Seq(S), s # <<>>, NEW A, NEW R
  PROVE  Pending(s, A, R) <=> \/ Head(s) \in A /\ ~Has(Tail(s), R)
                              \/ Pending(Tail(s), A, R)
  <1> DEFINE t == Tail(s)
             h == Head(s)
             n == Len(s)
  <1>1. /\ n \in Nat /\ n > 0 /\ h = s[1] /\ Len(t) = n - 1
        /\ \A k \in 1 .. n - 1 : t[k] = s[k + 1]
        /\ \A k \in 1 .. n : k = 1 \/ (k - 1 \in 1 .. n - 1 /\ s[k] = t[k - 1])
    BY TailIndex
  <1>2. \A k \in 1 .. n - 1 : k + 1 \in 1 .. n /\ k + 1 \in 2 .. n
    BY <1>1
  <1> HIDE DEF t, h, n
  <1>3. ASSUME NEW k \in 1 .. n, s[k] \in A, \A l \in k + 1 .. n : s[l] \notin R
        PROVE  (h \in A /\ ~Has(t, R)) \/ Pending(t, A, R)
    <2>1. CASE k = 1
      <3>1. \A l \in 2 .. n : s[l] \notin R
        BY <1>3, <2>1
      <3>2. \A l \in 1 .. n - 1 : t[l] \notin R
        BY <1>1, <1>2, <3>1
      <3> QED BY <1>1, <1>3, <2>1, <3>2 DEF Has
    <2>2. CASE k # 1
      <3>1. k - 1 \in 1 .. n - 1 /\ t[k - 1] \in A
        BY <1>1, <1>3, <2>2
      <3>2. ASSUME NEW l \in (k - 1) + 1 .. n - 1 PROVE t[l] \notin R
        <4>1. l + 1 \in k + 1 .. n /\ l \in 1 .. n - 1
          BY <1>1, <3>1, <3>2
        <4> QED BY <1>1, <1>3, <4>1
      <3> QED BY <1>1, <3>1, <3>2 DEF Pending
    <2> QED BY <2>1, <2>2
  <1>4. ASSUME h \in A, ~Has(t, R) PROVE Pending(s, A, R)
    <2>1. \A l \in 2 .. n : s[l] \notin R
      <3> SUFFICES ASSUME NEW l \in 2 .. n PROVE s[l] \notin R
        OBVIOUS
      <3>1. l \in 1 .. n /\ l # 1
        BY <1>1
      <3> QED BY <1>1, <1>4, <3>1 DEF Has
    <2> QED BY <1>1, <1>4, <2>1 DEF Pending, n
  <1>5. ASSUME NEW k \in 1 .. n - 1, t[k] \in A,
               \A l \in k + 1 .. n - 1 : t[l] \notin R
        PROVE  Pending(s, A, R)
    <2>1. k + 1 \in 1 .. n /\ s[k + 1] \in A
      BY <1>1, <1>2, <1>5
    <2>2. ASSUME NEW l \in (k + 1) + 1 .. n PROVE s[l] \notin R
      <3>1. l \in 1 .. n /\ l # 1 /\ l - 1 \in k + 1 .. n - 1
        BY <1>1, <1>5, <2>2
      <3> QED BY <1>1, <1>5, <3>1
    <2> QED BY <2>1, <2>2 DEF Pending, n
  <1>6. Pending(s, A, R) => (h \in A /\ ~Has(t, R)) \/ Pending(t, A, R)
    BY <1>3 DEF Pending, n
  <1>7. Pending(t, A, R) => Pending(s, A, R)
    BY <1>1, <1>5 DEF Pending
  <1> QED BY <1>4, <1>6, <1>7 DEF t, h

LEMMA PendingAppend ==
  ASSUME NEW S, NEW s \in Seq(S), NEW e, NEW A, NEW R
  PROVE  Pending(Append(s, e), A, R) <=>
           e \in A \/ (Pending(s, A, R) /\ e \notin R)
  <1> DEFINE q == Append(s, e)
             n == Len(s)
  <1>1. /\ n \in Nat /\ Len(q) = n + 1 /\ q[n + 1] = e
        /\ \A k \in 1 .. n : q[k] = s[k]
    OBVIOUS
  <1> HIDE DEF q, n
  <1>2. e \in A => Pending(q, A, R)
    BY <1>1 DEF Pending
  <1>3. Pending(s, A, R) /\ e \notin R => Pending(q, A, R)
    BY <1>1 DEF Pending, n
  <1>4. ASSUME NEW k \in 1 .. n + 1, q[k] \in A,
               \A l \in k + 1 .. n + 1 : q[l] \notin R
        PROVE  e \in A \/ (Pending(s, A, R) /\ e \notin R)
    <2>1. CASE k = n + 1
      BY <1>1, <1>4, <2>1
    <2>2. CASE k # n + 1
      <3>1. k \in 1 .. n /\ n + 1 \in k + 1 .. n + 1
        BY <1>1, <1>4, <2>2
      <3>2. \A l \in k + 1 .. n : s[l] \notin R
        BY <1>1, <1>4, <3>1
      <3> QED BY <1>1, <1>4, <3>1, <3>2 DEF Pending, n
    <2> QED BY <2>1, <2>2
  <1> QED BY <1>1, <1>2, <1>3, <1>4 DEF Pending, q

LEMMA NoneBeforeTail ==
  ASSUME NEW S, NEW s \in Seq(S), s # <<>>, NEW X, NEW Y, NoneBefore(s, X, Y)
  PROVE  /\ NoneBefore(Tail(s), X, Y)
         /\ Head(s) \in Y => ~Has(Tail(s), X)
  <1> DEFINE t == Tail(s)
             h == Head(s)
             n == Len(s)
  <1>1. /\ n \in Nat /\ n > 0 /\ h = s[1] /\ Len(t) = n - 1
        /\ \A k \in 1 .. n - 1 : t[k] = s[k + 1]
    BY TailIndex
  <1> HIDE DEF t, h, n
  <1>2. ASSUME NEW k \in 1 .. n - 1, t[k] \in X
        PROVE  /\ h \notin Y
               /\ \A j \in 1 .. k - 1 : t[j] \notin Y
    <2>1. k + 1 \in 1 .. n /\ 1 \in 1 .. (k + 1) - 1
      BY <1>1
    <2>2. \A j \in 1 .. (k + 1) - 1 : s[j] \notin Y
      BY <1>1, <1>2, <2>1 DEF NoneBefore, n
    <2>3. \A j \in 1 .. k - 1 : j + 1 \in 1 .. (k + 1) - 1 /\ j \in 1 .. n - 1
      BY <1>1
    <2> QED BY <1>1, <2>1, <2>2, <2>3
  <1>3. NoneBefore(t, X, Y)
    BY <1>1, <1>2 DEF NoneBefore
  <1>4. h \in Y => ~Has(t, X)
    BY <1>1, <1>2 DEF Has
  <1> QED BY <1>3, <1>4 DEF t, h

LEMMA NoneBeforeAppend ==
  ASSUME NEW S, NEW s \in Seq(S), NEW e, NEW X, NEW Y,
         NoneBefore(s, X, Y), e \in X => ~Has(s, Y)
  PROVE  NoneBefore(Append(s, e), X, Y)
  <1> DEFINE q == Append(s, e)
             n == Len(s)
  <1>1. /\ n \in Nat /\ Len(q) = n + 1 /\ q[n + 1] = e
        /\ \A k \in 1 .. n : q[k] = s[k]
    OBVIOUS
  <1> HIDE DEF q, n
  <1>2. ASSUME NEW k \in 1 .. n + 1, q[k] \in X, NEW j \in 1 .. k - 1
        PROVE  q[j] \notin Y
    <2>1. j \in 1 .. n
      BY <1>1, <1>2
    <2>2. CASE k = n + 1
      BY <1>1, <1>2, <2>1, <2>2 DEF Has, n
    <2>3. CASE k # n + 1
      <3>1. k \in 1 .. n
        BY <1>1, <1>2, <2>3
      <3> QED BY <1>1, <1>2, <2>1, <3>1 DEF NoneBefore, n
    <2> QED BY <2>2, <2>3
  <1>3. NoneBefore(q, X, Y)
    BY <1>1, <1>2 DEF NoneBefore
  <1> QED BY <1>3 DEF q

LEMMA NoneBeforeNone ==
  ASSUME NEW s, NEW X, NEW Y, ~Has(s, X)
  PROVE  NoneBefore(s, X, Y)
  BY DEF Has, NoneBefore

LEMMA PendingHas ==
  ASSUME NEW s, NEW A, NEW R, Pending(s, A, R)
  PROVE  Has(s, A)
  BY DEF Has, Pending

\* Handling the first element, or adding one, is what Final says it is.
LEMMA FinalTail ==
  ASSUME NEW S, NEW s \in Seq(S), s # <<>>, NEW A, NEW R,
         NEW v, NEW L, NEW w, NEW K,
         w \in K <=> Head(s) \in A \/ (v \in L /\ Head(s) \notin R)
  PROVE  Final(w, K, Tail(s), A, R) <=> Final(v, L, s, A, R)
  <1>1. Pending(s, A, R) <=> \/ Head(s) \in A /\ ~Has(Tail(s), R)
                             \/ Pending(Tail(s), A, R)
    BY PendingTail
  <1>2. Has(s, R) <=> Head(s) \in R \/ Has(Tail(s), R)
    BY HasTail
  <1> QED BY <1>1, <1>2 DEF Final

LEMMA FinalAppend ==
  ASSUME NEW S, NEW s \in Seq(S), NEW e, NEW A, NEW R, NEW v, NEW L
  PROVE  Final(v, L, Append(s, e), A, R) <=>
           e \in A \/ (Final(v, L, s, A, R) /\ e \notin R)
  <1>1. Pending(Append(s, e), A, R) <=>
          e \in A \/ (Pending(s, A, R) /\ e \notin R)
    BY PendingAppend
  <1>2. Has(Append(s, e), R) <=> Has(s, R) \/ e \in R
    BY HasAppend
  <1> QED BY <1>1, <1>2 DEF Final

\* Elements at the end that are in none of the sets change nothing.
LEMMA QueueAdds ==
  ASSUME NEW q, NEW p, NEW N, Adds(q, p, N)
  PROVE  /\ \A X : N \cap X = {} => (Has(p, X) <=> Has(q, X))
         /\ \A X, Y : N \cap X = {} /\ NoneBefore(q, X, Y) => NoneBefore(p, X, Y)
         /\ \A v, L, A, R : N \cap A = {} /\ N \cap R = {} =>
                (Final(v, L, p, A, R) <=> Final(v, L, q, A, R))
  <1> DEFINE n == Len(q)
             m == Len(p)
  <1>1. /\ n \in Nat /\ m \in Nat /\ n <= m
        /\ \A i \in 1 .. n : p[i] = q[i]
        /\ \A i \in 1 .. m : i > n => p[i] \in N
    BY DEF Adds
  <1> HIDE DEF n, m
  <1>2. /\ \A k \in 1 .. n : k \in 1 .. m
        /\ \A k \in 1 .. m : k \in 1 .. n \/ k > n
    BY <1>1
  <1>3. ASSUME NEW X, N \cap X = {} PROVE Has(p, X) <=> Has(q, X)
    BY <1>1, <1>2, <1>3 DEF Has, n, m
  <1>4. ASSUME NEW X, NEW Y, N \cap X = {}, NoneBefore(q, X, Y)
        PROVE  NoneBefore(p, X, Y)
    <2> SUFFICES ASSUME NEW k \in 1 .. m, p[k] \in X, NEW j \in 1 .. k - 1
                 PROVE  p[j] \notin Y
      BY DEF NoneBefore, m
    <2>1. k \in 1 .. n /\ j \in 1 .. n
      BY <1>1, <1>2, <1>4
    <2> QED BY <1>1, <1>4, <2>1 DEF NoneBefore, n
  <1>5. ASSUME NEW A, NEW R, N \cap A = {}, N \cap R = {}
        PROVE  Pending(p, A, R) <=> Pending(q, A, R)
    <2>1. ASSUME NEW k \in 1 .. m, p[k] \in A, \A l \in k + 1 .. m : p[l] \notin R
          PROVE  Pending(q, A, R)
      <3>1. k \in 1 .. n
        BY <1>1, <1>2, <1>5, <2>1
      <3>2. \A l \in k + 1 .. n : l \in k + 1 .. m /\ l \in 1 .. n
        BY <1>1, <3>1
      <3> QED BY <1>1, <2>1, <3>1, <3>2 DEF Pending, n
    <2>2. ASSUME NEW k \in 1 .. n, q[k] \in A, \A l \in k + 1 .. n : q[l] \notin R
          PROVE  Pending(p, A, R)
      <3>1. \A l \in k + 1 .. m : l \in 1 .. m /\ (l > n \/ l \in k + 1 .. n)
        BY <1>1
      <3>2. \A l \in k + 1 .. m : p[l] \notin R
        <4> SUFFICES ASSUME NEW l \in k + 1 .. m PROVE p[l] \notin R
          OBVIOUS
        <4>1. CASE l > n
          BY <1>1, <1>5, <3>1, <4>1
        <4>2. CASE l \in k + 1 .. n
          <5>1. l \in 1 .. n
            BY <1>1, <4>2
          <5> QED BY <1>1, <2>2, <4>2, <5>1
        <4> QED BY <3>1, <4>1, <4>2
      <3> QED BY <1>1, <1>2, <2>2, <3>2 DEF Pending, m
    <2> QED BY <2>1, <2>2 DEF Pending, n, m
  <1> QED BY <1>3, <1>4, <1>5 DEF Final

LEMMA AddsNothing ==
  ASSUME NEW S, NEW q \in Seq(S), NEW N
  PROVE  Adds(q, q, N)
  BY DEF Adds

-----------------------------------------------------------------------------
(* Friends and blocks.                                                     *)

\* The changes of what u and v are to each other, on a strand of the Database or on
\* the UserManager's; those that make them friends or end it; those that put v on
\* u's list of blocked users or take v off it.
OfPair(u, v) == {x \in ListItem : {x.by, x.to} = {u, v}}
Making(u, v) == {x \in OfPair(u, v) : x.op = "accept"}
Breaking(u, v) == {x \in OfPair(u, v) : x.op \in {"remove", "block"}}
Blocking(u, v) == {x \in OfPair(u, v) : x.op = "block" /\ x.by = u}
Lifting(u, v) == {x \in OfPair(u, v) : x.op = "unblock" /\ x.by = u}

FirstJob(w) == Head(uuid_strands_[w])

\* How far a job can be says what it is.
StagesFit ==
    \A w \in Users :
        /\ stage[w] # "begin" => uuid_strands_[w] # <<>>
        /\ stage[w] \in {"found", "posted"} => FirstJob(w).op = "accept"
        /\ stage[w] = "committed" => FirstJob(w).op \in Changes

\* A change of the pair has begun on strand w; none has.
Doing(w, u, v) == stage[w] # "begin" /\ FirstJob(w) \in OfPair(u, v)
Nothing(u, v) == \A w \in Users : ~Doing(w, u, v)

\* An accept has told the UserManager and not yet committed.
Accepting(u, v) ==
    \E w \in Users : stage[w] = "posted" /\ FirstJob(w) \in Making(u, v)

\* A change out of X has committed and not yet told the UserManager.
Owed(X) == \E w \in Users : stage[w] = "committed" /\ FirstJob(w) \in X

\* The logins of u on their way, and those whose lists are not right about v.
LoginsOf(u) == {x \in LoginItem(Sessions) : x.u = u}
Wrong(u, v) ==
    {x \in LoginsOf(u) : ~(/\ v \in x.friends <=> {u, v} \in db.friends
                           /\ v \in x.blocks <=> <<u, v>> \in db.blocked)}
LoggingIn(u) == Has(server_strand_, LoginsOf(u)) \/ Has(manager_strand, LoginsOf(u))

Here(u) == u \in DOMAIN users_ /\ users_[u].current_session # Nobody

\* Whether u will have v as a friend, or as blocked, when all that the UserManager has
\* been told is handled.
WillBefriend(u, v) ==
    Final(v, users_[u].friends, manager_strand, Making(u, v), Breaking(u, v))
WillBlock(u, v) ==
    Final(v, users_[u].blocked_users, manager_strand, Blocking(u, v), Lifting(u, v))

\* The lists of u are then those of the tables, but for what is half done.
Cached(u, v) ==
    /\ {u, v} \in db.friends \/ Accepting(u, v) <=>
            WillBefriend(u, v) /\ ~Owed(Breaking(u, v))
    /\ <<u, v>> \in db.blocked <=>
            Owed(Blocking(u, v)) \/ (WillBlock(u, v) /\ ~Owed(Lifting(u, v)))

\* As long as nothing has overlapped: one change of the pair at a time, none while a
\* login of u carries its lists to the UserManager, and none handled behind it.
InStep(u, v) ==
    /\ \A w, x \in Users : Doing(w, u, v) /\ Doing(x, u, v) => w = x
    /\ ~Has(server_strand_, Wrong(u, v)) /\ ~Has(manager_strand, Wrong(u, v))
    /\ NoneBefore(manager_strand, OfPair(u, v), LoginsOf(u))
    /\ LoggingIn(u) => Nothing(u, v)
    /\ ~LoggingIn(u) /\ Here(u) => Cached(u, v)

AllInStep ==
    \A u, v \in Users : u # v /\ {u, v} \notin ghost.raced => InStep(u, v)

\* A step that is not about the pair leaves its jobs as they are.
SameJobs(u, v) ==
    \A w \in Users :
        /\ Doing(w, u, v)' <=> Doing(w, u, v)
        /\ Doing(w, u, v) => stage'[w] = stage[w] /\ FirstJob(w)' = FirstJob(w)

LEMMA PairItems ==
    ASSUME NEW u, NEW v
    PROVE  /\ Making(u, v) \subseteq OfPair(u, v) /\ Breaking(u, v) \subseteq OfPair(u, v)
           /\ Blocking(u, v) \subseteq OfPair(u, v) /\ Lifting(u, v) \subseteq OfPair(u, v)
           /\ \A x \in OfPair(u, v) :
                /\ x \in ListItem /\ {x.by, x.to} = {u, v}
                /\ x.op \in {"accept", "remove", "block", "unblock"}
                /\ x.op # "login" /\ x \notin LoginsOf(u)
  BY DEF Making, Breaking, Blocking, Lifting, OfPair, ListItem, LoginsOf, LoginItem

LEMMA JobsAsBefore ==
    ASSUME NEW u \in Users, NEW v \in Users, SameJobs(u, v)
    PROVE  /\ (\A w, x \in Users : Doing(w, u, v) /\ Doing(x, u, v) => w = x) =>
                \A w, x \in Users : Doing(w, u, v)' /\ Doing(x, u, v)' => w = x
           /\ Nothing(u, v)' <=> Nothing(u, v)
           /\ Accepting(u, v)' <=> Accepting(u, v)
           /\ \A X \in SUBSET OfPair(u, v) : Owed(X)' <=> Owed(X)
  <1>1. Making(u, v) \subseteq OfPair(u, v)
    BY PairItems
  <1>2. /\ (\A w, x \in Users : Doing(w, u, v) /\ Doing(x, u, v) => w = x) =>
                \A w, x \in Users : Doing(w, u, v)' /\ Doing(x, u, v)' => w = x
        /\ Nothing(u, v)' <=> Nothing(u, v)
    BY DEF SameJobs, Nothing
  <1>3. ASSUME NEW X \in SUBSET OfPair(u, v), NEW st \in {"posted", "committed"},
               NEW w \in Users
        PROVE  (stage'[w] = st /\ FirstJob(w)' \in X) <=> (stage[w] = st /\ FirstJob(w) \in X)
    BY <1>3 DEF SameJobs, Doing
  <1>4. Accepting(u, v)' <=> Accepting(u, v)
    <2>1. Making(u, v)' = Making(u, v)
      BY DEF Making, OfPair, ListItem
    <2>2. Making(u, v) \in SUBSET OfPair(u, v)
      BY <1>1
    <2> HIDE DEF Making
    <2> QED BY <1>3, <2>1, <2>2 DEF Accepting
  <1>5. ASSUME NEW X \in SUBSET OfPair(u, v) PROVE Owed(X)' <=> Owed(X)
    BY <1>3, <1>5 DEF Owed
  <1> QED BY <1>2, <1>4, <1>5

\* One change of the pair is under way, that of strand w.
LEMMA OneJob ==
    ASSUME NEW u \in Users, NEW v \in Users, NEW w \in Users,
           \A x \in Users \ {w} : ~Doing(x, u, v)
    PROVE  /\ Accepting(u, v) <=> stage[w] = "posted" /\ FirstJob(w) \in Making(u, v)
           /\ \A X \in SUBSET OfPair(u, v) :
                Owed(X) <=> stage[w] = "committed" /\ FirstJob(w) \in X
  BY PairItems DEF Accepting, Owed, Doing

\* A step of a change of the pair that can be seen from outside.
OnPair(w, u, v) ==
    /\ uuid_strands_[w] # <<>> /\ FirstJob(w) \in OfPair(u, v)
    /\ AcceptFriend(w) \/ Post(w) \/ (Commit(w) /\ GoOn(w, "committed"))

LEMMA StrandEnds ==
    ASSUME Typed, NEW w \in Users, OnStrand(w)
    PROVE  /\ \/ Finish(w) /\ stage'[w] = "begin"
              \/ \E st : GoOn(w, st) /\ stage'[w] = st /\ uuid_strands_' = uuid_strands_
           /\ FirstJob(w).op \in {"accept", "remove", "block", "unblock"} =>
                AcceptFriend(w) \/ Post(w) \/ Commit(w)
           /\ \/ stage'[w] \in {"begin", "tested"}
              \/ stage'[w] \in {"found", "posted"} /\ FirstJob(w).op = "accept"
              \/ stage'[w] = "committed" /\ FirstJob(w).op \in Changes
  <1>1. stage \in [Users -> {"begin", "tested", "found", "posted", "committed"}]
    BY DEF Typed, OtherTypes
  <1>2. /\ \A st : GoOn(w, st) => stage'[w] = st /\ uuid_strands_' = uuid_strands_
        /\ Finish(w) => stage'[w] = "begin"
    BY <1>1 DEF GoOn, Finish
  <1>3. \/ Finish(w)
        \/ GoOn(w, "tested")
        \/ (GoOn(w, "found") \/ GoOn(w, "posted")) /\ FirstJob(w).op = "accept"
        \/ GoOn(w, "committed") /\ FirstJob(w).op \in Changes
    BY DEF OnStrand, AuthBanned, AuthRefused, AuthGood, do_send_friend_request,
           AcceptFriend, DeclineFriend, Commit, Post, do_unban_user,
           do_fetch_new_matches, At, FirstJob
  <1>4. FirstJob(w).op \in {"accept", "remove", "block", "unblock"} =>
                AcceptFriend(w) \/ Post(w) \/ Commit(w)
    BY DEF OnStrand, AuthBanned, AuthRefused, AuthGood, do_send_friend_request,
           DeclineFriend, do_unban_user, do_fetch_new_matches, At, FirstJob
  <1> HIDE DEF GoOn, Finish, FirstJob
  <1> QED BY <1>2, <1>3, <1>4

LEMMA HeadStays ==
    ASSUME Typed, NEW w \in Users, uuid_strands_[w] # <<>>,
           Grows(uuid_strands_[w], uuid_strands_'[w], StrandJob(w, Came))
    PROVE  uuid_strands_'[w] # <<>> /\ FirstJob(w)' = FirstJob(w)
  <1> DEFINE q == uuid_strands_[w]
             S == StrandJob(w, Came)
  <1>1. q \in Seq(S)
    BY DEF Typed, QueueTypes
  <1>2. q # <<>> /\ Grows(q, uuid_strands_'[w], S)
    OBVIOUS
  <1> HIDE DEF q, S
  <1>3. ASSUME NEW x \in S
        PROVE  Append(q, x) # <<>> /\ Head(Append(q, x)) = Head(q)
    BY <1>1, <1>2, AfterAppend
  <1> QED BY <1>2, <1>3 DEF Grows, FirstJob, q

LEMMA JobSteps ==
    ASSUME Typed, StagesFit, [Next]_vars, NEW u \in Users, NEW v \in Users
    PROVE  SameJobs(u, v) \/ \E w \in Users : OnPair(w, u, v)
  <1> SUFFICES ASSUME \A w \in Users : ~OnPair(w, u, v), NEW w \in Users
               PROVE  /\ Doing(w, u, v)' <=> Doing(w, u, v)
                      /\ Doing(w, u, v) =>
                            stage'[w] = stage[w] /\ FirstJob(w)' = FirstJob(w)
    BY DEF SameJobs
  <1>0. OfPair(u, v)' = OfPair(u, v)
    BY DEF OfPair, ListItem
  <1>1. CASE /\ stage'[w] = stage[w]
             /\ Grows(uuid_strands_[w], uuid_strands_'[w], StrandJob(w, Came))
    <2>1. stage[w] # "begin" => uuid_strands_[w] # <<>>
      BY DEF StagesFit
    <2>2. stage[w] # "begin" => FirstJob(w)' = FirstJob(w)
      BY <1>1, <2>1, HeadStays
    <2> QED BY <1>0, <1>1, <2>2 DEF Doing
  <1>2. CASE OnStrand(w) /\ uuid_strands_[w] # <<>>
    <2>1. CASE FirstJob(w) \notin OfPair(u, v)
      <3>1. ~Doing(w, u, v)
        BY <2>1 DEF Doing
      <3>2. stage'[w] = "begin" \/ FirstJob(w)' = FirstJob(w)
        BY <1>2, StrandEnds DEF FirstJob
      <3> QED BY <1>0, <2>1, <3>1, <3>2 DEF Doing
    <2>2. CASE FirstJob(w) \in OfPair(u, v)
      <3>1. FirstJob(w).op \in {"accept", "remove", "block", "unblock"}
        BY <2>2, PairItems
      <3>2. Commit(w) /\ ~GoOn(w, "committed")
        BY <1>2, <2>2, <3>1, StrandEnds DEF OnPair
      <3>3. stage[w] = "begin" /\ Finish(w)
        BY <3>2 DEF Commit, At
      <3>4. stage'[w] = "begin"
        BY <3>3 DEF Finish, Typed, OtherTypes
      <3> QED BY <3>3, <3>4 DEF Doing
    <2> QED BY <2>1, <2>2
  <1> QED BY <1>1, <1>2, StrandSteps DEF StrandMoves

LEMMA StagesFitStep ==
    ASSUME Typed, StagesFit, [Next]_vars
    PROVE  StagesFit'
  <1> SUFFICES ASSUME NEW w \in Users
               PROVE  /\ stage'[w] # "begin" => uuid_strands_'[w] # <<>>
                      /\ stage'[w] \in {"found", "posted"} => FirstJob(w)'.op = "accept"
                      /\ stage'[w] = "committed" => FirstJob(w)'.op \in Changes
    BY DEF StagesFit, Changes
  <1>1. CASE /\ stage'[w] = stage[w]
             /\ Grows(uuid_strands_[w], uuid_strands_'[w], StrandJob(w, Came))
    <2>1. /\ stage[w] # "begin" => uuid_strands_[w] # <<>>
          /\ stage[w] \in {"found", "posted"} => FirstJob(w).op = "accept"
          /\ stage[w] = "committed" => FirstJob(w).op \in Changes
      BY DEF StagesFit
    <2>2. stage[w] # "begin" => uuid_strands_'[w] # <<>> /\ FirstJob(w)' = FirstJob(w)
      BY <1>1, <2>1, HeadStays
    <2> QED BY <1>1, <2>1, <2>2
  <1>2. CASE OnStrand(w) /\ uuid_strands_[w] # <<>>
    <2>1. \/ stage'[w] = "begin"
          \/ uuid_strands_'[w] = uuid_strands_[w] /\ FirstJob(w)' = FirstJob(w)
      BY <1>2, StrandEnds DEF FirstJob
    <2>2. \/ stage'[w] \in {"begin", "tested"}
          \/ stage'[w] \in {"found", "posted"} /\ FirstJob(w).op = "accept"
          \/ stage'[w] = "committed" /\ FirstJob(w).op \in Changes
      BY <1>2, StrandEnds
    <2> QED BY <1>2, <2>1, <2>2
  <1> QED BY <1>1, <1>2, StrandSteps DEF StrandMoves

\* What the statements do to the friends and the blocks.
LEMMA PairTables ==
    ASSUME NEW d \in Tables, NEW j
    PROVE  /\ friend_request(d, j).friends = d.friends
           /\ friend_request(d, j).blocked = d.blocked
           /\ delete_friend_request(d, j).friends = d.friends
           /\ delete_friend_request(d, j).blocked = d.blocked
           /\ ban_user(d, j).friends = d.friends /\ ban_user(d, j).blocked = d.blocked
           /\ accept_friend(d, j).friends = d.friends \cup {{j.by, j.to}}
           /\ accept_friend(d, j).blocked = d.blocked
           /\ remove_friend(d, j).friends = d.friends \ {{j.by, j.to}}
           /\ remove_friend(d, j).blocked = d.blocked
           /\ block_user(d, j).friends = d.friends \ {{j.by, j.to}}
           /\ block_user(d, j).blocked = d.blocked \cup {<<j.by, j.to>>}
           /\ unblock_user(d, j).friends = d.friends
           /\ unblock_user(d, j).blocked = d.blocked \ {<<j.by, j.to>>}
  <1>1. /\ friend_request(d, j).friends = d.friends /\ friend_request(d, j).blocked = d.blocked
        /\ delete_friend_request(d, j).friends = d.friends
        /\ delete_friend_request(d, j).blocked = d.blocked
        /\ ban_user(d, j).friends = d.friends /\ ban_user(d, j).blocked = d.blocked
    BY DEF friend_request, delete_friend_request, ban_user, Tables
  <1>2. /\ accept_friend(d, j).friends = d.friends \cup {{j.by, j.to}}
        /\ accept_friend(d, j).blocked = d.blocked
    BY DEF accept_friend, delete_friend_request, Tables
  <1>3. /\ remove_friend(d, j).friends = d.friends \ {{j.by, j.to}}
        /\ remove_friend(d, j).blocked = d.blocked
    BY DEF remove_friend, Tables
  <1>4. /\ block_user(d, j).friends = d.friends \ {{j.by, j.to}}
        /\ block_user(d, j).blocked = d.blocked \cup {<<j.by, j.to>>}
    BY DEF block_user, remove_friend, Tables
  <1>5. /\ unblock_user(d, j).friends = d.friends
        /\ unblock_user(d, j).blocked = d.blocked \ {<<j.by, j.to>>}
    BY DEF unblock_user, Tables
  <1> QED BY <1>1, <1>2, <1>3, <1>4, <1>5

SameTables(u, v) ==
    /\ {u, v} \in db'.friends <=> {u, v} \in db.friends
    /\ <<u, v>> \in db'.blocked <=> <<u, v>> \in db.blocked

\* The items that are not about the pair and do not log u in.
Aside(u, v) == {x \in ManagerItem(Sessions) : x \notin OfPair(u, v) \cup LoginsOf(u)}

Beyond(u, v) ==
    /\ SameTables(u, v) /\ users_' = users_
    /\ Adds(server_strand_, server_strand_', Aside(u, v))
    /\ Adds(manager_strand, manager_strand', Aside(u, v))

\* The steps as the pair sees them.
LEMMA PairSteps ==
    ASSUME Typed, [Next]_vars, NEW u \in Users, NEW v \in Users
    PROVE  \/ RunManager \/ RunServer \/ Beyond(u, v)
           \/ \E w \in Users : AuthGood(w) \/ OnPair(w, u, v)
  <1>1. /\ manager_strand \in Seq(ManagerItem(Came)) /\ server_strand_ \in Seq(ServerItem(Came))
        /\ db \in Tables /\ Came \in SUBSET Sessions
        /\ stage \in [Users -> {"begin", "tested", "found", "posted", "committed"}]
    BY DEF Typed, QueueTypes, OtherTypes, Came
  <1>2. /\ Adds(manager_strand, manager_strand, Aside(u, v))
        /\ Adds(server_strand_, server_strand_, Aside(u, v))
    BY <1>1, AddsNothing
  <1>3. /\ \A x \in ListItem : x \notin OfPair(u, v) => x \in Aside(u, v)
        /\ \A x \in GoneItem(Came) \cup BanItem \cup MatchItem : x \in Aside(u, v)
    <2>1. \A x \in ListItem : x \notin LoginsOf(u) /\ x \in ManagerItem(Sessions)
      BY DEF LoginsOf, LoginItem, ListItem, ManagerItem
    <2>2. \A x \in GoneItem(Came) \cup BanItem \cup MatchItem :
                /\ x.op \notin {"login", "accept", "remove", "block", "unblock"}
                /\ x \in ManagerItem(Sessions)
      BY <1>1 DEF GoneItem, BanItem, MatchItem, ManagerItem, ServerItem
    <2>3. \A x \in LoginsOf(u) : x.op = "login"
      BY DEF LoginsOf, LoginItem
    <2> QED BY <2>1, <2>2, <2>3, PairItems DEF Aside
  <1>4. ASSUME db' = db, users_' = users_, server_strand_' = server_strand_,
               manager_strand' = manager_strand
        PROVE  Beyond(u, v)
    BY <1>2, <1>4 DEF Beyond, SameTables
  <1>5. ASSUME NEW w \in Users,
               \/ AuthBanned(w) \/ AuthRefused(w) \/ do_send_friend_request(w)
               \/ DeclineFriend(w) \/ do_unban_user(w) \/ do_fetch_new_matches(w)
        PROVE  Beyond(u, v)
    <2> DEFINE j == FirstJob(w)
    <2>1. /\ users_' = users_ /\ server_strand_' = server_strand_
          /\ manager_strand' = manager_strand
      BY <1>5 DEF AuthBanned, AuthRefused, do_send_friend_request, DeclineFriend,
                  do_unban_user, do_fetch_new_matches, At, manager
    <2>2. \/ db' = db \/ db' = friend_request(db, j) \/ db' = delete_friend_request(db, j)
          \/ db' = [db EXCEPT !.bans = @ \ {w}]
      BY <1>5 DEF AuthBanned, AuthRefused, do_send_friend_request, DeclineFriend,
                  do_unban_user, do_fetch_new_matches, FirstJob
    <2>3. LET e == [db EXCEPT !.bans = @ \ {w}]
          IN  e.friends = db.friends /\ e.blocked = db.blocked
      BY <1>1 DEF Tables
    <2> HIDE DEF j
    <2>4. db'.friends = db.friends /\ db'.blocked = db.blocked
      <3>1. /\ friend_request(db, j).friends = db.friends
            /\ friend_request(db, j).blocked = db.blocked
            /\ delete_friend_request(db, j).friends = db.friends
            /\ delete_friend_request(db, j).blocked = db.blocked
        BY <1>1, PairTables
      <3> QED BY <2>2, <2>3, <3>1
    <2> QED BY <1>2, <2>1, <2>4 DEF Beyond, SameTables
  <1>6. ASSUME NEW w \in Users, AcceptFriend(w) \/ Post(w) \/ Commit(w)
        PROVE  OnPair(w, u, v) \/ Beyond(u, v)
    <2> DEFINE j == FirstJob(w)
    <2>1. /\ users_' = users_ /\ uuid_strands_[w] # <<>>
          /\ j.op \in {"accept", "remove", "block", "unblock", "ban"}
      BY <1>6 DEF AcceptFriend, Commit, Post, At, Changes, manager, FirstJob
    <2>2. j \in StrandJob(w, Came)
      BY <2>1, HeadJob DEF FirstJob
    <2>3. \/ /\ server_strand_' = server_strand_
             /\ \/ manager_strand' = manager_strand
                \/ j.op # "ban" /\ manager_strand' = Append(manager_strand, j)
          \/ /\ manager_strand' = manager_strand
             /\ j.op = "ban" /\ server_strand_' = Append(server_strand_, j)
      BY <1>6 DEF AcceptFriend, Commit, Post, At, FirstJob
    <2>4. \/ db' = db
          \/ j.op = "accept" /\ db' = accept_friend(db, j)
          \/ j.op = "block" /\ db' = block_user(db, j)
          \/ j.op = "unblock" /\ db' = unblock_user(db, j)
          \/ j.op = "remove" /\ db' = remove_friend(db, j)
          \/ j.op = "ban" /\ db' = ban_user(db, j)
      BY <1>6 DEF AcceptFriend, Commit, Post, At, Changes, FirstJob
    <2>5. /\ j.op = "ban" => j \in BanItem
          /\ j.op # "ban" => j \in ListItem
      <3> HIDE DEF j
      <3> QED BY <1>1, <2>1, <2>2, JobFields
    <2>6. CASE j \in OfPair(u, v)
      <3>1. \/ OnPair(w, u, v)
            \/ Commit(w) /\ ~GoOn(w, "committed")
        BY <1>6, <2>1, <2>6 DEF OnPair
      <3>2. Commit(w) /\ ~GoOn(w, "committed") =>
                /\ db' = db /\ server_strand_' = server_strand_
                /\ manager_strand' = manager_strand
        BY DEF Commit
      <3> QED BY <1>4, <2>1, <3>1, <3>2
    <2>7. CASE j \notin OfPair(u, v)
      <3> HIDE DEF j
      <3>1. j \in Aside(u, v)
        BY <1>3, <2>5, <2>7
      <3>2. /\ j.op # "ban" => j \in ManagerItem(Came)
            /\ j.op = "ban" => j \in ServerItem(Came)
        BY <2>5 DEF ManagerItem, ServerItem
      <3>3. /\ Adds(server_strand_, server_strand_', Aside(u, v))
            /\ Adds(manager_strand, manager_strand', Aside(u, v))
        BY <1>1, <1>2, <2>3, <3>1, <3>2, AppendAdds
      <3>4. j.op # "ban" => {j.by, j.to} # {u, v} /\ <<j.by, j.to>> # <<u, v>>
        BY <2>5, <2>7 DEF OfPair
      <3>5. SameTables(u, v)
        <4>1. /\ accept_friend(db, j).friends = db.friends \cup {{j.by, j.to}}
              /\ accept_friend(db, j).blocked = db.blocked
              /\ remove_friend(db, j).friends = db.friends \ {{j.by, j.to}}
              /\ remove_friend(db, j).blocked = db.blocked
          BY <1>1, PairTables
        <4>2. /\ block_user(db, j).friends = db.friends \ {{j.by, j.to}}
              /\ block_user(db, j).blocked = db.blocked \cup {<<j.by, j.to>>}
              /\ unblock_user(db, j).friends = db.friends
              /\ unblock_user(db, j).blocked = db.blocked \ {<<j.by, j.to>>}
          BY <1>1, PairTables
        <4>3. ban_user(db, j).friends = db.friends /\ ban_user(db, j).blocked = db.blocked
          BY <1>1, PairTables
        <4> DEFINE p == {u, v}
                   q == {j.by, j.to}
                   a == <<u, v>>
                   b == <<j.by, j.to>>
        <4>4. j.op # "ban" => p # q /\ a # b
          BY <3>4
        <4> HIDE DEF p, q, a, b
        <4>5. /\ p \in db'.friends <=> p \in db.friends
              /\ a \in db'.blocked <=> a \in db.blocked
          BY <2>4, <4>1, <4>2, <4>3, <4>4 DEF q, b
        <4> QED BY <4>5 DEF SameTables, p, a
      <3> QED BY <2>1, <3>3, <3>5 DEF Beyond
    <2> QED BY <2>6, <2>7
  <1>7. ASSUME NEW s \in Sessions, remove_session(s) PROVE Beyond(u, v)
    <2> DEFINE x == [op |-> "disconnect", s |-> s]
    <2>1. /\ s \in Came /\ server_strand_' = Append(server_strand_, x)
          /\ db' = db /\ users_' = users_ /\ manager_strand' = manager_strand
      BY <1>7 DEF remove_session, Came, manager
    <2>2. x \in ServerItem(Came) /\ x \in GoneItem(Came)
      BY <2>1 DEF ServerItem, GoneItem
    <2> HIDE DEF x
    <2>3. x \in Aside(u, v)
      BY <1>3, <2>2
    <2> QED BY <1>1, <1>2, <2>1, <2>2, <2>3, AppendAdds DEF Beyond, SameTables
  <1>8. ASSUME NEW s \in Sessions,
               \/ handle_accept(s) \/ LosePeer(s) \/ FetchMatchHistory(s)
               \/ \E w \in Users :
                    \/ Login(s, w) \/ Register(s, w)
                    \/ \E op \in ByName \cup ById : ChangeRelation(s, op, w)
        PROVE  Beyond(u, v)
    <2>1. UNCHANGED <<db, users_, server_strand_, manager_strand>>
      BY <1>8 DEF handle_accept, LosePeer, FetchMatchHistory, Login, Register,
                  ChangeRelation, strands, manager
    <2> QED BY <1>4, <2>1
  <1>9. ASSUME NEW op, NEW x, Console(op, x) PROVE Beyond(u, v)
    BY <1>4, <1>9 DEF Console, manager
  <1>10. ASSUME NEW j \in pool, \/ Lookup(j) \/ do_register(j) \/ do_ban_ip(j)
                                \/ do_unban_ip(j) \/ FailOnPool(j)
         PROVE  Beyond(u, v)
    <2>1. UNCHANGED <<users_, server_strand_, manager_strand>>
      BY <1>10 DEF Lookup, do_register, do_ban_ip, do_unban_ip, FailOnPool, OffPool,
                   manager
    <2>2. db'.friends = db.friends /\ db'.blocked = db.blocked
      BY <1>1, <1>10 DEF Lookup, do_register, do_ban_ip, do_unban_ip, FailOnPool, Tables
    <2> QED BY <1>2, <2>1, <2>2 DEF Beyond, SameTables
  <1>11. ASSUME NEW m \in Matches,
                \/ StartMatch(m) \/ FinishMatch(m) \/ RecordMatch(m)
                \/ \E w \in Users : ForfeitMatch(m, w)
         PROVE  Beyond(u, v)
    <2>1. UNCHANGED <<db, users_, server_strand_>>
      BY <1>11 DEF StartMatch, FinishMatch, RecordMatch, ForfeitMatch, strands, manager
    <2>2. \A N : N \subseteq MatchItem /\ Grown(N) =>
                Adds(manager_strand, manager_strand', Aside(u, v))
      BY <1>3 DEF Grown, Adds
    <2>3. \/ manager_strand' = manager_strand
          \/ \E N : N \subseteq MatchItem /\ Grown(N)
      <3>1. RecordMatch(m) => manager_strand' = manager_strand
        BY DEF RecordMatch, strands
      <3>2. \A op : {x \in MatchItem : x.op = op /\ x.m = m} \subseteq MatchItem
        OBVIOUS
      <3>3. \A w : {x \in MatchItem : x.op = "finished" /\ x.m = m /\ x.u = w}
                        \subseteq MatchItem
        OBVIOUS
      <3>4. CASE StartMatch(m)
        BY <3>2, <3>4, MatchStepsAdd
      <3>5. CASE FinishMatch(m)
        BY <3>2, <3>5, MatchStepsAdd
      <3>6. ASSUME NEW w \in Users, ForfeitMatch(m, w)
            PROVE  \E N : N \subseteq MatchItem /\ Grown(N)
        BY <3>3, <3>6, MatchStepsAdd
      <3> QED BY <1>11, <3>1, <3>4, <3>5, <3>6
    <2> QED BY <1>2, <2>1, <2>2, <2>3 DEF Beyond, SameTables
  <1>12. ASSUME UNCHANGED vars PROVE Beyond(u, v)
    BY <1>4, <1>12 DEF vars, strands, manager
  <1> QED BY <1>5, <1>6, <1>7, <1>8, <1>9, <1>10, <1>11, <1>12 DEF Next

\* A user whose lists the handler leaves as they are, who may have lost the session.
ListsStay(u) ==
    /\ u \in DOMAIN users_ /\ users_[u].current_session # Nobody
    /\ users_'[u].friends = users_[u].friends
    /\ users_'[u].blocked_users = users_[u].blocked_users

LEMMA OthersStay ==
    ASSUME Typed, RunManager, NEW u \in Users, Here(u)',
           ItemHead.op \in {"disconnect", "start", "finished", "ban"}
    PROVE  ListsStay(u)
  <1> DEFINE h == ItemHead
             w == Handle(World, h)
  <1>1. users_' = w.users_
    BY Handled
  <1>2. IsUsers(users_) /\ u \in DOMAIN users_' /\ users_'[u].current_session # Nobody
    BY DEF Typed, ManagerTypes, Here
  <1>4. ASSUME NEW x, users_' = Without(users_, x) PROVE ListsStay(u)
    BY <1>2, <1>4 DEF Without, ListsStay, IsUsers
  <1>5. ASSUME NEW x, x \in DOMAIN users_, users_' = [users_ EXCEPT ![x].current_session = Nobody]
        PROVE  ListsStay(u)
    BY <1>2, <1>5 DEF ListsStay, IsUsers, UserRec
  <1>6. ASSUME NEW x, NEW m, users_' = [users_ EXCEPT ![x].current_match = m]
        PROVE  ListsStay(u)
    BY <1>2, <1>6 DEF ListsStay, IsUsers, UserRec
  <1>7. ASSUME users_' = users_ PROVE ListsStay(u)
    BY <1>2, <1>7 DEF ListsStay
  <1>8. CASE h.op = "disconnect"
    <2> DEFINE x == sid_to_uuid_[h.s]
               gone == [World EXCEPT !.session[h.s].state = "gone"]
               unmapped == [gone EXCEPT !.sid_to_uuid_ = Without(@, h.s)]
    <2>1. w = disconnect(World, h)
      BY <1>8 DEF Handle
    <2>2. \/ w = gone \/ w = unmapped
          \/ w = [unmapped EXCEPT !.users_ = Without(@, x)]
          \/ x \in DOMAIN users_ /\ w = [unmapped EXCEPT !.users_[x].current_session = Nobody]
      BY <2>1 DEF disconnect, World, Known, replaced, drop_user
    <2>3. /\ gone.users_ = users_ /\ unmapped.users_ = users_
          /\ \A y : [unmapped EXCEPT !.users_ = y].users_ = y
      <3> DEFINE a == [session EXCEPT ![h.s].state = "gone"]
      <3>1. gone = [users_ |-> users_, sid_to_uuid_ |-> sid_to_uuid_, session |-> a]
        BY DEF World
      <3> HIDE DEF gone, a
      <3> DEFINE b == Without(gone.sid_to_uuid_, h.s)
      <3>2. unmapped = [gone EXCEPT !.sid_to_uuid_ = b]
        OBVIOUS
      <3> HIDE DEF unmapped, b
      <3>3. unmapped = [users_ |-> users_, sid_to_uuid_ |-> b, session |-> a]
        BY <3>1, <3>2
      <3> QED BY <3>1, <3>3
    <2> HIDE DEF gone, unmapped, w, x
    <2>4. \/ users_' = users_ \/ users_' = Without(users_, x)
          \/ x \in DOMAIN users_ /\ users_' = [users_ EXCEPT ![x].current_session = Nobody]
      BY <1>1, <2>2, <2>3
    <2> QED BY <1>4, <1>5, <1>7, <2>4
  <1>9. CASE h.op = "start"
    <2>1. w = notify_match_start(World, h)
      BY <1>9 DEF Handle
    <2>2. \/ w = World
          \/ w = [World EXCEPT !.users_[h.u].current_match = h.m]
      BY <2>1 DEF notify_match_start
    <2> HIDE DEF h, w
    <2>3. users_' = users_ \/ users_' = [users_ EXCEPT ![h.u].current_match = h.m]
      BY <1>1, <2>2 DEF World
    <2> QED BY <1>6, <1>7, <2>3
  <1>10. CASE h.op = "finished"
    <2> DEFINE s == users_[h.u].current_session
    <2>1. w = notify_match_finished(World, h)
      BY <1>10 DEF Handle
    <2>2. \/ w = World
          \/ w = [World EXCEPT !.users_ = Without(@, h.u)]
          \/ w = [World EXCEPT !.users_[h.u].current_match = Nobody,
                               !.session[s].has_new_matches_ = h.mode \/ @]
      BY <2>1 DEF notify_match_finished, World, Known
    <2> HIDE DEF h, w, s
    <2>3. CASE w = World
      BY <1>1, <1>7, <2>3 DEF World
    <2>4. CASE w = [World EXCEPT !.users_ = Without(@, h.u)]
      <3>1. users_' = Without(users_, h.u)
        BY <1>1, <2>4 DEF World
      <3> QED BY <1>4, <3>1
    <2>5. CASE w = [World EXCEPT !.users_[h.u].current_match = Nobody,
                                !.session[s].has_new_matches_ = h.mode \/ @]
      <3>1. users_' = [users_ EXCEPT ![h.u].current_match = Nobody]
        BY <1>1, <2>5 DEF World
      <3> QED BY <1>6, <3>1
    <2> QED BY <2>2, <2>3, <2>4, <2>5
  <1>11. CASE h.op = "ban"
    <2> DEFINE s == users_[h.to].current_session
    <2>1. w = on_ban_user(World, h)
      BY <1>11 DEF Handle
    <2>2. \/ w = World
          \/ w = [World EXCEPT !.users_ = Without(@, h.to),
                               !.session = close_session(@, s)]
      BY <2>1 DEF on_ban_user, World, Known
    <2> HIDE DEF h, w, s
    <2>3. CASE w = World
      BY <1>1, <1>7, <2>3 DEF World
    <2>4. CASE w = [World EXCEPT !.users_ = Without(@, h.to),
                                !.session = close_session(@, s)]
      <3>1. users_' = Without(users_, h.to)
        BY <1>1, <2>4 DEF World
      <3> QED BY <1>4, <3>1
    <2> QED BY <2>2, <2>3, <2>4
  <1> QED BY <1>8, <1>9, <1>10, <1>11

\* What a change that has been told does to the lists of a user who is connected.
ListsFollow(u, v) ==
    /\ Here(u)
    /\ v \in users_'[u].friends <=>
            ItemHead \in Making(u, v) \/ (v \in users_[u].friends /\ ItemHead \notin Breaking(u, v))
    /\ v \in users_'[u].blocked_users <=>
            \/ ItemHead \in Blocking(u, v)
            \/ v \in users_[u].blocked_users /\ ItemHead \notin Lifting(u, v)

LEMMA ChangesRun ==
    ASSUME Typed, RunManager, NEW u \in Users, NEW v \in Users, u # v, Here(u)',
           ItemHead.op \in {"block", "unblock", "accept", "remove"}
    PROVE  ListsFollow(u, v)
  <1> DEFINE h == ItemHead
  <1>1. h.by \in Users /\ h.to \in Users /\ h \in ManagerItem(Came)
    BY HeadItem, ItemFields DEF Came
  <1>2. h \in ListItem
    <2> HIDE DEF h
    <2>1. h.op \in {"block", "unblock", "accept", "remove"}
      BY DEF h
    <2> QED BY <1>1, <2>1 DEF ManagerItem, ServerItem, LoginItem, GoneItem, BanItem, MatchItem
  <1>3. IsUsers(users_) /\ DOMAIN users_' = DOMAIN users_ /\ Here(u)
    BY ListsRun DEF Typed, ManagerTypes, ListEffect, SamePlace, Here
  <1>4. users_[u] \in UserRec /\ users_[u].current_session # Nobody /\ u \in DOMAIN users_
    BY <1>3 DEF IsUsers, Here
  <1>5. /\ h \in OfPair(u, v) <=> (h.by = u /\ h.to = v) \/ (h.by = v /\ h.to = u)
        /\ h \in Making(u, v) <=> h \in OfPair(u, v) /\ h.op = "accept"
        /\ h \in Breaking(u, v) <=> h \in OfPair(u, v) /\ h.op \in {"remove", "block"}
        /\ h \in Blocking(u, v) <=> h.op = "block" /\ h.by = u /\ h.to = v
        /\ h \in Lifting(u, v) <=> h.op = "unblock" /\ h.by = u /\ h.to = v
    <2> HIDE DEF h
    <2>1. h \in OfPair(u, v) <=> (h.by = u /\ h.to = v) \/ (h.by = v /\ h.to = u)
      BY <1>2 DEF OfPair
    <2> QED BY <2>1 DEF Making, Breaking, Blocking, Lifting
  <1>6. CASE h.op = "block"
    <2> DEFINE f == [x \in DOMAIN users_ |->
                CASE x = h.by -> [users_[x] EXCEPT !.friends = @ \ {h.to}, !.blocked_users = @ \cup {h.to}]
                  [] x = h.to ->
                        [users_[x] EXCEPT !.friends = @ \ {h.by}]
                  [] OTHER -> users_[x]]
    <2>1. Handle(World, h) = on_block_user(World, h)
      BY <1>6 DEF Handle
    <2>2. users_' = f
      <3>1. World.users_ = users_
        BY DEF World
      <3>2. on_block_user(World, h) = [World EXCEPT !.users_ = f]
        BY <3>1 DEF on_block_user
      <3> HIDE DEF f
      <3> QED BY <2>1, <3>2, Handled DEF World
    <2>3. users_'[u] =
                CASE u = h.by -> [users_[u] EXCEPT !.friends = @ \ {h.to}, !.blocked_users = @ \cup {h.to}]
                  [] u = h.to ->
                        [users_[u] EXCEPT !.friends = @ \ {h.by}]
                  [] OTHER -> users_[u]
      BY <1>4, <2>2
    <2> HIDE DEF f
    <2> HIDE DEF h
    <2> QED BY <1>3, <1>4, <1>5, <1>6, <2>3 DEF ListsFollow, UserRec, h
  <1>7. CASE h.op = "unblock"
    <2>1. Handle(World, h) = on_unblock_user(World, h)
      BY <1>7 DEF Handle
    <2>2. users_'[u] = IF u = h.by THEN [users_[u] EXCEPT !.blocked_users = @ \ {h.to}]
                       ELSE users_[u]
      BY <1>4, <2>1, Handled DEF on_unblock_user, World
    <2> HIDE DEF h
    <2> QED BY <1>3, <1>4, <1>5, <1>7, <2>2 DEF ListsFollow, UserRec, h
  <1>8. CASE h.op = "accept"
    <2> DEFINE f == [x \in DOMAIN users_ |->
                CASE x = h.by -> [users_[x] EXCEPT !.friends = @ \cup {h.to}]
                  [] x = h.to /\ users_[x].current_session # Nobody ->
                        [users_[x] EXCEPT !.friends = @ \cup {h.by}]
                  [] OTHER -> users_[x]]
    <2>1. Handle(World, h) = on_friend_user(World, h)
      BY <1>8 DEF Handle
    <2>2. users_' = f
      <3>1. World.users_ = users_
        BY DEF World
      <3>2. on_friend_user(World, h) = [World EXCEPT !.users_ = f]
        BY <3>1 DEF on_friend_user
      <3> HIDE DEF f
      <3> QED BY <2>1, <3>2, Handled DEF World
    <2>3. users_'[u] =
                CASE u = h.by -> [users_[u] EXCEPT !.friends = @ \cup {h.to}]
                  [] u = h.to ->
                        [users_[u] EXCEPT !.friends = @ \cup {h.by}]
                  [] OTHER -> users_[u]
      BY <1>4, <2>2
    <2> HIDE DEF f
    <2> HIDE DEF h
    <2> QED BY <1>3, <1>4, <1>5, <1>8, <2>3 DEF ListsFollow, UserRec, h
  <1>9. CASE h.op = "remove"
    <2> DEFINE f == [x \in DOMAIN users_ |->
                CASE x = h.by -> [users_[x] EXCEPT !.friends = @ \ {h.to}]
                  [] x = h.to /\ users_[x].current_session # Nobody ->
                        [users_[x] EXCEPT !.friends = @ \ {h.by}]
                  [] OTHER -> users_[x]]
    <2>1. Handle(World, h) = on_unfriend_user(World, h)
      BY <1>9 DEF Handle
    <2>2. users_' = f
      <3>1. World.users_ = users_
        BY DEF World
      <3>2. on_unfriend_user(World, h) = [World EXCEPT !.users_ = f]
        BY <3>1 DEF on_unfriend_user
      <3> HIDE DEF f
      <3> QED BY <2>1, <3>2, Handled DEF World
    <2>3. users_'[u] =
                CASE u = h.by -> [users_[u] EXCEPT !.friends = @ \ {h.to}]
                  [] u = h.to ->
                        [users_[u] EXCEPT !.friends = @ \ {h.by}]
                  [] OTHER -> users_[u]
      BY <1>4, <2>2
    <2> HIDE DEF f
    <2> HIDE DEF h
    <2> QED BY <1>3, <1>4, <1>5, <1>9, <2>3 DEF ListsFollow, UserRec, h
  <1> QED BY <1>6, <1>7, <1>8, <1>9

LEMMA ListsTold ==
    ASSUME Typed, RunManager, NEW u \in Users, NEW v \in Users, u # v, Here(u)'
    PROVE  \/ /\ ItemHead \in LoginsOf(u)
              /\ users_'[u].friends = ItemHead.friends
              /\ users_'[u].blocked_users = ItemHead.blocks
           \/ ItemHead \notin LoginsOf(u) /\ ListsFollow(u, v)
  <1> DEFINE h == ItemHead
  <1>1. h \in ManagerItem(Came) /\ Came \in SUBSET Sessions
    BY HeadItem DEF Came
  <1>2. h.op \in {"login", "disconnect", "start", "finished", "ban", "block",
                  "unblock", "accept", "remove"}
    BY <1>1, ItemFields
  <1>3. h.op # "login" => h \notin LoginsOf(u)
    BY DEF LoginsOf, LoginItem
  <1>4. CASE h.op \in {"block", "unblock", "accept", "remove"}
    BY <1>3, <1>4, ChangesRun
  <1>5. h.op \notin {"block", "unblock", "accept", "remove"} => h \notin OfPair(u, v)
    BY PairItems
  <1>6. ListsStay(u) /\ h \notin OfPair(u, v) => ListsFollow(u, v)
    BY PairItems DEF ListsStay, ListsFollow, Here
  <1>7. CASE h.op \in {"disconnect", "start", "finished", "ban"}
    BY <1>3, <1>5, <1>6, <1>7, OthersStay
  <1>8. CASE h.op = "login"
    <2> DEFINE old == IF h.u \in DOMAIN users_ THEN users_[h.u]
                      ELSE User(Nobody, Nobody, {}, {})
               new == User(h.s, old.current_match, h.friends, h.blocks)
    <2>1. Handle(World, h) = on_login(World, h)
      BY <1>8 DEF Handle
    <2>2. users_' = Put(users_, h.u, new)
      BY <2>1, Handled DEF on_login, World, Known
    <2>3. new.friends = h.friends /\ new.blocked_users = h.blocks
      BY DEF User
    <2>4. h \in LoginsOf(u) <=> h.u = u
      <3> HIDE DEF h
      <3>1. h \in LoginItem(Sessions)
        BY <1>1, <1>8 DEF ManagerItem, ServerItem, LoginItem, GoneItem, BanItem, MatchItem,
                          ListItem
      <3> QED BY <3>1 DEF LoginsOf
    <2> HIDE DEF new, old, h
    <2>5. CASE h.u = u
      <3>1. users_'[u] = new
        BY <2>2, <2>5 DEF Put
      <3> QED BY <2>3, <2>4, <2>5, <3>1 DEF h
    <2>6. CASE h.u # u
      <3>1. u \in DOMAIN users_ /\ users_'[u] = users_[u]
        BY <2>2, <2>6 DEF Put, Here
      <3>2. ListsStay(u)
        BY <3>1 DEF ListsStay, Here
      <3> QED BY <1>5, <1>6, <1>8, <2>4, <2>6, <3>2 DEF h
    <2> QED BY <2>5, <2>6
  <1> QED BY <1>2, <1>4, <1>7, <1>8

\* The sets of items are the same before and after a step.
LEMMA SameItems ==
    ASSUME NEW u \in Users, NEW v \in Users
    PROVE  /\ OfPair(u, v)' = OfPair(u, v) /\ LoginsOf(u)' = LoginsOf(u)
           /\ Making(u, v)' = Making(u, v) /\ Breaking(u, v)' = Breaking(u, v)
           /\ Blocking(u, v)' = Blocking(u, v) /\ Lifting(u, v)' = Lifting(u, v)
  BY DEF OfPair, ListItem, LoginsOf, LoginItem, Making, Breaking, Blocking, Lifting

LEMMA StillRight ==
    ASSUME NEW u \in Users, NEW v \in Users
    PROVE  /\ Wrong(u, v) \subseteq LoginsOf(u) /\ Wrong(u, v)' \subseteq LoginsOf(u)
           /\ SameTables(u, v) => Wrong(u, v)' = Wrong(u, v)
  <1>1. LoginsOf(u)' = LoginsOf(u)
    BY SameItems
  <1> QED BY <1>1 DEF Wrong, SameTables

\* The lists are as they were: nothing of the pair has changed but in the queues.
LEMMA CachedStays ==
    ASSUME NEW u \in Users, NEW v \in Users, Cached(u, v), SameJobs(u, v), SameTables(u, v),
           WillBefriend(u, v)' <=> WillBefriend(u, v),
           WillBlock(u, v)' <=> WillBlock(u, v)
    PROVE  Cached(u, v)'
  <1>1. Accepting(u, v)' <=> Accepting(u, v)
    BY JobsAsBefore
  <1>2. \A X \in SUBSET OfPair(u, v) : Owed(X)' <=> Owed(X)
    BY JobsAsBefore
  <1>3. /\ Owed(Breaking(u, v))' <=> Owed(Breaking(u, v))
        /\ Owed(Blocking(u, v))' <=> Owed(Blocking(u, v))
        /\ Owed(Lifting(u, v))' <=> Owed(Lifting(u, v))
    BY <1>2, SameItems, PairItems DEF Owed
  <1> QED BY <1>1, <1>3 DEF Cached, SameTables

LEMMA BeyondStep ==
    ASSUME NEW u \in Users, NEW v \in Users, InStep(u, v), SameJobs(u, v), Beyond(u, v)
    PROVE  InStep(u, v)'
  <1> DEFINE N == Aside(u, v)
  <1>1. /\ Adds(server_strand_, server_strand_', N) /\ Adds(manager_strand, manager_strand', N)
        /\ SameTables(u, v) /\ users_' = users_
    BY DEF Beyond
  <1>2. N \cap OfPair(u, v) = {} /\ N \cap LoginsOf(u) = {} /\ N \cap Wrong(u, v) = {}
    BY StillRight DEF Aside
  <1>3. /\ N \cap Making(u, v) = {} /\ N \cap Breaking(u, v) = {}
        /\ N \cap Blocking(u, v) = {} /\ N \cap Lifting(u, v) = {}
    BY <1>2, PairItems
  <1> HIDE DEF N
  <1>4. /\ \A X : N \cap X = {} => (Has(server_strand_', X) <=> Has(server_strand_, X))
        /\ \A X : N \cap X = {} => (Has(manager_strand', X) <=> Has(manager_strand, X))
    BY <1>1, QueueAdds
  <1>5. \A X, Y : N \cap X = {} /\ NoneBefore(manager_strand, X, Y) =>
                    NoneBefore(manager_strand', X, Y)
    BY <1>1, QueueAdds
  <1>6. \A x, L, A, R : N \cap A = {} /\ N \cap R = {} =>
                (Final(x, L, manager_strand', A, R) <=> Final(x, L, manager_strand, A, R))
    BY <1>1, QueueAdds
  <1>7. WillBefriend(u, v)' <=> WillBefriend(u, v)
    BY <1>1, <1>3, <1>6, SameItems DEF WillBefriend
  <1>8. WillBlock(u, v)' <=> WillBlock(u, v)
    BY <1>1, <1>3, <1>6, SameItems DEF WillBlock
  <1>9. LoggingIn(u)' <=> LoggingIn(u)
    BY <1>2, <1>4, SameItems DEF LoggingIn
  <1>10. Here(u)' <=> Here(u)
    BY <1>1 DEF Here
  <1>11. /\ ~Has(server_strand_', Wrong(u, v)') /\ ~Has(manager_strand', Wrong(u, v)')
         /\ NoneBefore(manager_strand', OfPair(u, v)', LoginsOf(u)')
    BY <1>1, <1>2, <1>4, <1>5, SameItems, StillRight DEF InStep
  <1>12. /\ \A w, x \in Users : Doing(w, u, v)' /\ Doing(x, u, v)' => w = x
         /\ Nothing(u, v)' <=> Nothing(u, v)
    BY JobsAsBefore DEF InStep
  <1>13. Cached(u, v) => Cached(u, v)'
    BY <1>1, <1>7, <1>8, CachedStays
  <1> QED BY <1>9, <1>10, <1>11, <1>12, <1>13 DEF InStep

\* A handler of the server's strand passes on to the UserManager.
LEMMA ServerStep ==
    ASSUME Typed, NEW u \in Users, NEW v \in Users, InStep(u, v), SameJobs(u, v), RunServer
    PROVE  InStep(u, v)'
  <1> DEFINE x == Head(server_strand_)
             s == server_strand_
             t == Tail(server_strand_)
             q == manager_strand
             p == Append(manager_strand, x)
             S == ServerItem(Came)
             M == ManagerItem(Came)
  <1>1. /\ s # <<>> /\ server_strand_' = t /\ manager_strand' = p
        /\ db' = db /\ users_' = users_
    BY DEF RunServer, manager
  <1>2. s \in Seq(S) /\ q \in Seq(M)
    BY DEF Typed, QueueTypes
  <1>3. x \in S
    BY <1>1, <1>2, AfterTail
  <1>4. x \notin OfPair(u, v)
    <2> HIDE DEF x
    <2>1. x.op \notin {"accept", "remove", "block", "unblock"}
      BY <1>3 DEF ServerItem, LoginItem, GoneItem, BanItem
    <2> QED BY <2>1, PairItems
  <1>5. SameTables(u, v)
    BY <1>1 DEF SameTables
  <1>6. \A X : Has(s, X) <=> x \in X \/ Has(t, X)
    BY <1>1, <1>2, HasTail
  <1>7. \A X : Has(p, X) <=> Has(q, X) \/ x \in X
    <2> HIDE DEF x
    <2> QED BY <1>2, HasAppend
  <1>8. NoneBefore(p, OfPair(u, v), LoginsOf(u))
    <2> HIDE DEF x
    <2>1. NoneBefore(q, OfPair(u, v), LoginsOf(u))
      BY DEF InStep
    <2> QED BY <1>2, <1>4, <2>1, NoneBeforeAppend
  <1>9. \A y, L, A, R : Final(y, L, p, A, R) <=> x \in A \/ (Final(y, L, q, A, R) /\ x \notin R)
    <2> HIDE DEF x
    <2> QED BY <1>2, FinalAppend
  <1> HIDE DEF x, s, t, p
  <1>10. /\ ~Has(t, Wrong(u, v)') /\ ~Has(p, Wrong(u, v)')
         /\ NoneBefore(p, OfPair(u, v)', LoginsOf(u)')
    BY <1>5, <1>6, <1>7, <1>8, SameItems, StillRight DEF InStep, s
  <1>11. LoggingIn(u)' <=> LoggingIn(u)
    <2>1. /\ LoggingIn(u) <=> Has(s, LoginsOf(u)) \/ Has(q, LoginsOf(u))
          /\ LoggingIn(u)' <=> Has(t, LoginsOf(u)) \/ Has(p, LoginsOf(u))
      BY <1>1, SameItems DEF LoggingIn, s
    <2> QED BY <1>6, <1>7, <2>1
  <1>12. /\ x \notin Making(u, v) /\ x \notin Breaking(u, v)
         /\ x \notin Blocking(u, v) /\ x \notin Lifting(u, v)
    BY <1>4, PairItems
  <1>13. /\ WillBefriend(u, v)' <=> WillBefriend(u, v)
         /\ WillBlock(u, v)' <=> WillBlock(u, v)
    BY <1>1, <1>9, <1>12, SameItems DEF WillBefriend, WillBlock
  <1>14. /\ \A w, y \in Users : Doing(w, u, v)' /\ Doing(y, u, v)' => w = y
         /\ Nothing(u, v)' <=> Nothing(u, v)
    BY JobsAsBefore DEF InStep
  <1>15. Cached(u, v) => Cached(u, v)'
    BY <1>5, <1>13, CachedStays
  <1>16. Here(u)' <=> Here(u)
    BY <1>1 DEF Here
  <1> QED BY <1>1, <1>10, <1>11, <1>14, <1>15, <1>16 DEF InStep

\* A login has read its lists.
LEMMA LoginStep ==
    ASSUME Typed, NEW u \in Users, NEW v \in Users, u # v, {u, v} \notin ghost'.raced,
           InStep(u, v), SameJobs(u, v), NEW w \in Users, AuthGood(w)
    PROVE  InStep(u, v)'
  <1> DEFINE j == FirstJob(w)
             s == server_strand_
             S == ServerItem(Came)
  <1>1. /\ uuid_strands_[w] # <<>> /\ j.op = "login" /\ stage[w] = "begin"
        /\ db' = db /\ users_' = users_ /\ manager_strand' = manager_strand
    BY DEF AuthGood, At, manager, FirstJob
  <1>2. j \in StrandJob(w, Came) /\ Came \in SUBSET Sessions
    BY <1>1, HeadJob DEF FirstJob, Came
  <1>3. j.s \in Came
    <2> HIDE DEF j
    <2> QED BY <1>1, <1>2, JobFields
  <1>4. s \in Seq(S) /\ IsGhost(ghost)
    BY DEF Typed, QueueTypes, OtherTypes, IsGhost
  <1>5. PICK a \in SUBSET Users, b \in SUBSET Users :
            /\ server_strand_' = Append(s, LoginHandler(w, j.s, a, b))
            /\ \/ a = FriendsOf(w) /\ b = BlocksOf(w) /\ Mark({p \in UnderWay(w) : w \in p})
               \/ Mark({{w, x} : x \in Users})
    <2>1. FriendsOf(w) \in SUBSET Users /\ BlocksOf(w) \in SUBSET Users /\ {} \in SUBSET Users
      BY DEF FriendsOf, BlocksOf
    <2> QED BY <2>1 DEF AuthGood, FirstJob
  <1> DEFINE x == LoginHandler(w, j.s, a, b)
             p == Append(s, x)
  <1>6. /\ x.op = "login" /\ x.u = w /\ x.friends = a /\ x.blocks = b
        /\ x \in LoginItem(Sessions)
    BY <1>2, <1>3 DEF LoginHandler, LoginItem
  <1>7. server_strand_' = p
    BY <1>5
  <1> HIDE DEF x, j
  <1>8. \A X : Has(p, X) <=> Has(s, X) \/ x \in X
    BY <1>4, HasAppend
  <1> HIDE DEF p
  <1>9. SameTables(u, v)
    BY <1>1 DEF SameTables
  <1>10. x \in LoginsOf(u) <=> w = u
    BY <1>6 DEF LoginsOf
  <1>11. ASSUME w = u PROVE x \notin Wrong(u, v) /\ Nothing(u, v)
    <2>1. \A P : Mark(P) => P \subseteq ghost'.raced
      BY <1>4 DEF Mark, IsGhost
    <2>2. {u, v} \in {{w, y} : y \in Users}
      BY <1>11
    <2>3. ~Mark({{w, y} : y \in Users})
      BY <2>1, <2>2
    <2>4. /\ a = FriendsOf(u) /\ b = BlocksOf(u) /\ Mark({y \in UnderWay(u) : u \in y})
      BY <1>5, <1>11, <2>3
    <2>5. {u, v} \notin UnderWay(u)
      BY <2>1, <2>4
    <2>6. x \notin Wrong(u, v)
      <3>1. /\ v \in a <=> {u, v} \in db.friends
            /\ v \in b <=> <<u, v>> \in db.blocked
        BY <2>4 DEF FriendsOf, BlocksOf
      <3> QED BY <1>6, <3>1 DEF Wrong
    <2>7. ASSUME NEW y \in Users, Doing(y, u, v) PROVE FALSE
      <3>1. y # u /\ stage[y] # "begin"
        BY <1>1, <1>11, <2>7 DEF Doing
      <3>2. {Head(uuid_strands_[y]).by, Head(uuid_strands_[y]).to} = {u, v}
        BY <2>7, PairItems DEF Doing, FirstJob
      <3>3. {u, v} \in UnderWay(u)
        BY <3>1, <3>2 DEF UnderWay
      <3> QED BY <2>5, <3>3
    <2> QED BY <2>6, <2>7 DEF Nothing
  <1>12. x \notin Wrong(u, v)
    BY <1>10, <1>11, StillRight
  <1>13. /\ ~Has(p, Wrong(u, v)') /\ ~Has(manager_strand', Wrong(u, v)')
         /\ NoneBefore(manager_strand', OfPair(u, v)', LoginsOf(u)')
    BY <1>1, <1>8, <1>9, <1>12, SameItems, StillRight DEF InStep
  <1>14. /\ \A y, z \in Users : Doing(y, u, v)' /\ Doing(z, u, v)' => y = z
         /\ Nothing(u, v)' <=> Nothing(u, v)
    BY JobsAsBefore DEF InStep
  <1>15. LoggingIn(u)' <=> LoggingIn(u) \/ w = u
    <2>1. /\ LoggingIn(u) <=> Has(s, LoginsOf(u)) \/ Has(manager_strand, LoginsOf(u))
          /\ LoggingIn(u)' <=> Has(p, LoginsOf(u)) \/ Has(manager_strand, LoginsOf(u))
      BY <1>1, <1>7, SameItems DEF LoggingIn
    <2> QED BY <1>8, <1>10, <2>1
  <1>16. /\ WillBefriend(u, v)' <=> WillBefriend(u, v)
         /\ WillBlock(u, v)' <=> WillBlock(u, v)
    BY <1>1, SameItems DEF WillBefriend, WillBlock
  <1>17. Cached(u, v) => Cached(u, v)'
    BY <1>9, <1>16, CachedStays
  <1>18. Here(u)' <=> Here(u)
    BY <1>1 DEF Here
  <1> QED BY <1>7, <1>11, <1>13, <1>14, <1>15, <1>17, <1>18 DEF InStep

\* The UserManager handles what it has been told.
LEMMA ManagerStep ==
    ASSUME Typed, NEW u \in Users, NEW v \in Users, u # v, InStep(u, v), SameJobs(u, v),
           RunManager
    PROVE  InStep(u, v)'
  <1> DEFINE h == ItemHead
             q == manager_strand
             t == Tail(manager_strand)
             M == ManagerItem(Came)
  <1>1. q # <<>> /\ manager_strand' = t /\ db' = db /\ server_strand_' = server_strand_
        /\ h = Head(q)
    BY DEF RunManager, ItemHead
  <1>2. q \in Seq(M)
    BY DEF Typed, QueueTypes
  <1>3. SameTables(u, v)
    BY <1>1 DEF SameTables
  <1>4. \A X : Has(q, X) <=> h \in X \/ Has(t, X)
    BY <1>1, <1>2, HasTail
  <1>5. /\ NoneBefore(t, OfPair(u, v), LoginsOf(u))
        /\ h \in LoginsOf(u) => ~Has(t, OfPair(u, v))
    <2>1. NoneBefore(q, OfPair(u, v), LoginsOf(u))
      BY DEF InStep
    <2> QED BY <1>1, <1>2, <2>1, NoneBeforeTail
  <1>6. ASSUME NEW A, NEW R, NEW L, NEW K, v \in K <=> h \in A \/ (v \in L /\ h \notin R)
        PROVE  Final(v, K, t, A, R) <=> Final(v, L, q, A, R)
    BY <1>1, <1>2, <1>6, FinalTail
  <1> HIDE DEF h, t
  <1>7. /\ ~Has(server_strand_', Wrong(u, v)') /\ ~Has(t, Wrong(u, v)')
        /\ NoneBefore(t, OfPair(u, v)', LoginsOf(u)')
    BY <1>1, <1>3, <1>4, <1>5, SameItems, StillRight DEF InStep
  <1>8. /\ \A w, y \in Users : Doing(w, u, v)' /\ Doing(y, u, v)' => w = y
        /\ Nothing(u, v)' <=> Nothing(u, v)
    BY JobsAsBefore DEF InStep
  <1>9. LoggingIn(u) <=> LoggingIn(u)' \/ h \in LoginsOf(u)
    <2>1. /\ LoggingIn(u) <=> Has(server_strand_, LoginsOf(u)) \/ Has(q, LoginsOf(u))
          /\ LoggingIn(u)' <=> Has(server_strand_, LoginsOf(u)) \/ Has(t, LoginsOf(u))
      BY <1>1, SameItems DEF LoggingIn
    <2> QED BY <1>4, <2>1
  <1>10. ASSUME ~LoggingIn(u)', Here(u)' PROVE Cached(u, v)'
    <2>1. CASE /\ h \in LoginsOf(u)
               /\ users_'[u].friends = h.friends /\ users_'[u].blocked_users = h.blocks
      <3>1. h \notin Wrong(u, v) /\ Nothing(u, v)
        BY <1>4, <1>9, <2>1 DEF InStep
      <3>2. /\ v \in users_'[u].friends <=> {u, v} \in db.friends
            /\ v \in users_'[u].blocked_users <=> <<u, v>> \in db.blocked
        BY <2>1, <3>1 DEF Wrong
      <3>3. /\ ~Has(t, Making(u, v)) /\ ~Has(t, Breaking(u, v))
            /\ ~Has(t, Blocking(u, v)) /\ ~Has(t, Lifting(u, v))
        BY <1>5, <2>1, PairItems DEF Has
      <3>4. \A L, A, R : ~Has(t, A) /\ ~Has(t, R) => (Final(v, L, t, A, R) <=> v \in L)
        BY PendingHas DEF Final
      <3>5. /\ WillBefriend(u, v)' <=> v \in users_'[u].friends
            /\ WillBlock(u, v)' <=> v \in users_'[u].blocked_users
        BY <1>1, <3>3, <3>4, SameItems DEF WillBefriend, WillBlock
      <3>6. Nothing(u, v)'
        BY <1>8, <3>1
      <3>7. ~Accepting(u, v)' /\ \A X \in SUBSET OfPair(u, v) : ~Owed(X)'
        BY <3>6, SameItems, PairItems DEF Nothing, Doing, Accepting, Owed
      <3>8. /\ ~Owed(Breaking(u, v))' /\ ~Owed(Blocking(u, v))' /\ ~Owed(Lifting(u, v))'
        BY <3>7, SameItems, PairItems DEF Owed
      <3> QED BY <1>1, <3>2, <3>5, <3>7, <3>8 DEF Cached
    <2>2. CASE h \notin LoginsOf(u) /\ ListsFollow(u, v)
      <3>1. Cached(u, v)
        BY <1>9, <1>10, <2>2 DEF InStep, ListsFollow
      <3>2. WillBefriend(u, v)' <=> WillBefriend(u, v)
        BY <1>1, <1>6, <2>2, SameItems DEF WillBefriend, ListsFollow, h
      <3>3. WillBlock(u, v)' <=> WillBlock(u, v)
        BY <1>1, <1>6, <2>2, SameItems DEF WillBlock, ListsFollow, h
      <3> QED BY <1>3, <3>1, <3>2, <3>3, CachedStays
    <2> QED BY <1>10, <2>1, <2>2, ListsTold DEF h
  <1> QED BY <1>1, <1>7, <1>8, <1>9, <1>10 DEF InStep

\* Nothing else of the pair is under way when one of its changes takes a step: the
\* step would have marked the pair.
LEMMA NotRaced ==
    ASSUME Typed, NEW u \in Users, NEW v \in Users, NEW w \in Users, OnPair(w, u, v),
           {u, v} \notin ghost'.raced
    PROVE  (\A x \in Users \ {w} : ~Doing(x, u, v)) /\ ~LoggingIn(u)
           /\ ~Mark({{FirstJob(w).by, FirstJob(w).to}})
  <1> DEFINE j == FirstJob(w)
  <1>1. /\ server_strand_ \in Seq(ServerItem(Came)) /\ manager_strand \in Seq(ManagerItem(Came))
        /\ IsGhost(ghost)
        /\ stage \in [Users -> {"begin", "tested", "found", "posted", "committed"}]
    BY DEF Typed, QueueTypes, OtherTypes, IsGhost
  <1>2. {j.by, j.to} = {u, v}
    BY PairItems DEF OnPair
  <1>3. \A P : Mark(P) => P \subseteq ghost'.raced
    BY <1>1 DEF Mark, IsGhost
  <1>4. ~Mark({{j.by, j.to}})
    BY <1>2, <1>3
  <1>5. ~(GoOn(w, "committed") /\ Finish(w))
    BY <1>1 DEF GoOn, Finish
  <1>6. MarkIfRaced(w)
    BY <1>4, <1>5 DEF OnPair, AcceptFriend, Post, Commit, FirstJob
  <1>7. {u, v} \notin UnderWay(w) /\ ~LoginUnderWay({u, v})
    <2>1. Mark(IF {u, v} \in UnderWay(w) \/ LoginUnderWay({u, v}) THEN {{u, v}} ELSE {})
      BY <1>2, <1>6 DEF MarkIfRaced, FirstJob
    <2> QED BY <1>3, <2>1
  <1>8. ASSUME NEW x \in Users \ {w}, Doing(x, u, v) PROVE FALSE
    <2>1. {Head(uuid_strands_[x]).by, Head(uuid_strands_[x]).to} = {u, v}
      BY <1>8, PairItems DEF Doing, FirstJob
    <2>2. {u, v} \in UnderWay(w)
      BY <1>8, <2>1 DEF UnderWay, Doing
    <2> QED BY <1>7, <2>2
  <1>9. \A x \in LoginsOf(u) : x.op = "login" /\ x.u \in {u, v}
    BY DEF LoginsOf, LoginItem
  <1>10. /\ \A i \in 1 .. Len(server_strand_) : server_strand_[i] \in ToSet(server_strand_)
         /\ \A i \in 1 .. Len(manager_strand) : manager_strand[i] \in ToSet(manager_strand)
    BY <1>1 DEF ToSet
  <1>11. ~LoggingIn(u)
    BY <1>7, <1>9, <1>10 DEF LoggingIn, Has, LoginUnderWay
  <1> QED BY <1>4, <1>8, <1>11

\* What a step of strand w does to the jobs.
LEMMA OneMoves ==
    ASSUME Typed, NEW w \in Users
    PROVE  /\ \A st : GoOn(w, st) =>
                /\ stage'[w] = st /\ FirstJob(w)' = FirstJob(w)
                /\ \A x \in Users \ {w} : stage'[x] = stage[x] /\ FirstJob(x)' = FirstJob(x)
           /\ Finish(w) =>
                /\ stage'[w] = "begin"
                /\ \A x \in Users \ {w} : stage'[x] = stage[x] /\ FirstJob(x)' = FirstJob(x)
  <1>1. /\ uuid_strands_ = [x \in Users |-> uuid_strands_[x]]
        /\ stage \in [Users -> {"begin", "tested", "found", "posted", "committed"}]
    BY DEF Typed, QueueTypes, OtherTypes
  <1>2. ASSUME NEW st, GoOn(w, st)
        PROVE  /\ stage'[w] = st /\ FirstJob(w)' = FirstJob(w)
               /\ \A x \in Users \ {w} : stage'[x] = stage[x] /\ FirstJob(x)' = FirstJob(x)
    BY <1>1, <1>2 DEF GoOn, FirstJob
  <1>3. ASSUME Finish(w)
        PROVE  /\ stage'[w] = "begin"
               /\ \A x \in Users \ {w} : stage'[x] = stage[x] /\ FirstJob(x)' = FirstJob(x)
    <2> DEFINE less == Tail(uuid_strands_[w])
    <2>1. /\ uuid_strands_' = [uuid_strands_ EXCEPT ![w] = less]
          /\ stage' = [stage EXCEPT ![w] = "begin"]
      BY <1>3 DEF Finish
    <2> HIDE DEF less
    <2>2. \A x \in Users \ {w} : uuid_strands_'[x] = uuid_strands_[x]
      BY <1>1, <2>1
    <2> QED BY <1>1, <2>1, <2>2 DEF FirstJob
  <1> QED BY <1>2, <1>3

\* The steps of a change of the pair, one by one.
PairMove(w, j) ==
    \/ /\ stage[w] = "begin" /\ stage'[w] \in {"begin", "found"}
       /\ db' = db /\ manager_strand' = manager_strand
    \/ /\ stage[w] = "found" /\ stage'[w] = "posted" /\ FirstJob(w)' = j
       /\ j.op = "accept" /\ db' = db /\ manager_strand' = Append(manager_strand, j)
    \/ /\ stage[w] = "posted" /\ stage'[w] = "begin"
       /\ j.op = "accept" /\ db' = accept_friend(db, j) /\ manager_strand' = manager_strand
    \/ /\ stage[w] = "begin" /\ stage'[w] = "committed"
       /\ FirstJob(w)' = j /\ manager_strand' = manager_strand
       /\ \/ j.op = "block" /\ db' = block_user(db, j)
          \/ j.op = "unblock" /\ db' = unblock_user(db, j)
          \/ j.op = "remove" /\ db' = remove_friend(db, j)
    \/ /\ stage[w] = "committed" /\ stage'[w] = "begin"
       /\ j.op \in {"block", "unblock", "remove"} /\ db' = db
       /\ manager_strand' = Append(manager_strand, j)

LEMMA PairMoves ==
    ASSUME Typed, NEW u \in Users, NEW v \in Users, NEW w \in Users, OnPair(w, u, v),
           ~Mark({{FirstJob(w).by, FirstJob(w).to}})
    PROVE  /\ users_' = users_ /\ server_strand_' = server_strand_
           /\ \A x \in Users \ {w} : stage'[x] = stage[x] /\ FirstJob(x)' = FirstJob(x)
           /\ PairMove(w, FirstJob(w))
  <1> DEFINE j == FirstJob(w)
             Others == \A x \in Users \ {w} : stage'[x] = stage[x] /\ FirstJob(x)' = FirstJob(x)
  <1>1. /\ \A st : GoOn(w, st) => stage'[w] = st /\ FirstJob(w)' = j /\ Others
        /\ Finish(w) => stage'[w] = "begin" /\ Others
    BY OneMoves
  <1>2. j.op \in {"accept", "remove", "block", "unblock"}
    BY PairItems DEF OnPair
  <1> HIDE DEF Others
  <1>3. CASE AcceptFriend(w)
    <2>1. users_' = users_ /\ server_strand_' = server_strand_
      BY <1>3 DEF AcceptFriend, At, manager
    <2>2. \/ /\ stage[w] = "begin" /\ (GoOn(w, "found") \/ Finish(w))
             /\ db' = db /\ manager_strand' = manager_strand
          \/ /\ stage[w] = "found" /\ GoOn(w, "posted") /\ j.op = "accept"
             /\ db' = db /\ manager_strand' = Append(manager_strand, j)
          \/ /\ stage[w] = "posted" /\ Finish(w) /\ j.op = "accept"
             /\ db' = accept_friend(db, j) /\ manager_strand' = manager_strand
      BY <1>3 DEF AcceptFriend, At, FirstJob
    <2> HIDE DEF j
    <2> QED BY <1>1, <2>1, <2>2 DEF j, Others, PairMove
  <1>4. CASE Commit(w) /\ GoOn(w, "committed")
    <2>1. /\ users_' = users_ /\ server_strand_' = server_strand_
          /\ manager_strand' = manager_strand /\ stage[w] = "begin"
      BY <1>4 DEF Commit, At, manager
    <2>2. ~Finish(w)
      BY <1>1, <1>4
    <2>3. db' = CASE j.op = "block" -> block_user(db, j)
                  [] j.op = "unblock" -> unblock_user(db, j)
                  [] j.op = "remove" -> remove_friend(db, j)
                  [] j.op = "ban" -> ban_user(db, j)
      BY <1>4, <2>2 DEF Commit, FirstJob
    <2>4. j.op \in Changes
      BY <1>4 DEF Commit, At, FirstJob
    <2> HIDE DEF j
    <2>5. \/ j.op = "block" /\ db' = block_user(db, j)
          \/ j.op = "unblock" /\ db' = unblock_user(db, j)
          \/ j.op = "remove" /\ db' = remove_friend(db, j)
      BY <1>2, <2>3, <2>4 DEF Changes
    <2> QED BY <1>1, <1>4, <2>1, <2>5 DEF j, Others, PairMove
  <1>5. CASE Post(w)
    <2>1. /\ users_' = users_ /\ db' = db /\ stage[w] = "committed" /\ Finish(w)
          /\ j.op \in Changes
      BY <1>5 DEF Post, At, manager, FirstJob
    <2>2. server_strand_' = server_strand_ /\ manager_strand' = Append(manager_strand, j)
      BY <1>2, <1>5 DEF Post, FirstJob
    <2> HIDE DEF j
    <2>3. j.op \in {"block", "unblock", "remove"}
      BY <1>2, <2>1 DEF Changes
    <2> QED BY <1>1, <2>1, <2>2, <2>3 DEF j, Others, PairMove
  <1> QED BY <1>3, <1>4, <1>5 DEF OnPair

\* A change of the pair takes a step.
LEMMA ChangeStep ==
    ASSUME Typed, NEW u \in Users, NEW v \in Users, u # v, {u, v} \notin ghost'.raced,
           InStep(u, v), NEW w \in Users, OnPair(w, u, v)
    PROVE  InStep(u, v)'
  <1> DEFINE j == FirstJob(w)
             q == manager_strand
             p == manager_strand'
             M == ManagerItem(Came)
  <1>1. /\ \A x \in Users \ {w} : ~Doing(x, u, v)
        /\ ~LoggingIn(u) /\ ~Mark({{j.by, j.to}})
    BY NotRaced
  <1>2. /\ j \in OfPair(u, v) /\ q \in Seq(M) /\ db \in Tables
    BY DEF OnPair, Typed, QueueTypes
  <1>3. /\ users_' = users_ /\ server_strand_' = server_strand_
        /\ \A x \in Users \ {w} : stage'[x] = stage[x] /\ FirstJob(x)' = FirstJob(x)
    BY <1>1, PairMoves
  <1>a. PairMove(w, FirstJob(w))
    BY <1>1, PairMoves
  <1> HIDE DEF j
  <1>4. \/ /\ stage[w] = "begin" /\ stage'[w] \in {"begin", "found"}
           /\ db' = db /\ p = q
        \/ /\ stage[w] = "found" /\ stage'[w] = "posted" /\ FirstJob(w)' = j
           /\ j.op = "accept" /\ db' = db /\ p = Append(q, j)
        \/ /\ stage[w] = "posted" /\ stage'[w] = "begin"
           /\ j.op = "accept" /\ db' = accept_friend(db, j) /\ p = q
        \/ /\ stage[w] = "begin" /\ stage'[w] = "committed" /\ FirstJob(w)' = j /\ p = q
           /\ \/ j.op = "block" /\ db' = block_user(db, j)
              \/ j.op = "unblock" /\ db' = unblock_user(db, j)
              \/ j.op = "remove" /\ db' = remove_friend(db, j)
        \/ /\ stage[w] = "committed" /\ stage'[w] = "begin"
           /\ j.op \in {"block", "unblock", "remove"} /\ db' = db /\ p = Append(q, j)
    BY <1>a DEF PairMove, j
  <1>5. /\ \A X : Has(Append(q, j), X) <=> Has(q, X) \/ j \in X
        /\ \A y, L, A, R : Final(y, L, Append(q, j), A, R) <=>
                            j \in A \/ (Final(y, L, q, A, R) /\ j \notin R)
    BY <1>2, HasAppend, FinalAppend
  <1> HIDE DEF q
  <1>6. \A x \in Users \ {w} : ~Doing(x, u, v)'
    BY <1>1, <1>3, SameItems DEF Doing
  <1>7. /\ ~Has(server_strand_', LoginsOf(u)) /\ ~Has(p, LoginsOf(u))
    <2>1. ~Has(server_strand_, LoginsOf(u)) /\ ~Has(q, LoginsOf(u)) /\ j \notin LoginsOf(u)
      BY <1>1, <1>2, PairItems DEF LoggingIn, q
    <2>2. p = q \/ p = Append(q, j)
      BY <1>4
    <2> QED BY <1>3, <1>5, <2>1, <2>2
  <1>8. /\ ~Has(server_strand_', Wrong(u, v)') /\ ~Has(p, Wrong(u, v)') /\ ~LoggingIn(u)'
    BY <1>7, SameItems, StillRight DEF Has, LoggingIn
  <1>9. NoneBefore(p, OfPair(u, v)', LoginsOf(u)')
    <2>1. p \in Seq(M)
      BY <1>2, <1>4, AppendProperties, PairItems DEF ManagerItem, q
    <2>2. ASSUME NEW k \in 1 .. Len(p), NEW i \in 1 .. k - 1 PROVE i \in 1 .. Len(p)
      BY <2>1
    <2> QED BY <1>7, <2>2, SameItems DEF NoneBefore, Has
  <1>10. /\ j \in Making(u, v) <=> j.op = "accept"
         /\ j \in Breaking(u, v) <=> j.op \in {"remove", "block"}
         /\ j \in Blocking(u, v) <=> j.op = "block" /\ j.by = u
         /\ j \in Lifting(u, v) <=> j.op = "unblock" /\ j.by = u
         /\ {j.by, j.to} = {u, v} /\ (<<j.by, j.to>> = <<u, v>> <=> j.by = u)
    <2>1. {j.by, j.to} = {u, v}
      BY <1>2, PairItems
    <2>2. <<j.by, j.to>> = <<u, v>> <=> j.by = u
      BY <2>1
    <2> QED BY <1>2, <2>1, <2>2 DEF Making, Breaking, Blocking, Lifting
  <1> DEFINE Takes(st, X) == stage[w] = st /\ j \in X
             Took(st, X) == stage'[w] = st /\ FirstJob(w)' \in X
  <1>11. /\ Accepting(u, v) <=> Takes("posted", Making(u, v))
         /\ \A X \in SUBSET OfPair(u, v) : Owed(X) <=> Takes("committed", X)
    BY <1>1, OneJob DEF j
  <1>12. /\ Accepting(u, v)' <=> Took("posted", Making(u, v))
         /\ \A X \in SUBSET OfPair(u, v) : Owed(X)' <=> Took("committed", X)
    <2>1. \A X \in SUBSET OfPair(u, v), x \in Users \ {w}, st \in {"posted", "committed"} :
            ~(stage'[x] = st /\ FirstJob(x)' \in X)
      BY <1>6, SameItems DEF Doing
    <2> QED BY <2>1, SameItems, PairItems DEF Accepting, Owed
  <1>13. /\ Owed(Breaking(u, v)) <=> Takes("committed", Breaking(u, v))
         /\ Owed(Blocking(u, v)) <=> Takes("committed", Blocking(u, v))
         /\ Owed(Lifting(u, v)) <=> Takes("committed", Lifting(u, v))
    BY <1>11, PairItems
  <1>14. /\ Owed(Breaking(u, v))' <=> Took("committed", Breaking(u, v))
         /\ Owed(Blocking(u, v))' <=> Took("committed", Blocking(u, v))
         /\ Owed(Lifting(u, v))' <=> Took("committed", Lifting(u, v))
    BY <1>12, PairItems, SameItems DEF Owed
  <1>15. ASSUME Here(u)' PROVE Cached(u, v)'
    <2> DEFINE F(s) == Final(v, users_[u].friends, s, Making(u, v), Breaking(u, v))
               B(s) == Final(v, users_[u].blocked_users, s, Blocking(u, v), Lifting(u, v))
               f == {u, v} \in db.friends
               b == <<u, v>> \in db.blocked
               ff == {u, v} \in db'.friends
               bb == <<u, v>> \in db'.blocked
    <2>1. Here(u)
      BY <1>3, <1>15 DEF Here
    <2>2. /\ f \/ Takes("posted", Making(u, v)) <=>
                F(q) /\ ~Takes("committed", Breaking(u, v))
          /\ b <=> \/ Takes("committed", Blocking(u, v))
                   \/ B(q) /\ ~Takes("committed", Lifting(u, v))
      BY <1>1, <1>11, <1>13, <2>1 DEF InStep, Cached, WillBefriend, WillBlock, q
    <2>3. /\ F(Append(q, j)) <=> j \in Making(u, v) \/ (F(q) /\ j \notin Breaking(u, v))
          /\ B(Append(q, j)) <=> j \in Blocking(u, v) \/ (B(q) /\ j \notin Lifting(u, v))
      BY <1>5
    <2>4. /\ accept_friend(db, j).friends = db.friends \cup {{j.by, j.to}}
          /\ accept_friend(db, j).blocked = db.blocked
          /\ remove_friend(db, j).friends = db.friends \ {{j.by, j.to}}
          /\ remove_friend(db, j).blocked = db.blocked
          /\ block_user(db, j).friends = db.friends \ {{j.by, j.to}}
          /\ block_user(db, j).blocked = db.blocked \cup {<<j.by, j.to>>}
          /\ unblock_user(db, j).friends = db.friends
          /\ unblock_user(db, j).blocked = db.blocked \ {<<j.by, j.to>>}
      BY <1>2, PairTables
    <2>5. /\ db' = db => (ff <=> f) /\ (bb <=> b)
          /\ db' = accept_friend(db, j) => ff /\ (bb <=> b)
          /\ db' = remove_friend(db, j) => ~ff /\ (bb <=> b)
          /\ db' = block_user(db, j) => ~ff /\ (bb <=> b \/ j.by = u)
          /\ db' = unblock_user(db, j) => (ff <=> f) /\ (bb <=> b /\ j.by # u)
      BY <1>10, <2>4
    <2> HIDE DEF F, B, f, b, ff, bb
    <2>6. /\ ff \/ Took("posted", Making(u, v)) <=>
                F(p) /\ ~Took("committed", Breaking(u, v))
          /\ bb <=> \/ Took("committed", Blocking(u, v))
                    \/ B(p) /\ ~Took("committed", Lifting(u, v))
      <3>1. CASE stage[w] = "begin" /\ stage'[w] \in {"begin", "found"} /\ db' = db /\ p = q
        BY <2>2, <2>5, <3>1
      <3>2. CASE /\ stage[w] = "found" /\ stage'[w] = "posted" /\ FirstJob(w)' = j
                 /\ j.op = "accept" /\ db' = db /\ p = Append(q, j)
        BY <1>10, <2>2, <2>3, <2>5, <3>2
      <3>3. CASE /\ stage[w] = "posted" /\ stage'[w] = "begin"
                 /\ j.op = "accept" /\ db' = accept_friend(db, j) /\ p = q
        BY <1>10, <2>2, <2>5, <3>3
      <3>4. CASE /\ stage[w] = "begin" /\ stage'[w] = "committed" /\ FirstJob(w)' = j /\ p = q
                 /\ \/ j.op = "block" /\ db' = block_user(db, j)
                    \/ j.op = "unblock" /\ db' = unblock_user(db, j)
                    \/ j.op = "remove" /\ db' = remove_friend(db, j)
        BY <1>10, <2>2, <2>5, <3>4
      <3>5. CASE /\ stage[w] = "committed" /\ stage'[w] = "begin"
                 /\ j.op \in {"block", "unblock", "remove"} /\ db' = db /\ p = Append(q, j)
        BY <1>10, <2>2, <2>3, <2>5, <3>5
      <3> QED BY <1>4, <3>1, <3>2, <3>3, <3>4, <3>5
    <2>7. (WillBefriend(u, v)' <=> F(p)) /\ (WillBlock(u, v)' <=> B(p))
      BY <1>3, SameItems DEF WillBefriend, WillBlock, F, B
    <2> QED BY <1>12, <1>14, <2>6, <2>7 DEF Cached, ff, bb
  <1> QED BY <1>6, <1>8, <1>9, <1>15 DEF InStep

LEMMA InStepStep ==
    ASSUME Typed, StagesFit, AllInStep, [Next]_vars
    PROVE  AllInStep'
  <1> SUFFICES ASSUME NEW u \in Users, NEW v \in Users, u # v, {u, v} \notin ghost'.raced
               PROVE  InStep(u, v)'
    BY DEF AllInStep
  <1>1. InStep(u, v)
    BY GhostSteps DEF AllInStep
  <1>2. CASE \E w \in Users : OnPair(w, u, v)
    BY <1>1, <1>2, ChangeStep
  <1>3. CASE ~\E w \in Users : OnPair(w, u, v)
    <2>1. SameJobs(u, v)
      BY <1>3, JobSteps
    <2>2. RunManager \/ RunServer \/ Beyond(u, v) \/ \E w \in Users : AuthGood(w)
      BY <1>3, PairSteps
    <2> QED BY <1>1, <2>1, <2>2, ManagerStep, ServerStep, BeyondStep, LoginStep
  <1> QED BY <1>2, <1>3

LEMMA InStepAtTheStart ==
    ASSUME Init
    PROVE  StagesFit /\ AllInStep
  <1>1. /\ server_strand_ = <<>> /\ manager_strand = <<>>
        /\ stage = [u \in Users |-> "begin"]
        /\ \A u \in DOMAIN users_ :
            users_[u].friends = FriendsOf(u) /\ users_[u].blocked_users = BlocksOf(u)
    BY DEF Init, User
  <1>2. StagesFit
    BY <1>1 DEF StagesFit
  <1>3. ASSUME NEW u \in Users, NEW v \in Users, u # v PROVE InStep(u, v)
    <2>1. \A w \in Users : ~Doing(w, u, v)
      BY <1>1 DEF Doing
    <2>2. ~Accepting(u, v) /\ \A X : ~Owed(X)
      BY <1>1 DEF Accepting, Owed
    <2>3. /\ \A X : ~Has(server_strand_, X) /\ ~Has(manager_strand, X)
          /\ \A A, R : ~Pending(manager_strand, A, R)
          /\ \A X, Y : NoneBefore(manager_strand, X, Y)
      BY <1>1, EmptyQueue
    <2>4. Here(u) => Cached(u, v)
      <3>1. Here(u) => /\ v \in users_[u].friends <=> {u, v} \in db.friends
                       /\ v \in users_[u].blocked_users <=> <<u, v>> \in db.blocked
        BY <1>1, <1>3 DEF Here, FriendsOf, BlocksOf
      <3> QED BY <2>2, <2>3, <3>1 DEF Cached, WillBefriend, WillBlock, Final
    <2> QED BY <2>1, <2>3, <2>4 DEF InStep, LoggingIn
  <1> QED BY <1>2, <1>3 DEF AllInStep

\* The friends and blocks the UserManager keeps are those of the tables for every pair
\* of users of whom nothing overlapped, however the requests of other pairs, logins,
\* disconnects, bans and matches come in between: a change posts what it has committed
\* before another of its strand begins, an accept that tells before it commits is not
\* overtaken, and a login is handled behind the changes its lists contain.
THEOREM CachesAreTrue == Spec => []CachesMatchTables
  <1>1. Init => StagesFit /\ AllInStep
    BY InStepAtTheStart
  <1>2. Typed /\ StagesFit /\ AllInStep /\ [Next]_vars => StagesFit' /\ AllInStep'
    BY StagesFitStep, InStepStep
  <1>3. Typed /\ StagesFit /\ AllInStep => CachesMatchTables
    <2> SUFFICES ASSUME Typed, StagesFit, AllInStep, AtRest, NEW u \in Users, NEW v \in Users,
                        Online(u), u # v, {u, v} \notin ghost.raced
                 PROVE  /\ v \in users_[u].friends <=> {u, v} \in db.friends
                        /\ v \in users_[u].blocked_users <=> <<u, v>> \in db.blocked
      BY DEF CachesMatchTables
    <2>1. \A w \in Users : stage[w] = "begin"
      BY DEF StagesFit, AtRest
    <2>2. /\ \A X : ~Has(server_strand_, X) /\ ~Has(manager_strand, X)
          /\ \A A, R : ~Pending(manager_strand, A, R)
      BY EmptyQueue DEF AtRest
    <2>3. Here(u) /\ ~LoggingIn(u)
      BY <2>2 DEF Online, Here, LoggingIn
    <2>4. Cached(u, v)
      BY <2>3 DEF AllInStep, InStep
    <2>5. ~Accepting(u, v) /\ \A X : ~Owed(X)
      BY <2>1 DEF Accepting, Owed
    <2> QED BY <2>2, <2>4, <2>5 DEF Cached, WillBefriend, WillBlock, Final
  <1> QED BY <1>1, <1>2, <1>3, TypeCorrect, PTL DEF Spec

-----------------------------------------------------------------------------
(* The strands of the users.  A user's jobs run in the order of their      *)
(* posts in Users; what the Database has for that is a KeyedExecutor, here *)
(* with any set of keys and any number of jobs.  The inductive invariant,  *)
(* Serving, says where a job can be: on the strand of an entry of its own  *)
(* key, in the order of the posts (JobsPlaced), counted (JobsCounted),     *)
(* and, for a key that was never raced, on the strand of the one entry the *)
(* map holds (EntriesMapped).                                              *)

\* Jobs wait on strands of their own key, in the order of their numbers.
JobsPlaced ==
    \A e \in Jobs : \A i \in 1 .. Len(strand[e]) :
        /\ e \in Posted /\ strand[e][i] \in Posted
        /\ key[strand[e][i]] = key[e]
        /\ \A h \in 1 .. i - 1 : strand[e][h] < strand[e][i]

\* The count of an entry is the length of its strand.
JobsCounted ==
    \A e \in Jobs : /\ pending[e] = Len(strand[e])
                    /\ handler[e] = "func" => strand[e] # <<>>
                    /\ handler[e] # "idle" => e \in Posted

\* The map holds entries of the right key; for a key that was never raced it holds
\* the only entry with work, and a handler about to erase leaves no work behind.
EntriesMapped ==
    /\ \A k \in Keys : map_[k] # NoEntry => map_[k] \in Posted /\ key[map_[k]] = k
    /\ \A e \in Posted :
            key[e] \notin reused =>
                /\ strand[e] # <<>> => map_[key[e]] = e
                /\ handler[e] = "erase" => strand[e] = <<>>

\* No job is lost: one that has not returned is on some strand.
NoJobLost ==
    \A j \in Posted \ finished :
        \E e \in Jobs : \E i \in 1 .. Len(strand[e]) : strand[e][i] = j

Serving == TypeOK /\ JobsPlaced /\ JobsCounted /\ EntriesMapped /\ NoJobLost

LEMMA PostedJobs ==
    ASSUME TypeOK
    PROVE  /\ Posted = 1 .. Len(key) /\ Posted \subseteq Jobs
           /\ Len(key) \in Nat
           /\ \A j \in Posted : key[j] \in Keys
  BY JobsAssumption DEF TypeOK, Posted, Jobs

LEMMA InitServing == ExecutorInit => Serving
  <1> SUFFICES ASSUME ExecutorInit
               PROVE  Serving
    OBVIOUS
  <1>1. TypeOK
    BY JobsAssumption DEF ExecutorInit, TypeOK
  <1>2. Posted = {}
    <2>1. Len(key) = 0
      BY DEF ExecutorInit
    <2> QED BY <1>1, <2>1, PostedJobs
  <1>3. \A e \in Jobs : strand[e] = <<>> /\ Len(strand[e]) = 0
    BY DEF ExecutorInit
  <1>4. JobsPlaced
    BY <1>3 DEF JobsPlaced
  <1>5. JobsCounted
    BY <1>3 DEF JobsCounted, ExecutorInit
  <1>6. EntriesMapped /\ NoJobLost
    BY <1>2 DEF EntriesMapped, NoJobLost, ExecutorInit
  <1> QED BY <1>1, <1>4, <1>5, <1>6 DEF Serving

\* What a post does to the strands: job j = Len(key) + 1 goes to the end of e's.
LEMMA EnqueueFacts ==
    ASSUME Serving, NEW k \in Keys, NEW e \in Jobs,
           Len(key) + 1 \in Jobs, Enqueue(e, Len(key) + 1, k)
    PROVE  /\ Posted' = Posted \cup {Len(key) + 1}
           /\ Len(key) + 1 \notin Posted
           /\ \A i \in Posted : i < Len(key) + 1
           /\ \A i \in Posted : key'[i] = key[i]
           /\ key'[Len(key) + 1] = k
           /\ key' \in Seq(Keys) /\ Len(key') = Len(key) + 1
           /\ strand' \in [Jobs -> Seq(Jobs)]
           /\ pending' \in [Jobs -> Nat]
           /\ \A d \in Jobs : d # e => strand'[d] = strand[d] /\ pending'[d] = pending[d]
           /\ strand'[e] = Append(strand[e], Len(key) + 1)
           /\ Len(strand'[e]) = Len(strand[e]) + 1
           /\ \A i \in 1 .. Len(strand[e]) : strand'[e][i] = strand[e][i]
           /\ strand'[e][Len(strand[e]) + 1] = Len(key) + 1
           /\ pending'[e] = pending[e] + 1
           /\ strand'[e] # <<>>
  <1> USE DEF Serving
  <1>1. /\ key \in Seq(Keys) /\ Posted = 1 .. Len(key) /\ Len(key) \in Nat
        /\ strand \in [Jobs -> Seq(Jobs)] /\ strand[e] \in Seq(Jobs)
        /\ pending \in [Jobs -> Nat]
    BY PostedJobs DEF TypeOK
  <1>2. /\ key' = Append(key, k)
        /\ strand' = [strand EXCEPT ![e] = Append(@, Len(key) + 1)]
        /\ pending' = [pending EXCEPT ![e] = @ + 1]
    BY DEF Enqueue
  <1>3. /\ key' \in Seq(Keys) /\ Len(key') = Len(key) + 1
        /\ \A i \in 1 .. Len(key) : key'[i] = key[i]
        /\ key'[Len(key) + 1] = k
    BY <1>1, <1>2
  <1>4. Posted' = 1 .. Len(key) + 1
    BY <1>1, <1>3 DEF Posted
  <1>5. /\ Posted' = Posted \cup {Len(key) + 1}
        /\ Len(key) + 1 \notin Posted
        /\ \A i \in Posted : i < Len(key) + 1
    BY <1>1, <1>4
  <1>6. /\ strand' \in [Jobs -> Seq(Jobs)]
        /\ strand'[e] = Append(strand[e], Len(key) + 1)
        /\ \A d \in Jobs : d # e => strand'[d] = strand[d]
    BY <1>1, <1>2
  <1>7. /\ Len(strand'[e]) = Len(strand[e]) + 1
        /\ \A i \in 1 .. Len(strand[e]) : strand'[e][i] = strand[e][i]
        /\ strand'[e][Len(strand[e]) + 1] = Len(key) + 1
        /\ strand'[e] # <<>>
    <2> DEFINE s == strand[e]
               j == Len(key) + 1
    <2>1. s \in Seq(Jobs) /\ j \in Jobs /\ strand'[e] = Append(s, j)
      BY <1>1, <1>6
    <2> HIDE DEF s, j
    <2>2. /\ Len(Append(s, j)) = Len(s) + 1
          /\ \A i \in 1 .. Len(s) : Append(s, j)[i] = s[i]
          /\ Append(s, j)[Len(s) + 1] = j
          /\ Append(s, j) # <<>>
      BY <2>1
    <2> QED BY <2>1, <2>2 DEF s, j
  <1>8. /\ pending' \in [Jobs -> Nat]
        /\ pending'[e] = pending[e] + 1
        /\ \A d \in Jobs : d # e => pending'[d] = pending[d]
    BY <1>1, <1>2
  <1> QED BY <1>1, <1>3, <1>5, <1>6, <1>7, <1>8

\* The conjuncts that both kinds of post keep for the same reason.
LEMMA EnqueueKeeps ==
    ASSUME Serving, NEW k \in Keys, NEW e \in Jobs,
           Len(key) + 1 \in Jobs, Enqueue(e, Len(key) + 1, k),
           e = Len(key) + 1 \/ (e \in Posted /\ key[e] = k)
    PROVE  JobsPlaced' /\ JobsCounted' /\ NoJobLost'
  <1> DEFINE j == Len(key) + 1
  <1>1. /\ Posted' = Posted \cup {j} /\ j \notin Posted
        /\ \A i \in Posted : i < j /\ key'[i] = key[i]
        /\ key'[j] = k
        /\ \A d \in Jobs : d # e => strand'[d] = strand[d] /\ pending'[d] = pending[d]
        /\ Len(strand'[e]) = Len(strand[e]) + 1
        /\ \A i \in 1 .. Len(strand[e]) : strand'[e][i] = strand[e][i]
        /\ strand'[e][Len(strand[e]) + 1] = j
        /\ pending'[e] = pending[e] + 1
        /\ strand'[e] # <<>>
    BY EnqueueFacts
  <1>2. /\ \A d \in Jobs : Len(strand[d]) \in Nat /\ strand[d] \in Seq(Jobs)
        /\ handler' = handler /\ finished' = finished
    BY DEF Serving, TypeOK, Enqueue
  <1>3. e \in Posted' /\ key'[e] = k
    BY <1>1
  <1> HIDE DEF j
  <1>4. JobsPlaced'
    <2> SUFFICES ASSUME NEW d \in Jobs, NEW i \in 1 .. Len(strand'[d])
                 PROVE  /\ d \in Posted' /\ strand'[d][i] \in Posted'
                        /\ key'[strand'[d][i]] = key'[d]
                        /\ \A h \in 1 .. i - 1 : strand'[d][h] < strand'[d][i]
      BY DEF JobsPlaced
    <2>1. CASE d # e
      BY <1>1, <2>1 DEF Serving, JobsPlaced
    <2>2. CASE d = e /\ i \in 1 .. Len(strand[e])
      <3>1. /\ strand[e][i] \in Posted /\ key[strand[e][i]] = key[e] /\ e \in Posted
            /\ \A h \in 1 .. i - 1 : strand[e][h] < strand[e][i]
        BY <2>2 DEF Serving, JobsPlaced
      <3>2. strand'[e][i] = strand[e][i]
        BY <1>1, <2>2
      <3>3. \A h \in 1 .. i - 1 : strand'[e][h] = strand[e][h]
        BY <1>1, <1>2, <2>2
      <3> QED BY <1>1, <2>2, <3>1, <3>2, <3>3
    <2>3. CASE d = e /\ i = Len(strand[e]) + 1
      <3>1. strand'[e][i] = j
        BY <1>1, <2>3
      <3>2. \A h \in 1 .. i - 1 : strand'[e][h] = strand[e][h] /\ strand[e][h] \in Posted
        <4> TAKE h \in 1 .. i - 1
        <4>1. h \in 1 .. Len(strand[e])
          BY <1>2, <2>3
        <4>2. strand[e][h] \in Posted
          BY <4>1 DEF Serving, JobsPlaced
        <4> QED BY <1>1, <4>1, <4>2
      <3> QED BY <1>1, <1>3, <2>3, <3>1, <3>2
    <2> QED BY <1>1, <1>2, <2>1, <2>2, <2>3
  <1>5. JobsCounted'
    BY <1>1, <1>2 DEF Serving, JobsCounted
  <1>6. NoJobLost'
    <2> SUFFICES ASSUME NEW i \in Posted' \ finished'
                 PROVE  \E d \in Jobs : \E n \in 1 .. Len(strand'[d]) : strand'[d][n] = i
      BY DEF NoJobLost
    <2>1. CASE i = j
      <3>1. Len(strand[e]) + 1 \in 1 .. Len(strand'[e])
        BY <1>1, <1>2
      <3> QED BY <1>1, <2>1, <3>1
    <2>2. CASE i \in Posted
      <3>1. PICK d \in Jobs : \E n \in 1 .. Len(strand[d]) : strand[d][n] = i
        BY <1>2, <2>2 DEF Serving, NoJobLost
      <3> PICK n \in 1 .. Len(strand[d]) : strand[d][n] = i
        BY <3>1
      <3>2. n \in 1 .. Len(strand'[d]) /\ strand'[d][n] = i
        BY <1>1, <1>2, <3>1
      <3> QED BY <3>2
    <2> QED BY <1>1, <2>1, <2>2
  <1> QED BY <1>4, <1>5, <1>6

LEMMA PostNewServing ==
    ASSUME Serving, NEW k \in Keys, PostNew(k)
    PROVE  Serving'
  <1> DEFINE j == Len(key) + 1
  <1>1. j \in Jobs /\ map_[k] = NoEntry /\ Enqueue(j, j, k)
        /\ map_' = [map_ EXCEPT ![k] = j] /\ reused' = reused /\ handler' = handler
        /\ finished' = finished
    BY DEF PostNew, Enqueue
  <1>2. /\ Posted' = Posted \cup {j} /\ j \notin Posted
        /\ \A i \in Posted : key'[i] = key[i]
        /\ key'[j] = k
        /\ key' \in Seq(Keys) /\ Len(key') = j
        /\ strand' \in [Jobs -> Seq(Jobs)]
        /\ pending' \in [Jobs -> Nat]
        /\ \A d \in Jobs : d # j => strand'[d] = strand[d]
    BY <1>1, EnqueueFacts
  <1>3. JobsPlaced' /\ JobsCounted' /\ NoJobLost'
    BY <1>1, EnqueueKeeps
  <1>4. TypeOK'
    <2>1. Len(key') <= MaxJobs
      BY <1>1, <1>2, JobsAssumption DEF Jobs
    <2>2. map_' \in [Keys -> Jobs \cup {NoEntry}]
      BY <1>1 DEF Serving, TypeOK
    <2> QED BY <1>1, <1>2, <2>1, <2>2 DEF Serving, TypeOK
  <1>5. Posted \subseteq Jobs /\ \A i \in Posted : key[i] \in Keys
    BY PostedJobs DEF Serving
  <1> HIDE DEF j
  <1>6. \A x \in Keys : map_'[x] # NoEntry => map_'[x] \in Posted' /\ key'[map_'[x]] = x
    BY <1>1, <1>2 DEF Serving, EntriesMapped, TypeOK
  <1>7. \A e \in Posted' : key'[e] \notin reused' =>
            /\ strand'[e] # <<>> => map_'[key'[e]] = e
            /\ handler'[e] = "erase" => strand'[e] = <<>>
    <2> SUFFICES ASSUME NEW e \in Posted', key'[e] \notin reused'
                 PROVE  /\ strand'[e] # <<>> => map_'[key'[e]] = e
                        /\ handler'[e] = "erase" => strand'[e] = <<>>
      OBVIOUS
    <2>1. CASE e = j
      <3>1. handler[j] = "idle"
        BY <1>1, <1>2 DEF Serving, JobsCounted
      <3> QED BY <1>1, <1>2, <2>1, <3>1 DEF Serving, TypeOK
    <2>2. CASE e \in Posted
      <3>1. /\ strand[e] # <<>> => map_[key[e]] = e
            /\ handler[e] = "erase" => strand[e] = <<>>
        BY <1>1, <1>2, <2>2 DEF Serving, EntriesMapped
      <3>2. strand'[e] = strand[e] /\ key'[e] = key[e] /\ e # NoEntry
        <4>1. e \in Jobs /\ e # j
          BY <1>2, <1>5, <2>2
        <4>2. e # NoEntry
          BY <4>1, JobsAssumption DEF Jobs, NoEntry
        <4> QED BY <1>2, <2>2, <4>1, <4>2
      <3>3. strand[e] # <<>> => key[e] # k
        <4>1. map_[k] = NoEntry
          BY <1>1
        <4> QED BY <3>1, <3>2, <4>1, Zenon
      <3> QED BY <1>1, <1>5, <2>2, <3>1, <3>2, <3>3 DEF Serving, TypeOK
    <2> QED BY <1>2, <2>1, <2>2
  <1> QED BY <1>3, <1>4, <1>6, <1>7 DEF Serving, EntriesMapped

LEMMA PostExistingServing ==
    ASSUME Serving, NEW k \in Keys, PostExisting(k)
    PROVE  Serving'
  <1> DEFINE j == Len(key) + 1
             m == map_[k]
  <1>1. /\ j \in Jobs /\ m # NoEntry /\ Enqueue(m, j, k)
        /\ reused' = IF pending[m] = 0 THEN reused \cup {k} ELSE reused
        /\ map_' = map_ /\ handler' = handler /\ finished' = finished
    BY DEF PostExisting, Enqueue
  <1>2. m \in Posted /\ key[m] = k
    BY <1>1 DEF Serving, EntriesMapped
  <1>3. Posted \subseteq Jobs /\ (\A i \in Posted : key[i] \in Keys) /\ m \in Jobs
    BY <1>2, PostedJobs DEF Serving
  <1>4. /\ Posted' = Posted \cup {j} /\ j \notin Posted
        /\ \A i \in Posted : key'[i] = key[i]
        /\ key'[j] = k
        /\ key' \in Seq(Keys) /\ Len(key') = j
        /\ strand' \in [Jobs -> Seq(Jobs)]
        /\ pending' \in [Jobs -> Nat]
        /\ \A d \in Jobs : d # m => strand'[d] = strand[d]
    BY <1>1, <1>3, EnqueueFacts
  <1>5. JobsPlaced' /\ JobsCounted' /\ NoJobLost'
    BY <1>1, <1>2, <1>3, EnqueueKeeps
  <1>6. TypeOK'
    <2>1. Len(key') <= MaxJobs
      BY <1>1, <1>4, JobsAssumption DEF Jobs
    <2>2. reused' \subseteq Keys
      BY <1>1 DEF Serving, TypeOK
    <2> QED BY <1>1, <1>4, <2>1, <2>2 DEF Serving, TypeOK
  <1> HIDE DEF j, m
  <1>7. \A x \in Keys : map_'[x] # NoEntry => map_'[x] \in Posted' /\ key'[map_'[x]] = x
    BY <1>1, <1>4 DEF Serving, EntriesMapped, TypeOK
  <1>8. \A e \in Posted' : key'[e] \notin reused' =>
            /\ strand'[e] # <<>> => map_'[key'[e]] = e
            /\ handler'[e] = "erase" => strand'[e] = <<>>
    <2> SUFFICES ASSUME NEW e \in Posted', key'[e] \notin reused'
                 PROVE  /\ strand'[e] # <<>> => map_'[key'[e]] = e
                        /\ handler'[e] = "erase" => strand'[e] = <<>>
      OBVIOUS
    <2>1. CASE e = j
      <3>1. handler[j] = "idle" /\ j # m
        BY <1>1, <1>2, <1>4 DEF Serving, JobsCounted
      <3>2. strand'[j] = strand[j]
        BY <1>1, <1>4, <3>1
      <3>3. strand[j] = <<>>
        <4>1. strand[j] \in Seq(Jobs)
          BY <1>1 DEF Serving, TypeOK
        <4>2. \A i \in 1 .. Len(strand[j]) : FALSE
          BY <1>1, <1>4 DEF Serving, JobsPlaced
        <4> QED BY <4>1, <4>2
      <3> QED BY <1>1, <2>1, <3>1, <3>2, <3>3
    <2>2. CASE e \in Posted /\ e # m
      <3>1. /\ strand[e] # <<>> => map_[key[e]] = e
            /\ handler[e] = "erase" => strand[e] = <<>>
        BY <1>1, <1>4, <2>2 DEF Serving, EntriesMapped
      <3> QED BY <1>1, <1>3, <1>4, <2>2, <3>1
    <2>3. CASE e = m
      <3>1. k \notin reused /\ pending[m] # 0
        BY <1>1, <1>2, <1>4, <2>3
      <3>2. strand[m] # <<>>
        BY <1>3, <3>1 DEF Serving, JobsCounted
      <3>3. handler[m] # "erase"
        BY <1>2, <3>1, <3>2 DEF Serving, EntriesMapped
      <3> QED BY <1>1, <1>2, <1>4, <2>3, <3>3 DEF m
    <2> QED BY <1>4, <2>1, <2>2, <2>3
  <1> QED BY <1>5, <1>6, <1>7, <1>8 DEF Serving, EntriesMapped

LEMMA StartServing ==
    ASSUME Serving, NEW e \in Jobs, Start(e)
    PROVE  Serving'
  <1>1. /\ strand[e] # <<>> /\ handler[e] = "idle"
        /\ handler' = [handler EXCEPT ![e] = "func"]
        /\ UNCHANGED <<map_, key, strand, pending, finished, reused>>
        /\ Posted' = Posted
    BY DEF Start, Posted
  <1>2. TypeOK'
    BY <1>1 DEF Serving, TypeOK
  <1>3. e \in Posted
    <2>1. strand[e] \in Seq(Jobs)
      BY DEF Serving, TypeOK
    <2>2. 1 \in 1 .. Len(strand[e])
      BY <1>1, <2>1
    <2> QED BY <2>2 DEF Serving, JobsPlaced
  <1>4. JobsPlaced' /\ NoJobLost'
    BY <1>1 DEF Serving, JobsPlaced, NoJobLost
  <1>5. JobsCounted'
    BY <1>1, <1>3 DEF Serving, JobsCounted, TypeOK
  <1>6. EntriesMapped'
    <2>1. \A d \in Posted : handler'[d] = "erase" => handler[d] = "erase"
      BY <1>1, PostedJobs DEF Serving, TypeOK
    <2> QED BY <1>1, <2>1 DEF Serving, EntriesMapped
  <1> QED BY <1>2, <1>4, <1>5, <1>6 DEF Serving

\* The head of a strand is done and leaves it: what is left is one shorter and
\* shifted by one.
LEMMA ReleaseServing ==
    ASSUME Serving, NEW e \in Jobs, Release(e)
    PROVE  Serving'
  <1> DEFINE s == strand[e]
  <1>1. /\ handler[e] = "func"
        /\ pending' = [pending EXCEPT ![e] = @ - 1]
        /\ handler' = [handler EXCEPT ![e] = IF pending[e] = 1 THEN "erase" ELSE "idle"]
        /\ strand' = [strand EXCEPT ![e] = Tail(@)]
        /\ finished' = finished \cup {Head(s)}
        /\ UNCHANGED <<map_, key, reused>>
        /\ Posted' = Posted
    BY DEF Release, Posted
  <1>2. s \in Seq(Jobs) /\ s # <<>> /\ e \in Posted /\ pending[e] = Len(s)
    BY <1>1 DEF Serving, JobsCounted, TypeOK
  <1> HIDE DEF s
  <1>3. /\ Len(s) \in Nat \ {0} /\ Head(s) \in Jobs /\ Head(s) = s[1]
        /\ Tail(s) \in Seq(Jobs) /\ Len(Tail(s)) = Len(s) - 1
        /\ \A i \in 1 .. Len(s) - 1 : Tail(s)[i] = s[i + 1]
    BY <1>2
  <1>4. /\ strand' \in [Jobs -> Seq(Jobs)] /\ strand'[e] = Tail(s)
        /\ \A d \in Jobs : d # e => strand'[d] = strand[d]
    BY <1>1, <1>3 DEF Serving, TypeOK, s
  <1>5. /\ pending' \in [Jobs -> Nat] /\ pending'[e] = Len(s) - 1
        /\ \A d \in Jobs : d # e => pending'[d] = pending[d]
    BY <1>1, <1>2, <1>3 DEF Serving, TypeOK
  <1>6. TypeOK'
    BY <1>1, <1>3, <1>4, <1>5 DEF Serving, TypeOK
  <1>7. JobsPlaced'
    <2> SUFFICES ASSUME NEW d \in Jobs, NEW i \in 1 .. Len(strand'[d])
                 PROVE  /\ d \in Posted' /\ strand'[d][i] \in Posted'
                        /\ key'[strand'[d][i]] = key'[d]
                        /\ \A h \in 1 .. i - 1 : strand'[d][h] < strand'[d][i]
      BY DEF JobsPlaced
    <2>1. CASE d # e
      BY <1>1, <1>4, <2>1 DEF Serving, JobsPlaced
    <2>2. CASE d = e
      <3>1. i \in 1 .. Len(s) - 1 /\ i + 1 \in 1 .. Len(s) /\ strand'[e][i] = s[i + 1]
        BY <1>3, <1>4, <2>2
      <3>2. /\ s[i + 1] \in Posted /\ key[s[i + 1]] = key[e]
            /\ \A h \in 1 .. (i + 1) - 1 : s[h] < s[i + 1]
        BY <3>1 DEF Serving, JobsPlaced, s
      <3>3. \A h \in 1 .. i - 1 :
                /\ strand'[e][h] = s[h + 1] /\ h + 1 \in 1 .. (i + 1) - 1
        <4> TAKE h \in 1 .. i - 1
        <4>1. h \in 1 .. Len(s) - 1 /\ h + 1 \in 1 .. (i + 1) - 1
          BY <1>3, <3>1
        <4>2. Tail(s)[h] = s[h + 1]
          BY <1>3, <4>1
        <4> QED BY <1>4, <4>1, <4>2
      <3>4. \A h \in 1 .. i - 1 : strand'[e][h] < strand'[e][i]
        BY <3>1, <3>2, <3>3
      <3>5. /\ e \in Posted' /\ strand'[e][i] \in Posted'
            /\ key'[strand'[e][i]] = key'[e]
        <4>1. key' = key /\ Posted' = Posted
          BY <1>1
        <4>2. strand'[e][i] = s[i + 1] /\ s[i + 1] \in Posted /\ key[s[i + 1]] = key[e]
          BY <3>1, <3>2
        <4> QED BY <1>2, <4>1, <4>2, Zenon
      <3> QED BY <2>2, <3>4, <3>5
    <2> QED BY <2>1, <2>2
  <1>8. JobsCounted'
    <2>1. handler'[e] # "func" /\ \A d \in Jobs : d # e => handler'[d] = handler[d]
      BY <1>1 DEF Serving, TypeOK
    <2>2. Len(strand'[e]) = Len(s) - 1
      BY <1>3, <1>4
    <2> QED BY <1>1, <1>2, <1>4, <1>5, <2>1, <2>2 DEF Serving, JobsCounted
  <1>9. EntriesMapped'
    <2>1. handler'[e] = "erase" => Len(s) = 1
      BY <1>1, <1>2, <1>3 DEF Serving, TypeOK
    <2>2. Len(s) = 1 => Tail(s) = <<>>
      <3>1. \A t \in Seq(Jobs) : Len(t) = 0 => t = <<>>
        OBVIOUS
      <3>2. Len(s) = 1 => Len(Tail(s)) = 0
        BY <1>3
      <3> QED BY <1>3, <3>1, <3>2
    <2>3. \A d \in Posted : /\ strand'[d] # <<>> => strand[d] # <<>>
                            /\ d # e => handler'[d] = handler[d]
      BY <1>1, <1>2, <1>4, PostedJobs DEF Serving, TypeOK, s
    <2>4. \A d \in Posted : handler'[d] = "erase" /\ key[d] \notin reused
                => strand'[d] = <<>>
      BY <1>4, <2>1, <2>2, <2>3, PostedJobs DEF Serving, EntriesMapped
    <2> QED BY <1>1, <2>3, <2>4 DEF Serving, EntriesMapped
  <1>10. NoJobLost'
    <2> SUFFICES ASSUME NEW j \in Posted' \ finished'
                 PROVE  \E d \in Jobs : \E i \in 1 .. Len(strand'[d]) : strand'[d][i] = j
      BY DEF NoJobLost
    <2>1. j \in Posted \ finished /\ j # s[1]
      BY <1>1, <1>3
    <2>2. PICK d \in Jobs : \E i \in 1 .. Len(strand[d]) : strand[d][i] = j
      BY <2>1 DEF Serving, NoJobLost
    <2> PICK i \in 1 .. Len(strand[d]) : strand[d][i] = j
      BY <2>2
    <2>3. CASE d # e
      BY <1>4, <2>3
    <2>4. CASE d = e
      <3>1. i \in 1 .. Len(s) /\ s[i] = j /\ i # 1
        BY <2>1, <2>4 DEF s
      <3>2. i - 1 \in 1 .. Len(s) - 1 /\ (i - 1) + 1 = i
        BY <1>3, <3>1
      <3>3. i - 1 \in 1 .. Len(strand'[e]) /\ strand'[e][i - 1] = j
        BY <1>3, <1>4, <3>1, <3>2
      <3> QED BY <3>3
    <2> QED BY <2>3, <2>4
  <1> QED BY <1>6, <1>7, <1>8, <1>9, <1>10 DEF Serving

\* An erase of a key that was never raced removes an entry without work.
LEMMA EraseServing ==
    ASSUME Serving, NEW e \in Jobs, Erase(e)
    PROVE  Serving'
  <1>1. /\ handler[e] = "erase"
        /\ map_' = [k \in Keys |-> IF map_[k] = e THEN NoEntry ELSE map_[k]]
        /\ handler' = [handler EXCEPT ![e] = "idle"]
        /\ UNCHANGED <<key, strand, pending, finished, reused>>
        /\ Posted' = Posted
    BY DEF Erase, Posted
  <1>2. TypeOK'
    BY <1>1 DEF Serving, TypeOK
  <1>3. JobsPlaced' /\ NoJobLost'
    BY <1>1 DEF Serving, JobsPlaced, NoJobLost
  <1>4. JobsCounted'
    BY <1>1 DEF Serving, JobsCounted, TypeOK
  <1>5. EntriesMapped'
    <2>1. \A k \in Keys : map_'[k] # NoEntry => map_'[k] = map_[k]
      BY <1>1
    <2>2. \A d \in Posted : key[d] \notin reused =>
                /\ strand[d] # <<>> => map_'[key[d]] = d
                /\ handler'[d] = "erase" => strand[d] = <<>>
      <3> SUFFICES ASSUME NEW d \in Posted, key[d] \notin reused
                   PROVE  /\ strand[d] # <<>> => map_'[key[d]] = d
                          /\ handler'[d] = "erase" => strand[d] = <<>>
        OBVIOUS
      <3>1. d \in Jobs /\ key[d] \in Keys
        BY PostedJobs DEF Serving
      <3>2. /\ strand[d] # <<>> => map_[key[d]] = d
            /\ handler[d] = "erase" => strand[d] = <<>>
        BY DEF Serving, EntriesMapped
      <3>3. CASE d = e
        BY <1>1, <3>2, <3>3
      <3>4. CASE d # e
        BY <1>1, <3>1, <3>2, <3>4 DEF Serving, TypeOK
      <3> QED BY <3>3, <3>4
    <2> QED BY <1>1, <2>1, <2>2 DEF Serving, EntriesMapped
  <1> QED BY <1>2, <1>3, <1>4, <1>5 DEF Serving

LEMMA NextServing == Serving /\ [ExecutorNext]_executor_vars => Serving'
  <1> SUFFICES ASSUME Serving, [ExecutorNext]_executor_vars
               PROVE  Serving'
    OBVIOUS
  <1>1. ASSUME NEW k \in Keys, PostNew(k) PROVE Serving'
    BY <1>1, PostNewServing
  <1>2. ASSUME NEW k \in Keys, PostExisting(k) PROVE Serving'
    BY <1>2, PostExistingServing
  <1>3. ASSUME NEW e \in Jobs, Start(e) PROVE Serving'
    BY <1>3, StartServing
  <1>4. ASSUME NEW e \in Jobs, Release(e) PROVE Serving'
    BY <1>4, ReleaseServing
  <1>5. ASSUME NEW e \in Jobs, Erase(e) PROVE Serving'
    BY <1>5, EraseServing
  <1>6. ASSUME UNCHANGED executor_vars PROVE Serving'
    BY <1>6 DEF executor_vars, Serving, TypeOK, JobsPlaced, JobsCounted, EntriesMapped, NoJobLost, Posted
  <1> QED BY <1>1, <1>2, <1>3, <1>4, <1>5, <1>6 DEF ExecutorNext, Quiescent

\* A job of a never-raced key runs only at the head of the one strand that holds all
\* unfinished jobs of its key, so the earlier ones have returned.
LEMMA ServingSerial == Serving => SerialUnlessReused
  <1> SUFFICES ASSUME Serving, NEW e \in Jobs, handler[e] = "func",
                      key[Head(strand[e])] \notin reused,
                      NEW i \in Posted, i < Head(strand[e]),
                      key[i] = key[Head(strand[e])], i \notin finished
               PROVE  FALSE
    BY DEF SerialUnlessReused, InTurn
  <1>1. strand[e] \in Seq(Jobs) /\ strand[e] # <<>>
    BY DEF Serving, TypeOK, JobsCounted
  <1>2. Head(strand[e]) = strand[e][1] /\ 1 \in 1 .. Len(strand[e])
    BY <1>1
  <1>3. e \in Posted /\ key[strand[e][1]] = key[e]
    BY <1>2 DEF Serving, JobsPlaced
  <1>4. PICK d \in Jobs : \E n \in 1 .. Len(strand[d]) : strand[d][n] = i
    BY DEF Serving, NoJobLost
  <1> PICK n \in 1 .. Len(strand[d]) : strand[d][n] = i
    BY <1>4
  <1>5. d \in Posted /\ key[d] = key[e]
    BY <1>2, <1>3 DEF Serving, JobsPlaced
  <1>6. strand[d] # <<>>
    OBVIOUS
  <1>7. d = e
    BY <1>1, <1>2, <1>3, <1>5, <1>6 DEF Serving, EntriesMapped
  <1>8. n = 1 \/ strand[e][1] < strand[e][n]
    BY <1>7 DEF Serving, JobsPlaced
  <1>9. i \in Int /\ strand[e][1] \in Int
    <2>1. Posted \subseteq Int
      BY PostedJobs DEF Serving, Jobs
    <2> QED BY <1>2, <2>1 DEF Serving, JobsPlaced
  <1> QED BY <1>2, <1>7, <1>8, <1>9

\* The executor's maps, strands and counts keep their types.
THEOREM ExecutorTypes == ExecutorSpec => []TypeOK
  <1>1. Serving => TypeOK
    BY DEF Serving
  <1> QED BY <1>1, InitServing, NextServing, PTL DEF ExecutorSpec

\* For every set of keys and number of jobs, the jobs of a key run one at a time and
\* in order unless a post meets the key's entry between fetch_sub and erase: that
\* window is the only way to lose the serialisation.
THEOREM SerialExecution == ExecutorSpec => []SerialUnlessReused
  BY InitServing, NextServing, ServingSerial, PTL DEF ExecutorSpec


\* An entry in the map has work on its strand, or a handler that is about to erase it.
EntriesAttended ==
    \A k \in Keys : map_[k] # NoEntry =>
        handler[map_[k]] = "erase" \/ strand[map_[k]] # <<>>

LEMMA PostAttended ==
    ASSUME Serving, EntriesAttended, NEW k \in Keys, PostNew(k) \/ PostExisting(k)
    PROVE  EntriesAttended'
  <1> DEFINE j == Len(key) + 1
  <1>1. PICK e \in Jobs : /\ j \in Jobs /\ Enqueue(e, j, k)
                          /\ map_' = [map_ EXCEPT ![k] = e]
    <2>1. CASE PostNew(k)
      BY <2>1 DEF PostNew
    <2>2. CASE PostExisting(k)
      BY <2>2 DEF PostExisting, Serving, TypeOK
    <2> QED BY <2>1, <2>2
  <1>2. /\ strand'[e] # <<>>
        /\ \A d \in Jobs : d # e => strand'[d] = strand[d]
    BY <1>1, EnqueueFacts
  <1>3. handler' = handler /\ map_ \in [Keys -> Jobs \cup {NoEntry}]
    BY <1>1 DEF Enqueue, Serving, TypeOK
  <1> HIDE DEF j
  <1> QED BY <1>1, <1>2, <1>3 DEF EntriesAttended

LEMMA RunAttended ==
    ASSUME Serving, EntriesAttended, NEW e \in Jobs, Start(e) \/ Release(e) \/ Erase(e)
    PROVE  EntriesAttended'
  <1>1. /\ map_ \in [Keys -> Jobs \cup {NoEntry}]
        /\ handler \in [Jobs -> {"idle", "func", "erase"}]
        /\ strand \in [Jobs -> Seq(Jobs)]
    BY DEF Serving, TypeOK
  <1>2. CASE Start(e)
    BY <1>1, <1>2 DEF Start, EntriesAttended
  <1>3. CASE Release(e)
    <2>1. handler'[e] = "erase" \/ strand'[e] # <<>>
      <3>1. strand[e] \in Seq(Jobs) /\ strand[e] # <<>> /\ pending[e] = Len(strand[e])
        BY <1>1, <1>3 DEF Release, Serving, JobsCounted
      <3>2. strand'[e] = Tail(strand[e])
        BY <1>1, <1>3 DEF Release
      <3>3. CASE Len(strand[e]) = 1
        BY <1>1, <1>3, <3>1, <3>3 DEF Release
      <3>4. CASE Len(strand[e]) # 1
        <4>1. Len(strand[e]) \in Nat \ {0} /\ Len(strand'[e]) = Len(strand[e]) - 1
          BY <3>1, <3>2, EmptySeq, HeadTailProperties
        <4>2. Len(strand'[e]) # 0
          BY <3>4, <4>1
        <4> QED BY <4>2, EmptySeq
      <3> QED BY <3>3, <3>4
    <2>2. \A d \in Jobs : d # e => strand'[d] = strand[d] /\ handler'[d] = handler[d]
      BY <1>1, <1>3 DEF Release
    <2>3. map_' = map_
      BY <1>3 DEF Release
    <2> QED BY <1>1, <2>1, <2>2, <2>3 DEF EntriesAttended
  <1>4. CASE Erase(e)
    <2>1. \A k \in Keys : map_'[k] = IF map_[k] = e THEN NoEntry ELSE map_[k]
      BY <1>4 DEF Erase
    <2>2. \A d \in Jobs : d # e => handler'[d] = handler[d]
      BY <1>1, <1>4 DEF Erase
    <2>3. strand' = strand
      BY <1>4 DEF Erase
    <2> QED BY <1>1, <2>1, <2>2, <2>3 DEF EntriesAttended
  <1> QED BY <1>2, <1>3, <1>4

\* The map is empty whenever no strand has work or a running handler: also the entry
\* that a post took between fetch_sub and erase is erased in the end.
THEOREM NothingLeaks == ExecutorSpec => []NoLeak
  <1>1. ExecutorInit => EntriesAttended
    BY DEF ExecutorInit, EntriesAttended
  <1>2. Serving /\ EntriesAttended /\ [ExecutorNext]_executor_vars => EntriesAttended'
    <2> SUFFICES ASSUME Serving, EntriesAttended, [ExecutorNext]_executor_vars
                 PROVE  EntriesAttended'
      OBVIOUS
    <2>1. CASE UNCHANGED executor_vars
      BY <2>1 DEF executor_vars, EntriesAttended
    <2>2. CASE ExecutorNext
      BY <2>1, <2>2, PostAttended, RunAttended DEF ExecutorNext, Quiescent
    <2> QED BY <2>1, <2>2
  <1>3. Serving /\ EntriesAttended => NoLeak
    <2> SUFFICES ASSUME Serving, EntriesAttended, Idle, NEW k \in Keys
                 PROVE  map_[k] = NoEntry
      BY DEF NoLeak
    <2>1. map_[k] # NoEntry => map_[k] \in Jobs
      BY DEF Serving, TypeOK
    <2> QED BY <2>1 DEF EntriesAttended, Idle
  <1> QED BY InitServing, NextServing, <1>1, <1>2, <1>3, PTL DEF ExecutorSpec

=============================================================================
