---------------------------- MODULE ClientProofs ----------------------------
(***************************************************************************)
(* Five promises of the client, for any number of connections, clicks and  *)
(* messages: a popup that waits is behind one that is shown; a user who    *)
(* leaves gets out; and once nothing is under way the screen, the queue    *)
(* button and the lists show what the server holds, but for the races the  *)
(* history variable records.                                               *)
(*                                                                         *)
(* The last three rest on one picture of the network: while the user       *)
(* neither leaves nor opens a connection over another, only the session in *)
(* use is open or has a report on the strand.  Each then says of that      *)
(* session what the client will show once its messages are handled, in     *)
(* order, and the requests on their way have been answered.                *)
(***************************************************************************)
EXTENDS Client, SequenceTheorems, TLAPS

-----------------------------------------------------------------------------
(* Popups.                                                                 *)

PopupQueues == [urgent : Nat, standard : Nat, showing : BOOLEAN,
                posted : BOOLEAN, visible : BOOLEAN]

PopupInv == popups \in PopupQueues /\ PopupsAreShown

\* All that a step can do to the popups.
PopupStep ==
  \/ UNCHANGED popups
  \/ Urgent
  \/ Standard
  \/ /\ popups.posted
     /\ popups' = [popups EXCEPT !.posted = FALSE, !.visible = TRUE]
  \/ popups.visible /\ popups' = notify_popup_closed(popups)

\* At most one popup is being shown, and the flag says so.
OneShown(p) == /\ p.showing <=> p.posted \/ p.visible
               /\ ~(p.posted /\ p.visible)

LEMMA TryShowPopup ==
  ASSUME NEW p \in PopupQueues, OneShown(p)
  PROVE  LET r == try_show_popup(p) IN
         /\ r \in PopupQueues
         /\ OneShown(r)
         /\ r.urgent + r.standard > 0 => r.showing
  <1>1. CASE p.showing
    BY <1>1 DEF try_show_popup, PopupQueues, OneShown
  <1>2. CASE ~p.showing /\ p.urgent = 0 /\ p.standard = 0
    BY <1>2 DEF try_show_popup, PopupQueues, OneShown
  <1>3. CASE ~p.showing /\ p.urgent > 0
    <2> DEFINE r == [p EXCEPT !.urgent = p.urgent - 1, !.showing = TRUE,
                              !.posted = TRUE]
    <2>1. try_show_popup(p) = r
      BY <1>3 DEF try_show_popup, PopupQueues
    <2>2. ~p.visible
      BY <1>3 DEF OneShown, PopupQueues
    <2>3. r \in PopupQueues
      <3>1. p.urgent - 1 \in Nat
        BY <1>3 DEF PopupQueues
      <3> QED BY <3>1 DEF PopupQueues
    <2>4. r.showing /\ r.posted /\ r.visible = p.visible
      BY DEF PopupQueues
    <2> HIDE DEF r
    <2>5. OneShown(r)
      BY <2>2, <2>4 DEF OneShown
    <2> QED BY <2>1, <2>3, <2>4, <2>5
  <1>4. CASE ~p.showing /\ p.urgent = 0 /\ p.standard > 0
    <2> DEFINE r == [p EXCEPT !.standard = p.standard - 1, !.showing = TRUE,
                              !.posted = TRUE]
    <2>1. try_show_popup(p) = r
      BY <1>4 DEF try_show_popup, PopupQueues
    <2>2. ~p.visible
      BY <1>4 DEF OneShown, PopupQueues
    <2>3. r \in PopupQueues
      <3>1. p.standard - 1 \in Nat
        BY <1>4 DEF PopupQueues
      <3> QED BY <3>1 DEF PopupQueues
    <2>4. r.showing /\ r.posted /\ r.visible = p.visible
      BY DEF PopupQueues
    <2> HIDE DEF r
    <2>5. OneShown(r)
      BY <2>2, <2>4 DEF OneShown
    <2> QED BY <2>1, <2>3, <2>4, <2>5
  <1> QED BY <1>1, <1>2, <1>3, <1>4 DEF PopupQueues

LEMMA CloseSessionPopups ==
  ASSUME NEW i, NEW s, close_session(i, s)
  PROVE  PopupStep
  BY DEF close_session, PopupStep

LEMMA ClicksPopups == Clicks => PopupStep
  <1>1. ASSUME NEW c, Posted(c) PROVE PopupStep
    BY <1>1 DEF Posted, PopupStep
  <1>2. ClosePopup => PopupStep
    BY DEF ClosePopup, PopupStep
  <1>3. start_replay \/ close_replay \/ shutdown => PopupStep
    BY DEF start_replay, close_replay, shutdown, PopupStep
  <1>4. ASSUME Clicks, ~ClosePopup, ~(start_replay \/ close_replay \/ shutdown)
        PROVE  \E c : Posted(c)
    BY <1>4 DEF Clicks, connect, login, register_account, send_friend_request,
       respond_friend_request, send_unfriend_request, send_block_request,
       send_unblock_request, queue_request, cancel_request, send_command,
       forfeit_request, interpret_message, fetch_match_history,
       request_match_replay
  <1> QED BY <1>1, <1>2, <1>3, <1>4

LEMMA StrandPopups == RunStrand => PopupStep
  <1>1. ASSUME NEW c, Checked(c) PROVE PopupStep
    BY <1>1 DEF Checked, PopupStep
  <1>2. ASSUME NEW c, JustSend(c) \/ OnRespond(c) \/ OnQueue(c) \/ OnText(c)
                      \/ OnDisconnect(c)
        PROVE  PopupStep
    BY <1>2 DEF JustSend, OnRespond, OnQueue, OnText, OnDisconnect, PopupStep
  <1>3. OnConnect \/ OnDisconnected \/ OnShutdown => PopupStep
    BY DEF OnConnect, OnDisconnected, OnShutdown, PopupStep
  <1> QED BY <1>1, <1>2, <1>3 DEF RunStrand

LEMMA MessagePopups ==
  ASSUME NEW i, on_message(i)
  PROVE  PopupStep
  <1>1. GoodAuth(i) \/ MatchStarting(i) \/ MatchInProgress(i) \/ PlayerView(i)
        \/ GameEnded(i) => PopupStep
    BY DEF GoodAuth, MatchStarting, MatchInProgress, PlayerView, GameEnded,
       PopupStep
  <1>2. QueueFailed(i) \/ Notice(i) \/ Refusal(i) => PopupStep
    BY DEF QueueFailed, Notice, Refusal, PopupStep
  <1>3. \A m : MatchOver(i, m) \/ UsersUpdated(i, m) => PopupStep
    BY DEF MatchOver, UsersUpdated, PopupStep
  <1>4. Malformed(i) => PopupStep
    BY CloseSessionPopups DEF Malformed
  <1> QED BY <1>1, <1>2, <1>3, <1>4 DEF on_message

LEMMA NextPopups == [Next]_vars => PopupStep
  <1>1. UNCHANGED vars => PopupStep
    BY DEF vars, PopupStep
  <1>2. ShowScreen \/ UpdateButton \/ ShowPopup => PopupStep
    BY DEF ShowScreen, UpdateButton, ShowPopup, PopupStep
  <1>3. \A t \in Threads : Tell(t) => PopupStep
    BY DEF Tell, PopupStep
  <1>4. ASSUME NEW i \in Sessions,
               \/ on_resolve(i) \/ TimerExpires(i) \/ on_connect_timeout(i)
               \/ on_connect(i) \/ Verified(i) \/ BadTLS(i)
        PROVE  PopupStep
    BY <1>4 DEF on_resolve, TimerExpires, on_connect_timeout, on_connect,
       Verified, BadTLS, PopupStep
  <1>5. ASSUME NEW i \in Sessions,
               \/ Read(i) \/ handle_read_error(i) \/ force_close_session(i)
               \/ Answer(i) \/ Unasked(i)
        PROVE  PopupStep
    BY <1>5, CloseSessionPopups DEF Read, handle_read_error,
       force_close_session, Answer, Unasked, PopupStep
  <1> QED BY <1>1, <1>2, <1>3, <1>4, <1>5, ClicksPopups, StrandPopups,
             MessagePopups DEF Next

\* A popup that waits is behind one that is shown, and no two are shown at
\* once, whatever the threads that push them do: try_show_popup is called
\* after every push and every close.  (GUIClient::try_show_popup)
THEOREM WaitingPopupsAreShown == Spec => []PopupsAreShown
  <1>1. Init => PopupInv
    BY DEF Init, Common, PopupInv, PopupQueues, PopupsAreShown
  <1>2. PopupInv /\ PopupStep => PopupInv'
    <2> SUFFICES ASSUME popups \in PopupQueues, PopupsAreShown, PopupStep
                 PROVE  PopupInv'
      BY DEF PopupInv
    <2>a. OneShown(popups)
      BY DEF PopupsAreShown, OneShown
    <2>b. ASSUME NEW p \in PopupQueues, OneShown(p), popups' = try_show_popup(p)
          PROVE  PopupInv'
      BY <2>b, TryShowPopup DEF PopupInv, PopupsAreShown, OneShown
    <2>1. CASE UNCHANGED popups
      BY <2>1 DEF PopupInv, PopupsAreShown
    <2>2. CASE Urgent
      <3> DEFINE p == [popups EXCEPT !.urgent = @ + 1]
      <3>1. p \in PopupQueues /\ OneShown(p)
        BY <2>a DEF PopupQueues, OneShown
      <3> QED BY <2>2, <2>b, <3>1 DEF Urgent
    <2>3. CASE Standard
      <3> DEFINE p == [popups EXCEPT !.standard = @ + 1]
      <3>1. p \in PopupQueues /\ OneShown(p)
        BY <2>a DEF PopupQueues, OneShown
      <3> QED BY <2>3, <2>b, <3>1 DEF Standard
    <2>4. CASE /\ popups.posted
               /\ popups' = [popups EXCEPT !.posted = FALSE, !.visible = TRUE]
      BY <2>4 DEF PopupInv, PopupQueues, PopupsAreShown
    <2>5. CASE popups.visible /\ popups' = notify_popup_closed(popups)
      <3> DEFINE p == [popups EXCEPT !.showing = FALSE, !.visible = FALSE]
      <3>1. p \in PopupQueues /\ OneShown(p)
        BY <2>a, <2>5 DEF PopupQueues, OneShown
      <3> QED BY <2>5, <2>b, <3>1 DEF notify_popup_closed
    <2> QED BY <2>1, <2>2, <2>3, <2>4, <2>5 DEF PopupStep
  <1>3. PopupInv => PopupsAreShown
    BY DEF PopupInv
  <1> QED BY <1>1, <1>2, <1>3, NextPopups, PTL DEF Spec

-----------------------------------------------------------------------------
(* Types.                                                                  *)

States == Screens \cup {"Disconnected"}
ModeSet == Modes \cup {NO_MODE}
Relations == ListTypes \cup {"none"}

\* What is posted to client_strand_, and delivered to a session.
Calls ==
  [call : {"Connect", "Command", "Forfeit", "History", "GetReplay", "Send",
           "Shutdown", "Disconnected"}]
  \cup [call : {"Login", "Register", "Befriend"}, ok : BOOLEAN]
  \cup [call : {"Block"}, user : Others, ok : BOOLEAN]
  \cup [call : {"Respond"}, user : Others, yes : BOOLEAN]
  \cup [call : {"Unfriend", "Unblock"}, user : Others]
  \cup [call : {"Text"}, user : Others \cup {"match"}]
  \cup [call : {"Queue", "Cancel"}, mode : ModeSet]
  \cup [call : {"Fetch"}, list : ListTypes]
  \cup [call : {"Disconnect"}, by : Sessions]

\* What comes off the wire, and the close that is dispatched to a session.
Messages ==
  [type : {"GoodAuth", "MatchStarting", "MatchInProgress", "PlayerView",
           "ForfeitMatch", "MatchOver", "GameEnded", "QueueFailed", "Notice",
           "Refusal", "Malformed", "Close"}]
  \cup [type : {"FriendAdded", "FriendRemoved", "FriendRequest", "Blocked",
                "Unblocked"}, user : Others]
  \cup [type : {"List"}, list : ListTypes, users : SUBSET Others]

Stages == {"None", "Resolving", "Connecting", "Handshake", "Up", "Failed",
           "Closed"}

Connection == [stage : Stages, live : BOOLEAN,
               timer : {"off", "armed", "expired"}, cancelled : BOOLEAN,
               wire : Seq(Messages), posted : Seq(Messages),
               out : Seq(Calls), jammed : BOOLEAN, peer : BOOLEAN,
               reported : BOOLEAN]

Account == [auth : SUBSET Sessions, mode : ModeSet, match : BOOLEAN,
            rel : [Others -> Relations]]

Races == [late : BOOLEAN, crossed : BOOLEAN, doubled : BOOLEAN,
          stale : BOOLEAN, overtaken : BOOLEAN, requeued : BOOLEAN,
          kept : BOOLEAN, unheard : BOOLEAN]

TypedState == /\ state \in States
              /\ telling \in [Threads -> States \cup {"none"}]
              /\ ghost \in Races
TypedData == /\ hung \in BOOLEAN /\ playing \in BOOLEAN
             /\ lists \in [ListTypes -> SUBSET Others]
TypedGui == /\ screens \in Seq(States) /\ shown \in Screens
            /\ updates \in Seq(ModeSet) /\ queued_mode \in ModeSet
TypedStrand == /\ current \in 0 .. MaxSessions
               /\ strand \in Seq(Calls)
               /\ exit \in [asked : BOOLEAN, done : BOOLEAN]
TypedSession == session \in [Sessions -> Connection]
TypedServer == /\ server \in Account
               /\ spent \in [clicks : Nat, sent : Nat]

Typed == /\ TypedState /\ TypedData /\ TypedGui /\ TypedStrand
         /\ TypedSession /\ TypedServer

LEMMA TailType ==
  ASSUME NEW S, NEW s \in Seq(S), s # <<>>
  PROVE  Head(s) \in S /\ Tail(s) \in Seq(S)
  OBVIOUS

LEMMA AppendType ==
  ASSUME NEW S, NEW s \in Seq(S), NEW x \in S
  PROVE  Append(s, x) \in Seq(S)
  OBVIOUS

LEMMA ConcatType ==
  ASSUME NEW S, NEW s \in Seq(S), NEW t \in Seq(S)
  PROVE  s \o t \in Seq(S)
  OBVIOUS

\* The fields a call has.
LEMMA CallFields ==
  ASSUME NEW c \in Calls
  PROVE  /\ c.call \in {"Respond", "Unfriend", "Block", "Unblock"}
              => c.user \in Others
         /\ c.call \in {"Queue", "Cancel"} => c.mode \in ModeSet
         /\ c.call = "Fetch" => c.list \in ListTypes
         /\ c.call = "Disconnect" => c.by \in Sessions
  BY DEF Calls

LEMMA MessageFields ==
  ASSUME NEW m \in Messages
  PROVE  /\ m.type \in {"FriendAdded", "FriendRemoved", "FriendRequest",
                        "Blocked", "Unblocked"} => m.user \in Others
         /\ m.type = "List" => m.list \in ListTypes /\ m.users \in SUBSET Others
  BY DEF Messages

LEMMA InitTyped == Init => Typed
  <1> SUFFICES ASSUME Init PROVE Typed
    OBVIOUS
  <1> USE ClientBounds
  <1>1. TypedState
    BY DEF Init, Common, Started, LoggedIn, NoRaces, Races, TypedState, States,
       Screens
  <1>2. TypedData
    <2>1. hung \in BOOLEAN /\ playing \in BOOLEAN
      BY DEF Init, Common
    <2>2. lists \in [ListTypes -> SUBSET Others]
      BY DEF Init, Started, LoggedIn
    <2> QED BY <2>1, <2>2 DEF TypedData
  <1>3. TypedGui
    BY DEF Init, Common, Started, LoggedIn, TypedGui, Screens, ModeSet
  <1>4. TypedStrand
    BY DEF Init, Common, Started, LoggedIn, TypedStrand
  <1>5. TypedSession
    <2>1. NewSession \in Connection
      BY DEF NewSession, Connection, Stages
    <2>2. [NewSession EXCEPT !.stage = "Up", !.live = TRUE] \in Connection
      BY <2>1 DEF Connection, Stages
    <2> QED BY <2>1, <2>2 DEF Init, Started, LoggedIn, TypedSession
  <1>6. TypedServer
    <2>1. spent \in [clicks : Nat, sent : Nat]
      BY DEF Init, Common
    <2>2. server \in Account
      <3>1. CASE Started
        BY <3>1 DEF Started, Account, Relations, ListTypes, ModeSet
      <3>2. ASSUME NEW mode \in ModeSet, NEW match \in BOOLEAN,
                   LoggedIn(mode, match)
            PROVE  server \in Account
        BY <3>2 DEF LoggedIn, Account, Relations, ListTypes, Sessions
      <3> QED BY <3>1, <3>2 DEF Init, ModeSet
    <2> QED BY <2>1, <2>2 DEF TypedServer
  <1> QED BY <1>1, <1>2, <1>3, <1>4, <1>5, <1>6 DEF Typed

-----------------------------------------------------------------------------
(* Steps keep the types.                                                   *)

LEMMA ChangeStateType ==
  ASSUME TypedState, NEW t \in Threads, NEW s \in States, NEW h \in Races,
         change_state(t, s, h)
  PROVE  TypedState'
  <1>1. state' \in States /\ telling' \in [Threads -> States \cup {"none"}]
    BY DEF change_state, TypedState
  <1>2. ghost' \in Races
    <2> DEFINE A == h.crossed \/ \E u \in Threads \ {t} : telling[u] # "none"
               B == h.late \/ (t \in Sessions /\ session[t].reported)
    <2>1. A \in BOOLEAN /\ B \in BOOLEAN
      OBVIOUS
    <2>2. ghost' = [h EXCEPT !.crossed = A, !.late = B]
      BY DEF change_state
    <2> HIDE DEF A, B
    <2> QED BY <2>1, <2>2 DEF Races
  <1> QED BY <1>1, <1>2 DEF TypedState

LEMMA SessionThreads == Sessions \subseteq Threads
  BY DEF Threads

\* The clicks.
LEMMA PostedType ==
  ASSUME Typed, NEW c \in Calls, Posted(c)
  PROVE  Typed'
  <1>1. strand' \in Seq(Calls)
    BY AppendType DEF Posted, Post, Typed, TypedStrand
  <1>2. spent' \in [clicks : Nat, sent : Nat]
    BY DEF Posted, Click, Typed, TypedServer
  <1> QED BY <1>1, <1>2 DEF Posted, Typed, TypedState, TypedData, TypedGui,
             TypedStrand, TypedSession, TypedServer, core, gui

LEMMA ClicksType ==
  ASSUME Typed, Clicks
  PROVE  Typed'
  <1> DEFINE Goal == Typed'
  <1>0. ASSUME NEW c \in Calls, Posted(c) PROVE Goal
    BY <1>0, PostedType
  <1> HIDE DEF Goal
  <1>1. connect \/ send_command \/ forfeit_request \/ fetch_match_history
        \/ request_match_replay => Goal
    BY <1>0 DEF connect, send_command, forfeit_request, fetch_match_history,
       request_match_replay, Calls
  <1>2. login \/ register_account \/ send_friend_request => Goal
    BY <1>0 DEF login, register_account, send_friend_request, Calls
  <1>3. respond_friend_request \/ send_unfriend_request \/ send_block_request
        \/ send_unblock_request => Goal
    <2>1. \A t \in ListTypes : lists[t] \subseteq Others
      BY DEF Typed, TypedData
    <2> QED BY <1>0, <2>1 DEF respond_friend_request, send_unfriend_request,
               send_block_request, send_unblock_request, Calls, ListTypes
  <1>4. queue_request \/ cancel_request => Goal
    <2>1. queued_mode \in ModeSet
      BY DEF Typed, TypedGui
    <2> QED BY <1>0, <2>1 DEF queue_request, cancel_request, Calls, ModeSet
  <1>5. interpret_message => Goal
    BY <1>0 DEF interpret_message, Calls
  <1>6. ASSUME start_replay \/ close_replay PROVE Goal
    <2>1. PICK s \in States, h \in Races : change_state(GuiThread, s, h)
      <3>1. /\ [ghost EXCEPT !.stale = @ \/ state # "Lobby"] \in Races
            /\ [ghost EXCEPT !.stale = @ \/ state # "Replaying"] \in Races
        BY DEF Typed, TypedState, Races
      <3> QED BY <1>6, <3>1 DEF start_replay, close_replay, States, Screens
    <2>2. TypedState'
      BY <2>1, ChangeStateType DEF Typed, Threads
    <2>3. spent' \in [clicks : Nat, sent : Nat]
      BY <1>6 DEF start_replay, close_replay, Click, Typed, TypedServer
    <2> QED BY <1>6, <2>2, <2>3 DEF Goal, start_replay, close_replay, Typed,
               TypedData, TypedGui, TypedStrand, TypedSession, TypedServer, gui
  <1>7. ASSUME shutdown PROVE Goal
    <2>1. [call |-> "Shutdown"] \in Calls
      BY DEF Calls
    <2>2. strand' \in Seq(Calls)
      BY <1>7, <2>1, AppendType DEF shutdown, Post, Typed, TypedStrand
    <2> QED BY <1>7, <2>2 DEF Goal, shutdown, Typed, TypedState, TypedData,
               TypedGui, TypedStrand, TypedSession, TypedServer, core, gui
  <1>8. ClosePopup => Goal
    BY DEF Goal, ClosePopup, Typed, TypedState, TypedData, TypedGui,
       TypedStrand, TypedSession, TypedServer, core, gui
  <1>9. Goal
    BY <1>1, <1>2, <1>3, <1>4, <1>5, <1>6, <1>7, <1>8 DEF Clicks
  <1> QED BY <1>9 DEF Goal

\* Steps of the network and of a session's strand that concern the
\* connection.
LEMMA DisconnectedType ==
  ASSUME TypedStrand, NEW i \in Sessions, Disconnected(i)
  PROVE  strand' \in Seq(Calls)
  <1>1. [call |-> "Disconnect", by |-> i] \in Calls
    BY DEF Calls
  <1> QED BY <1>1, AppendType DEF Disconnected, TypedStrand

LEMMA HangupType ==
  ASSUME TypedServer, NEW i \in Sessions, Hangup(i)
  PROVE  server' \in Account
  <1> DEFINE M == IF i \in server.auth THEN NO_MODE ELSE server.mode
             A == server.auth \ {i}
  <1>1. M \in ModeSet /\ A \in SUBSET Sessions
    BY DEF TypedServer, Account, ModeSet
  <1>2. server' = [server EXCEPT !.auth = A, !.mode = M]
    BY DEF Hangup
  <1> HIDE DEF M, A
  <1> QED BY <1>1, <1>2 DEF TypedServer, Account

\* One field of a connection changes, or two.
LEMMA OneField ==
  ASSUME NEW s \in [Sessions -> Connection], NEW i \in Sessions
  PROVE  /\ \A a \in Stages :
              [s EXCEPT ![i].stage = a] \in [Sessions -> Connection]
         /\ \A a \in {"off", "armed", "expired"} :
              [s EXCEPT ![i].timer = a] \in [Sessions -> Connection]
         /\ \A a \in BOOLEAN :
              /\ [s EXCEPT ![i].live = a] \in [Sessions -> Connection]
              /\ [s EXCEPT ![i].peer = a] \in [Sessions -> Connection]
              /\ [s EXCEPT ![i].reported = a] \in [Sessions -> Connection]
         /\ \A a \in Seq(Messages) :
              /\ [s EXCEPT ![i].wire = a] \in [Sessions -> Connection]
              /\ [s EXCEPT ![i].posted = a] \in [Sessions -> Connection]
  <1>1. ASSUME NEW r \in Connection
        PROVE  [s EXCEPT ![i] = r] \in [Sessions -> Connection]
    BY <1>1
  <1>2. \A a \in Stages : [s[i] EXCEPT !.stage = a] \in Connection
    BY DEF Connection
  <1>3. \A a \in {"off", "armed", "expired"} :
          [s[i] EXCEPT !.timer = a] \in Connection
    BY DEF Connection
  <1>4. \A a \in BOOLEAN : /\ [s[i] EXCEPT !.live = a] \in Connection
                           /\ [s[i] EXCEPT !.peer = a] \in Connection
                           /\ [s[i] EXCEPT !.reported = a] \in Connection
    BY DEF Connection
  <1>5. \A a \in Seq(Messages) : /\ [s[i] EXCEPT !.wire = a] \in Connection
                                 /\ [s[i] EXCEPT !.posted = a] \in Connection
    BY DEF Connection
  <1> QED BY <1>1, <1>2, <1>3, <1>4, <1>5

LEMMA StageAndTimer ==
  ASSUME NEW s \in [Sessions -> Connection], NEW i \in Sessions,
         NEW a \in Stages, NEW b \in {"off", "armed", "expired"}
  PROVE  [s EXCEPT ![i].stage = a, ![i].timer = b] \in [Sessions -> Connection]
  <1> DEFINE r == [s[i] EXCEPT !.stage = a, !.timer = b]
  <1>1. r \in Connection
    BY DEF Connection
  <1>2. [s EXCEPT ![i].stage = a, ![i].timer = b] = [s EXCEPT ![i] = r]
    OBVIOUS
  <1> QED BY <1>1, <1>2

LEMMA StageAndLive ==
  ASSUME NEW s \in [Sessions -> Connection], NEW i \in Sessions,
         NEW a \in Stages, NEW b \in BOOLEAN
  PROVE  [s EXCEPT ![i].stage = a, ![i].live = b] \in [Sessions -> Connection]
  <1> DEFINE r == [s[i] EXCEPT !.stage = a, !.live = b]
  <1>1. r \in Connection
    BY DEF Connection
  <1>2. [s EXCEPT ![i].stage = a, ![i].live = b] = [s EXCEPT ![i] = r]
    OBVIOUS
  <1> QED BY <1>1, <1>2

LEMMA TimerAndCancel ==
  ASSUME NEW s \in [Sessions -> Connection], NEW i \in Sessions,
         NEW a \in {"off", "armed", "expired"}, NEW b \in BOOLEAN
  PROVE  [s EXCEPT ![i].timer = a, ![i].cancelled = b] \in [Sessions -> Connection]
  <1> DEFINE r == [s[i] EXCEPT !.timer = a, !.cancelled = b]
  <1>1. r \in Connection
    BY DEF Connection
  <1>2. [s EXCEPT ![i].timer = a, ![i].cancelled = b] = [s EXCEPT ![i] = r]
    OBVIOUS
  <1> QED BY <1>1, <1>2

LEMMA WireAndPosted ==
  ASSUME NEW s \in [Sessions -> Connection], NEW i \in Sessions,
         NEW a \in Seq(Messages), NEW b \in Seq(Messages)
  PROVE  [s EXCEPT ![i].wire = a, ![i].posted = b] \in [Sessions -> Connection]
  <1> DEFINE r == [s[i] EXCEPT !.wire = a, !.posted = b]
  <1>1. r \in Connection
    BY DEF Connection
  <1>2. [s EXCEPT ![i].wire = a, ![i].posted = b] = [s EXCEPT ![i] = r]
    OBVIOUS
  <1> QED BY <1>1, <1>2

LEMMA LiveAndPosted ==
  ASSUME NEW s \in [Sessions -> Connection], NEW i \in Sessions,
         NEW a \in BOOLEAN, NEW b \in Seq(Messages)
  PROVE  [s EXCEPT ![i].live = a, ![i].posted = b] \in [Sessions -> Connection]
  <1> DEFINE r == [s[i] EXCEPT !.live = a, !.posted = b]
  <1>1. r \in Connection
    BY DEF Connection
  <1>2. [s EXCEPT ![i].live = a, ![i].posted = b] = [s EXCEPT ![i] = r]
    OBVIOUS
  <1> QED BY <1>1, <1>2

LEMMA ShutType ==
  ASSUME NEW s \in [Sessions -> Connection], NEW i \in Sessions
  PROVE  Shut(s, i) \in [Sessions -> Connection]
  <1> DEFINE r == [s[i] EXCEPT !.stage = "Closed", !.wire = <<>>, !.out = <<>>]
  <1>1. r \in Connection
    <2>1. "Closed" \in Stages /\ <<>> \in Seq(Messages) /\ <<>> \in Seq(Calls)
      BY DEF Stages
    <2>2. ASSUME NEW a \in Stages, NEW b \in Seq(Messages), NEW c \in Seq(Calls)
          PROVE  [s[i] EXCEPT !.stage = a, !.wire = b, !.out = c] \in Connection
      BY <2>2 DEF Connection
    <2> QED BY <2>1, <2>2
  <1>2. Shut(s, i) = [s EXCEPT ![i] = r]
    BY DEF Shut
  <1> QED BY <1>1, <1>2

LEMMA PoppedType ==
  ASSUME TypedSession, NEW i \in Sessions, session[i].posted # <<>>
  PROVE  /\ Popped(i) \in [Sessions -> Connection]
         /\ Head(session[i].posted) \in Messages
  <1>1. session[i].posted \in Seq(Messages)
    BY DEF TypedSession, Connection
  <1>2. Tail(session[i].posted) \in Seq(Messages)
    BY <1>1, TailType
  <1>3. Popped(i) \in [Sessions -> Connection]
    <2>1. session \in [Sessions -> Connection]
      BY DEF TypedSession
    <2>2. [session EXCEPT ![i].posted = Tail(session[i].posted)]
             \in [Sessions -> Connection]
      BY <1>2, <2>1, OneField
    <2> QED BY <2>2 DEF Popped
  <1> QED BY <1>1, <1>3, TailType

LEMMA CloseSessionType ==
  ASSUME TypedStrand, TypedSession, TypedServer, NEW i \in Sessions,
         NEW s \in [Sessions -> Connection], close_session(i, s)
  PROVE  /\ strand' \in Seq(Calls)
         /\ TypedSession'
         /\ server' \in Account
  <1>1. CASE session[i].live
    <2>1. strand' \in Seq(Calls) /\ server' \in Account
      BY <1>1, DisconnectedType, HangupType DEF close_session
    <2>2. session' = [Shut(s, i) EXCEPT ![i].live = FALSE]
      BY <1>1 DEF close_session
    <2>3. Shut(s, i) \in [Sessions -> Connection]
      BY ShutType
    <2> QED BY <2>1, <2>2, <2>3, OneField DEF TypedSession
  <1>2. CASE ~session[i].live
    BY <1>2 DEF close_session, TypedStrand, TypedSession, TypedServer
  <1> QED BY <1>1, <1>2

LEMMA ConnectingType ==
  ASSUME Typed, NEW i \in Sessions,
         \/ on_resolve(i) \/ TimerExpires(i) \/ on_connect_timeout(i)
         \/ on_connect(i) \/ Verified(i) \/ BadTLS(i)
  PROVE  Typed'
  <1> DEFINE Goal == Typed'
  <1>0. ASSUME TypedSession', Quiet PROVE Goal
    BY <1>0 DEF Quiet, Typed, TypedState, TypedData, TypedGui, TypedStrand,
       TypedServer, core, gui
  <1> HIDE DEF Goal
  <1>1. session \in [Sessions -> Connection]
    BY DEF Typed, TypedSession
  <1>2. ASSUME on_resolve(i) \/ TimerExpires(i) PROVE Goal
    <2>1. TypedSession'
      <3>1. /\ [session EXCEPT ![i].stage = "Connecting", ![i].timer = "armed"]
                 \in [Sessions -> Connection]
            /\ [session EXCEPT ![i].stage = "Failed"] \in [Sessions -> Connection]
            /\ [session EXCEPT ![i].timer = "expired"]
                 \in [Sessions -> Connection]
        BY <1>1, OneField, StageAndTimer DEF Stages
      <3> QED BY <1>2, <3>1 DEF on_resolve, TimerExpires, TypedSession
    <2> QED BY <1>0, <1>2, <2>1 DEF on_resolve, TimerExpires
  <1>3. ASSUME on_connect_timeout(i) PROVE Goal
    <2> DEFINE C == session[i].cancelled \/ session[i].stage \in
                      {"Connecting", "Handshake", "Up"}
    <2>1. session' = [session EXCEPT ![i].timer = "off", ![i].cancelled = C]
      BY <1>3 DEF on_connect_timeout
    <2>2. C \in BOOLEAN
      OBVIOUS
    <2> HIDE DEF C
    <2>3. TypedSession'
      BY <1>1, <2>1, <2>2, TimerAndCancel DEF TypedSession
    <2> QED BY <1>0, <1>3, <2>3 DEF on_connect_timeout
  <1>4. ASSUME on_connect(i) PROVE Goal
    <2>1. TimerOff(session[i].timer) \in {"off", "armed", "expired"}
      BY <1>1 DEF TimerOff, Connection
    <2>2. TypedSession'
      <3> DEFINE T == TimerOff(session[i].timer)
      <3>1. \A g \in {"Handshake", "Failed"} :
              [session EXCEPT ![i].stage = g, ![i].timer = T]
                \in [Sessions -> Connection]
        BY <1>1, <2>1, StageAndTimer DEF Stages
      <3> QED BY <1>4, <3>1 DEF on_connect, TypedSession
    <2> QED BY <1>0, <1>4, <2>2 DEF on_connect
  <1>5. ASSUME Verified(i) PROVE Goal
    <2>1. TypedSession'
      BY <1>1, <1>5, StageAndLive DEF Verified, TypedSession, Stages
    <2>2. "LoginScreen" \in States /\ ghost \in Races /\ TypedState
      BY DEF States, Screens, Typed, TypedState
    <2>3. TypedState'
      BY <1>5, <2>2, ChangeStateType, SessionThreads DEF Verified
    <2> QED BY <1>5, <2>1, <2>3 DEF Goal, Verified, Typed, TypedData,
               TypedGui, TypedStrand, TypedServer, gui
  <1>6. ASSUME BadTLS(i) PROVE Goal
    <2>1. TypedSession'
      BY <1>1, <1>6, OneField DEF BadTLS, TypedSession, Stages
    <2>2. strand' \in Seq(Calls)
      BY <1>6, DisconnectedType DEF BadTLS, Typed
    <2> QED BY <1>6, <2>1, <2>2 DEF Goal, BadTLS, Typed, TypedState,
               TypedData, TypedGui, TypedStrand, TypedServer, core, gui
  <1>7. Goal
    BY <1>2, <1>3, <1>4, <1>5, <1>6
  <1> QED BY <1>7 DEF Goal

LEMMA ReadingType ==
  ASSUME Typed, NEW i \in Sessions,
         Read(i) \/ handle_read_error(i) \/ force_close_session(i)
  PROVE  Typed'
  <1>1. session \in [Sessions -> Connection] /\ TypedStrand /\ TypedSession
        /\ TypedServer
    BY DEF Typed, TypedSession
  <1>2. CASE Read(i)
    <2>1. /\ session[i].wire \in Seq(Messages) /\ session[i].wire # <<>>
          /\ session[i].posted \in Seq(Messages)
      BY <1>1, <1>2 DEF Connection, Read
    <2>2. /\ Tail(session[i].wire) \in Seq(Messages)
          /\ Append(session[i].posted, Head(session[i].wire)) \in Seq(Messages)
      BY <2>1, TailType, AppendType
    <2>3. TypedSession'
      BY <1>1, <1>2, <2>2, WireAndPosted DEF Read, TypedSession
    <2> QED BY <1>2, <2>3 DEF Read, Quiet, Typed, TypedState, TypedData,
               TypedGui, TypedStrand, TypedServer, core, gui
  <1>3. CASE handle_read_error(i)
    <2>1. TypedSession' /\ server' \in Account /\ strand' \in Seq(Calls)
      BY <1>1, <1>3, CloseSessionType DEF handle_read_error
    <2> QED BY <1>3, <2>1 DEF handle_read_error, Typed, TypedState,
               TypedData, TypedGui, TypedStrand, TypedServer, core, gui
  <1>4. CASE force_close_session(i)
    <2>1. Shut(session, i) \in [Sessions -> Connection]
      BY <1>1, ShutType
    <2>2. Shut(session, i)[i].posted = session[i].posted
      BY <1>1 DEF Shut, Connection
    <2>3. Tail(session[i].posted) \in Seq(Messages)
      BY <1>1, <1>4, TailType DEF force_close_session, Connection
    <2>4. TypedSession'
      BY <1>4, <2>1, <2>2, <2>3, OneField DEF force_close_session, TypedSession
    <2>5. server' \in Account /\ strand' \in Seq(Calls)
      BY <1>1, <1>4, DisconnectedType, HangupType DEF force_close_session
    <2> QED BY <1>4, <2>4, <2>5 DEF force_close_session, Typed, TypedState,
               TypedData, TypedGui, TypedStrand, TypedServer, core, gui
  <1> QED BY <1>2, <1>3, <1>4

\* The handlers of on_message.
LEMMA ListedType ==
  ASSUME TypedData, NEW m \in Messages,
         m.type \in {"List", "FriendAdded", "FriendRemoved", "FriendRequest",
                     "Blocked", "Unblocked"}
  PROVE  Listed(m) \in [ListTypes -> SUBSET Others]
  <1>1. lists \in [ListTypes -> SUBSET Others]
    BY DEF TypedData
  <1>2. CASE m.type = "List"
    <2>1. m.list \in ListTypes /\ m.users \in SUBSET Others
      BY <1>2, MessageFields
    <2>2. Listed(m) = [lists EXCEPT ![m.list] = @ \cup m.users]
      BY <1>2 DEF Listed, load_user_list
    <2> QED BY <1>1, <2>1, <2>2
  <1>3. CASE m.type # "List"
    <2>1. m.user \in Others
      BY <1>3, MessageFields
    <2>2. CASE m.type = "Blocked"
      BY <1>1, <2>1, <2>2 DEF Listed, NotifyBlocked
    <2>3. CASE m.type = "FriendAdded"
      BY <1>1, <2>1, <2>3 DEF Listed
    <2>4. CASE m.type = "FriendRemoved"
      BY <1>1, <2>1, <2>4 DEF Listed
    <2>5. CASE m.type = "FriendRequest"
      BY <1>1, <2>1, <2>5 DEF Listed
    <2>6. CASE m.type = "Unblocked"
      BY <1>1, <2>1, <2>6 DEF Listed
    <2> QED BY <1>3, <2>2, <2>3, <2>4, <2>5, <2>6
  <1> QED BY <1>2, <1>3

LEMMA TardyType ==
  ASSUME TypedState, NEW i, Tardy(i)
  PROVE  ghost' \in Races
  BY DEF Tardy, TypedState, Races

LEMMA LobbyFetches ==
  /\ Fetch("Friends") \in Calls /\ Fetch("FriendRequests") \in Calls
  /\ Fetch("Blocks") \in Calls
  BY DEF Fetch, Calls, ListTypes

LEMMA MessageType ==
  ASSUME Typed, NEW i \in Sessions, on_message(i)
  PROVE  Typed'
  <1> DEFINE m == Head(session[i].posted)
             Goal == Typed'
  <1>1. /\ TypedState /\ TypedData /\ TypedGui /\ TypedStrand
        /\ TypedSession /\ TypedServer
    BY DEF Typed
  <1>2. Popped(i) \in [Sessions -> Connection] /\ m \in Messages
    BY <1>1, PoppedType DEF on_message
  <1>3. UNCHANGED <<current, screens, shown, queued_mode, exit, spent>>
    BY DEF on_message
  <1> HIDE DEF m
  <1>4. ASSUME TypedState', TypedData', updates' \in Seq(ModeSet),
               strand' \in Seq(Calls), TypedSession', server' \in Account
        PROVE  Goal
    BY <1>1, <1>3, <1>4 DEF Typed, TypedGui, TypedStrand, TypedServer
  <1>5. /\ UNCHANGED <<hung, playing, lists>> => TypedData'
        /\ UNCHANGED updates => updates' \in Seq(ModeSet)
        /\ UNCHANGED strand => strand' \in Seq(Calls)
        /\ UNCHANGED server => server' \in Account
        /\ session' = Popped(i) => TypedSession'
        /\ KeepState => TypedState'
    BY <1>1, <1>2 DEF TypedState, TypedData, TypedGui, TypedStrand,
       TypedSession, TypedServer, KeepState
  <1>6. \A s \in States : change_state(i, s, ghost) => TypedState'
    BY <1>1, ChangeStateType, SessionThreads DEF TypedState
  <1>7. "Lobby" \in States /\ "Playing" \in States
    BY DEF States, Screens
  <1>8. updates' = Append(updates, NO_MODE) => updates' \in Seq(ModeSet)
    BY <1>1, AppendType DEF TypedGui, ModeSet
  <1> HIDE DEF Goal
  <1>9. ASSUME GoodAuth(i) PROVE Goal
    <2>1. TypedState'
      <3>1. CASE state = "Playing"
        BY <1>1, <1>9, <3>1, TardyType DEF GoodAuth, TypedState
      <3>2. CASE state # "Playing"
        BY <1>6, <1>7, <1>9, <3>2 DEF GoodAuth
      <3> QED BY <3>1, <3>2
    <2>2. strand' \in Seq(Calls)
      <3> DEFINE f == <<Fetch("Friends"), Fetch("FriendRequests"),
                        Fetch("Blocks")>>
      <3>1. f \in Seq(Calls)
        BY LobbyFetches
      <3> HIDE DEF f
      <3>2. strand \o f \in Seq(Calls)
        BY <1>1, <3>1, ConcatType DEF TypedStrand
      <3> QED BY <1>9, <3>2 DEF GoodAuth, f
    <2> QED BY <1>4, <1>5, <1>9, <2>1, <2>2 DEF GoodAuth
  <1>10. ASSUME MatchStarting(i) \/ MatchInProgress(i) PROVE Goal
    <2>1. TypedState'
      BY <1>6, <1>7, <1>10 DEF MatchStarting, MatchInProgress
    <2>2. TypedData'
      BY <1>1, <1>10 DEF MatchStarting, MatchInProgress, TypedData
    <2> QED BY <1>4, <1>5, <1>8, <1>10, <2>1, <2>2 DEF MatchStarting,
               MatchInProgress
  <1>11. ASSUME PlayerView(i) \/ GameEnded(i) PROVE Goal
    <2>1. TypedData'
      BY <1>1, <1>11 DEF PlayerView, GameEnded, TypedData
    <2> QED BY <1>4, <1>5, <1>11, <2>1 DEF PlayerView, GameEnded
  <1>12. ASSUME MatchOver(i, m) PROVE Goal
    <2>1. TypedState'
      BY <1>6, <1>7, <1>12 DEF MatchOver
    <2>2. TypedData'
      BY <1>1, <1>12 DEF MatchOver, TypedData
    <2> QED BY <1>4, <1>5, <1>12, <2>1, <2>2 DEF MatchOver
  <1>13. ASSUME QueueFailed(i) \/ Notice(i) \/ Refusal(i) PROVE Goal
    <2>1. TypedState'
      BY <1>1, <1>5, <1>13, TardyType DEF QueueFailed, Notice, Refusal,
         TypedState
    <2> QED BY <1>4, <1>5, <1>8, <1>13, <2>1 DEF QueueFailed, Notice, Refusal
  <1>14. ASSUME UsersUpdated(i, m),
                m.type \in {"List", "FriendAdded", "FriendRemoved",
                            "FriendRequest", "Blocked", "Unblocked"}
         PROVE  Goal
    <2>1. TypedData'
      BY <1>1, <1>2, <1>14, ListedType DEF UsersUpdated, TypedData
    <2>2. TypedState'
      BY <1>1, <1>14, TardyType DEF UsersUpdated, TypedState
    <2> QED BY <1>4, <1>5, <1>14, <2>1, <2>2 DEF UsersUpdated
  <1>15. ASSUME Malformed(i) PROVE Goal
    <2>1. strand' \in Seq(Calls) /\ TypedSession' /\ server' \in Account
      BY <1>1, <1>2, <1>15, CloseSessionType DEF Malformed
    <2> QED BY <1>4, <1>5, <1>15, <2>1 DEF Malformed
  <1>16. Goal
    BY <1>9, <1>10, <1>11, <1>12, <1>13, <1>14, <1>15 DEF on_message, m
  <1> QED BY <1>16 DEF Goal

\* The client's strand.
LEMMA SendType ==
  ASSUME TypedSession, NEW c \in Calls, Send(c)
  PROVE  TypedSession'
  <1>1. session \in [Sessions -> Connection]
    BY DEF TypedSession
  <1>2. ASSUME current \in Sessions PROVE deliver(session[current], c) \in Connection
    <2> DEFINE s == session[current]
    <2>1. s \in Connection /\ s.out \in Seq(Calls)
      BY <1>1, <1>2 DEF Connection
    <2>2. Append(s.out, c) \in Seq(Calls)
      BY <2>1, AppendType
    <2> HIDE DEF s
    <2>3. /\ [s EXCEPT !.out = Append(s.out, c)] \in Connection
          /\ [s EXCEPT !.jammed = TRUE] \in Connection
      BY <2>1, <2>2 DEF Connection
    <2> QED BY <2>3 DEF deliver, s
  <1>3. session' = [session EXCEPT ![current] = deliver(session[current], c)]
    BY DEF Send
  <1> QED BY <1>1, <1>2, <1>3 DEF TypedSession

LEMMA StrandType ==
  ASSUME Typed, RunStrand
  PROVE  Typed'
  <1> DEFINE c == Head(strand)
             Goal == Typed'
  <1>1. /\ TypedState /\ TypedData /\ TypedGui /\ TypedStrand
        /\ TypedSession /\ TypedServer
    BY DEF Typed
  <1>2. c \in Calls /\ Tail(strand) \in Seq(Calls)
    BY <1>1, TailType DEF TypedStrand, RunStrand
  <1>3. UNCHANGED <<screens, shown, queued_mode, server, spent>>
    BY DEF RunStrand
  <1> HIDE DEF c
  <1>4. ASSUME TypedState', TypedData', TypedStrand', TypedSession',
               updates' \in Seq(ModeSet)
        PROVE  Goal
    BY <1>1, <1>3, <1>4 DEF Typed, TypedGui, TypedServer
  <1>5. /\ UNCHANGED <<hung, playing, lists>> => TypedData'
        /\ UNCHANGED updates => updates' \in Seq(ModeSet)
        /\ UNCHANGED session => TypedSession'
        /\ KeepState => TypedState'
        /\ UNCHANGED core => TypedData'
    BY <1>1 DEF TypedState, TypedData, TypedGui, TypedSession, KeepState, core
  <1>6. UNCHANGED <<current, exit>> /\ strand' = Tail(strand) => TypedStrand'
    BY <1>1, <1>2 DEF TypedStrand
  <1>7. Send(c) => TypedSession'
    BY <1>1, <1>2, SendType
  <1>8. ASSUME NEW s \in States, NEW h \in Races, change_state(ClientStrand, s, h)
        PROVE  TypedState'
    BY <1>1, <1>8, ChangeStateType DEF Threads
  <1>9. UNCHANGED <<state, telling>> /\ ghost' \in Races => TypedState'
    BY <1>1 DEF TypedState
  <1> HIDE DEF Goal
  <1>10. ASSUME JustSend(c) \/ Checked(c) PROVE Goal
    BY <1>4, <1>5, <1>6, <1>7, <1>10 DEF JustSend, Checked
  <1>11. ASSUME OnConnect PROVE Goal
    <2>1. ghost' \in Races
      <3>1. [ghost EXCEPT !.doubled = @ \/ ~Idle] \in Races
        BY <1>1 DEF TypedState, Races
      <3> QED BY <1>1, <1>11, <3>1 DEF OnConnect, TypedState
    <2>2. TypedSession'
      <3>1. CASE exit.asked \/ current + 1 \notin Sessions
        BY <1>5, <1>11, <3>1 DEF OnConnect
      <3>2. CASE ~(exit.asked \/ current + 1 \notin Sessions)
        <4>1. session' = [session EXCEPT ![current + 1].stage = "Resolving"]
          BY <1>11, <3>2 DEF OnConnect
        <4> QED BY <1>1, <3>2, <4>1, OneField DEF TypedSession, Stages
      <3> QED BY <3>1, <3>2
    <2>3. TypedStrand'
      BY <1>1, <1>2, <1>11 DEF OnConnect, TypedStrand, Sessions
    <2>4. TypedState' /\ TypedData'
      BY <1>5, <1>9, <1>11, <2>1 DEF OnConnect, core
    <2> QED BY <1>4, <1>5, <1>11, <2>2, <2>3, <2>4 DEF OnConnect
  <1>12. ASSUME OnRespond(c) PROVE Goal
    <2>1. TypedData'
      BY <1>1, <1>12 DEF OnRespond, TypedData
    <2>2. ghost' \in Races
      BY <1>1, <1>12 DEF OnRespond, TypedState, Races
    <2> QED BY <1>4, <1>5, <1>6, <1>7, <1>9, <1>12, <2>1, <2>2 DEF OnRespond
  <1>13. ASSUME OnQueue(c), c.call \in {"Queue", "Cancel"} PROVE Goal
    <2>1. ghost' \in Races
      BY <1>1, <1>13 DEF OnQueue, TypedState, Races
    <2>2. (IF c.call = "Queue" THEN c.mode ELSE NO_MODE) \in ModeSet
      BY <1>2, <1>13, CallFields DEF ModeSet
    <2>3. updates' \in Seq(ModeSet)
      BY <1>1, <1>13, <2>2, AppendType DEF OnQueue, TypedGui
    <2> QED BY <1>4, <1>5, <1>6, <1>7, <1>9, <1>13, <2>1, <2>3 DEF OnQueue
  <1>14. ASSUME OnText(c) PROVE Goal
    <2>1. [call |-> "Send"] \in Calls
      BY DEF Calls
    <2>2. Append(Tail(strand), [call |-> "Send"]) \in Seq(Calls)
      BY <1>2, <2>1, AppendType
    <2>3. TypedStrand'
      BY <1>1, <1>2, <1>14, <2>2 DEF OnText, TypedStrand
    <2> QED BY <1>4, <1>5, <1>14, <2>3 DEF OnText
  <1>15. ASSUME OnShutdown PROVE Goal
    <2>1. ghost' \in Races
      BY <1>1, <1>15 DEF OnShutdown, TypedState, Races
    <2>2. TypedStrand'
      BY <1>1, <1>2, <1>15 DEF OnShutdown, TypedStrand
    <2>3. TypedSession'
      <3>1. ASSUME current # 0, session[current].live PROVE TypedSession'
        <4> DEFINE q == Append(session[current].posted, [type |-> "Close"])
        <4>1. current \in Sessions
          BY <1>1, <3>1 DEF TypedStrand, Sessions
        <4>2. [type |-> "Close"] \in Messages
          BY DEF Messages
        <4>3. q \in Seq(Messages)
          BY <1>1, <4>1, <4>2, AppendType DEF TypedSession, Connection
        <4>4. session' = [session EXCEPT ![current].live = FALSE,
                                         ![current].posted = q]
          BY <1>15, <3>1 DEF OnShutdown
        <4> HIDE DEF q
        <4> QED BY <1>1, <4>1, <4>3, <4>4, LiveAndPosted DEF TypedSession
      <3> QED BY <1>5, <1>15, <3>1 DEF OnShutdown
    <2> QED BY <1>4, <1>5, <1>9, <1>15, <2>1, <2>2, <2>3 DEF OnShutdown, core
  <1>16. ASSUME OnDisconnect(c), c.call = "Disconnect" PROVE Goal
    <2>1. c.by \in Sessions
      BY <1>2, <1>16, CallFields
    <2>2. TypedSession'
      BY <1>1, <1>16, <2>1, OneField DEF OnDisconnect, TypedSession
    <2>3. Dropped \in Races
      BY <1>1 DEF Dropped, TypedState, Races
    <2>4. TypedState' /\ TypedData'
      <3>1. CASE exit.asked
        BY <1>5, <1>16, <3>1 DEF OnDisconnect
      <3>2. CASE ~exit.asked
        BY <1>1, <1>8, <1>16, <2>3, <3>2 DEF OnDisconnect, TypedData, States
      <3> QED BY <3>1, <3>2
    <2>5. strand' \in Seq(Calls)
      <3>1. <<[call |-> "Disconnected"]>> \in Seq(Calls)
        BY DEF Calls
      <3>2. <<[call |-> "Disconnected"]>> \o Tail(strand) \in Seq(Calls)
        BY <1>2, <3>1, ConcatType
      <3> QED BY <1>2, <1>16, <3>2 DEF OnDisconnect
    <2>6. TypedStrand'
      BY <1>1, <1>16, <2>5 DEF OnDisconnect, TypedStrand
    <2> QED BY <1>4, <1>5, <1>16, <2>2, <2>4, <2>6 DEF OnDisconnect
  <1>17. ASSUME OnDisconnected PROVE Goal
    <2>1. TypedState'
      BY <1>1, <1>8, <1>17 DEF OnDisconnected, TypedState, States, Screens
    <2>2. TypedData'
      BY <1>1, <1>17 DEF OnDisconnected, TypedData
    <2> QED BY <1>4, <1>5, <1>6, <1>17, <2>1, <2>2 DEF OnDisconnected
  <1>18. Goal
    BY <1>10, <1>11, <1>12, <1>13, <1>14, <1>15, <1>16, <1>17
       DEF RunStrand, c
  <1> QED BY <1>18 DEF Goal

\* The threads that pass on what change_state and the queue button say.
LEMMA GuiType ==
  ASSUME Typed,
         ShowScreen \/ UpdateButton \/ ShowPopup \/ \E t \in Threads : Tell(t)
  PROVE  Typed'
  <1> USE DEF Typed, TypedState, TypedData, TypedStrand, TypedSession,
              TypedServer, core, gui
  <1>1. CASE ShowScreen
    <2>1. screens' \in Seq(States) /\ shown' \in Screens
      BY <1>1, TailType DEF ShowScreen, TypedGui
    <2> QED BY <1>1, <2>1 DEF ShowScreen, TypedGui
  <1>2. CASE UpdateButton
    <2>1. updates' \in Seq(ModeSet) /\ queued_mode' \in ModeSet
      BY <1>2, TailType DEF UpdateButton, TypedGui
    <2> QED BY <1>2, <2>1 DEF UpdateButton, TypedGui
  <1>3. CASE ShowPopup
    BY <1>3 DEF ShowPopup, TypedGui
  <1>4. ASSUME NEW t \in Threads, Tell(t) PROVE Typed'
    <2>1. telling[t] \in States
      BY <1>4 DEF Tell
    <2>2. screens' \in Seq(States)
      BY <1>4, <2>1, AppendType DEF Tell, TypedGui
    <2>3. telling' \in [Threads -> States \cup {"none"}]
      BY <1>4 DEF Tell
    <2> QED BY <1>4, <2>2, <2>3 DEF Tell, TypedGui
  <1> QED BY <1>1, <1>2, <1>3, <1>4

\* What the server does.
LEMMA WireType ==
  ASSUME TypedSession, NEW i \in Sessions, NEW ms \in Seq(Messages), Wire(i, ms)
  PROVE  TypedSession'
  <1>1. session[i].wire \o ms \in Seq(Messages)
    BY ConcatType DEF TypedSession, Connection
  <1> QED BY <1>1, OneField DEF Wire, TypedSession

LEMMA RepliedType ==
  ASSUME TypedSession, NEW i \in Sessions, session[i].out # <<>>,
         NEW ms \in Seq(Messages), Replied(i, ms)
  PROVE  TypedSession'
  <1> DEFINE s == session[i]
             r == [s EXCEPT !.out = Tail(s.out), !.wire = s.wire \o ms]
  <1>1. s \in Connection
    BY DEF TypedSession
  <1>2. Tail(s.out) \in Seq(Calls) /\ s.wire \o ms \in Seq(Messages)
    BY <1>1, TailType, ConcatType DEF Connection
  <1>3. r \in Connection
    <2>1. ASSUME NEW a \in Seq(Calls), NEW b \in Seq(Messages)
          PROVE  [s EXCEPT !.out = a, !.wire = b] \in Connection
      BY <1>1, <2>1 DEF Connection
    <2> QED BY <1>2, <2>1
  <1>4. session' = [session EXCEPT ![i] = r]
    BY DEF Replied, TypedSession
  <1> HIDE DEF r
  <1> QED BY <1>3, <1>4 DEF TypedSession

LEMMA RelatedType ==
  ASSUME TypedServer, NEW u \in Others, NEW t \in Relations, Related(u, t)
  PROVE  server' \in Account
  <1>1. [server.rel EXCEPT ![u] = t] \in [Others -> Relations]
    BY DEF TypedServer, Account
  <1> QED BY <1>1 DEF Related, TypedServer, Account

\* The messages about one user.
LEMMA NewsMessages ==
  ASSUME NEW u \in Others
  PROVE  \A t \in {"FriendAdded", "FriendRemoved", "FriendRequest", "Blocked",
                   "Unblocked"} : <<[type |-> t, user |-> u]>> \in Seq(Messages)
  BY DEF Messages

LEMMA PlainMessages ==
  \A t \in {"GoodAuth", "MatchStarting", "MatchInProgress", "PlayerView",
            "ForfeitMatch", "MatchOver", "GameEnded", "QueueFailed", "Notice",
            "Refusal", "Malformed"} : [type |-> t] \in Messages
  BY DEF Messages

LEMMA AnswerLoginType ==
  ASSUME TypedSession, TypedServer, NEW i \in Sessions, session[i].out # <<>>,
         AnswerLogin(i)
  PROVE  TypedSession' /\ server' \in Account
  <1>0. session \in [Sessions -> Connection] /\ server \in Account
    BY DEF TypedSession, TypedServer
  <1>1. CASE Replied(i, <<[type |-> "Refusal"]>>) /\ UNCHANGED server
    <2>1. <<[type |-> "Refusal"]>> \in Seq(Messages)
      BY PlainMessages
    <2> QED BY <1>0, <1>1, <2>1, RepliedType
  <1>2. CASE ~(Replied(i, <<[type |-> "Refusal"]>>) /\ UNCHANGED server)
    <2> DEFINE W(ms) == session[i].wire \o [k \in DOMAIN ms |-> [type |-> ms[k]]]
               S(ms) == [j \in Sessions |->
                 IF j = i
                 THEN [session[i] EXCEPT !.out = Tail(session[i].out),
                                         !.wire = W(ms)]
                 ELSE [session[j] EXCEPT !.peer = session[j].peer
                                                  /\ j \notin server.auth]]
    <2> DEFINE L == IF server.match THEN {<<"GoodAuth", "MatchInProgress">>,
                                          <<"MatchInProgress", "GoodAuth">>}
                                    ELSE {<<"GoodAuth">>}
    <2>0. \E ms \in L : session' = S(ms)
      BY <1>2, Zenon DEF AnswerLogin
    <2>1. PICK ms \in {<<"GoodAuth", "MatchInProgress">>,
                       <<"MatchInProgress", "GoodAuth">>, <<"GoodAuth">>} :
            session' = S(ms)
      <3> HIDE DEF S
      <3> QED BY <2>0
    <2>2. W(ms) \in Seq(Messages)
      <3>1. /\ <<"GoodAuth", "MatchInProgress">> \in Seq({"GoodAuth", "MatchInProgress"})
            /\ <<"MatchInProgress", "GoodAuth">> \in Seq({"GoodAuth", "MatchInProgress"})
            /\ <<"GoodAuth">> \in Seq({"GoodAuth", "MatchInProgress"})
        OBVIOUS
      <3>a. ms \in Seq({"GoodAuth", "MatchInProgress"})
        BY <3>1, Zenon
      <3>b. /\ Len(ms) \in Nat /\ DOMAIN ms = 1 .. Len(ms)
            /\ \A k \in 1 .. Len(ms) : ms[k] \in {"GoodAuth", "MatchInProgress"}
        BY <3>a
      <3>c. \A k \in 1 .. Len(ms) : [type |-> ms[k]] \in Messages
        BY <3>b, PlainMessages
      <3>2. [k \in DOMAIN ms |-> [type |-> ms[k]]] \in Seq(Messages)
        <4> DEFINE e(k) == [type |-> ms[k]]
        <4>1. \A k \in 1 .. Len(ms) : e(k) \in Messages
          BY <3>c
        <4> HIDE DEF e
        <4>2. [k \in 1 .. Len(ms) |-> e(k)] \in Seq(Messages)
          BY <3>b, <4>1
        <4> QED BY <3>b, <4>2 DEF e
      <3>3. session[i].wire \in Seq(Messages)
        BY <1>0 DEF Connection
      <3> QED BY <3>2, <3>3, ConcatType
    <2> HIDE DEF W
    <2>3. [session[i] EXCEPT !.out = Tail(session[i].out), !.wire = W(ms)]
            \in Connection
      <3>1. session[i] \in Connection
        BY <1>0
      <3>2. Tail(session[i].out) \in Seq(Calls)
        BY <3>1, TailType DEF Connection
      <3>3. ASSUME NEW a \in Seq(Calls), NEW b \in Seq(Messages)
            PROVE  [session[i] EXCEPT !.out = a, !.wire = b] \in Connection
        BY <3>1, <3>3 DEF Connection
      <3> QED BY <2>2, <3>2, <3>3
    <2>4. ASSUME NEW j \in Sessions
          PROVE  [session[j] EXCEPT !.peer = session[j].peer
                                             /\ j \notin server.auth]
                   \in Connection
      BY <1>0 DEF Connection
    <2>5. TypedSession'
      BY <2>1, <2>3, <2>4 DEF TypedSession
    <2>6. server' \in Account
      <3> DEFINE M == IF server.auth = {} THEN server.mode ELSE NO_MODE
      <3>1. server' = [server EXCEPT !.auth = {i}, !.mode = M]
        BY <1>2 DEF AnswerLogin
      <3>2. M \in ModeSet /\ {i} \in SUBSET Sessions
        BY <1>0 DEF Account, ModeSet
      <3> HIDE DEF M
      <3> QED BY <1>0, <3>1, <3>2 DEF Account
    <2> QED BY <2>5, <2>6
  <1> QED BY <1>1, <1>2

LEMMA AnswerUserType ==
  ASSUME TypedSession, TypedServer, NEW i \in Sessions, session[i].out # <<>>,
         NEW c \in Calls,
         c.call \in {"Respond", "Unfriend", "Block", "Unblock"},
         AnswerUser(i, c)
  PROVE  TypedSession' /\ server' \in Account
  <1>1. c.user \in Others /\ server \in Account
    BY CallFields DEF TypedServer
  <1>2. Replied(i, <<>>) => TypedSession'
    <2>1. <<>> \in Seq(Messages)
      OBVIOUS
    <2> QED BY <2>1, RepliedType
  <1>3. \A t \in {"FriendAdded", "FriendRemoved", "Blocked", "Unblocked"} :
          Replied(i, <<[type |-> t, user |-> c.user]>>) => TypedSession'
    BY <1>1, NewsMessages, RepliedType
  <1>4. TypedSession'
    BY <1>2, <1>3 DEF AnswerUser
  <1>5. \/ UNCHANGED server
        \/ \E t \in {"Friends", "none", "Blocks"} : Related(c.user, t)
    BY DEF AnswerUser
  <1>6. server' \in Account
    BY <1>1, <1>5, RelatedType DEF Relations, ListTypes
  <1> QED BY <1>4, <1>6

LEMMA AnswerMatchType ==
  ASSUME TypedSession, TypedServer, NEW i \in Sessions, session[i].out # <<>>,
         NEW c \in Calls, AnswerMatch(i, c)
  PROVE  TypedSession' /\ server' \in Account
  <1>1. server \in Account
    BY DEF TypedServer
  <1>2. Replied(i, <<>>) => TypedSession'
    <2>1. <<>> \in Seq(Messages)
      OBVIOUS
    <2> QED BY <2>1, RepliedType
  <1>3. ASSUME NEW t \in {"QueueFailed", "PlayerView", "GameEnded", "ForfeitMatch"},
               Replied(i, <<[type |-> t]>>)
        PROVE  TypedSession'
    <2>1. <<[type |-> t]>> \in Seq(Messages)
      BY PlainMessages
    <2> QED BY <1>3, <2>1, RepliedType
  <1>4. TypedSession'
    BY <1>2, <1>3 DEF AnswerMatch
  <1>5. NO_MODE \in ModeSet /\ (c.call = "Queue" => c.mode \in ModeSet)
    BY CallFields DEF ModeSet
  <1>6. server' \in Account
    BY <1>1, <1>5 DEF AnswerMatch, Account
  <1> QED BY <1>4, <1>6

LEMMA AnswerType ==
  ASSUME Typed, NEW i \in Sessions, Answer(i)
  PROVE  Typed'
  <1> DEFINE c == Head(session[i].out)
             Goal == TypedSession' /\ server' \in Account
  <1>1. TypedSession /\ TypedServer /\ server \in Account
        /\ session[i].out # <<>>
    BY DEF Typed, TypedServer, Answer
  <1>2. c \in Calls
    BY <1>1, TailType DEF TypedSession, Connection
  <1> HIDE DEF c
  <1>3. ASSUME NEW ms \in Seq(Messages), Replied(i, ms), UNCHANGED server
        PROVE  Goal
    BY <1>1, <1>3, RepliedType
  <1>4. ASSUME c.call = "Login", AnswerLogin(i) PROVE Goal
    BY <1>1, <1>4, AnswerLoginType
  <1>5. ASSUME c.call \in {"Respond", "Unfriend", "Block", "Unblock"},
               AnswerUser(i, c)
        PROVE  Goal
    BY <1>1, <1>2, <1>5, AnswerUserType
  <1>6. ASSUME AnswerMatch(i, c) PROVE Goal
    BY <1>1, <1>2, <1>6, AnswerMatchType
  <1>7. <<[type |-> "Notice"]>> \in Seq(Messages) /\ <<>> \in Seq(Messages)
    BY PlainMessages
  <1>8. ASSUME c.call = "Fetch"
        PROVE  <<[type |-> "List", list |-> c.list, users |-> Of(c.list)]>>
                 \in Seq(Messages)
    <2>1. c.list \in ListTypes /\ Of(c.list) \in SUBSET Others
      BY <1>2, <1>8, CallFields DEF Of
    <2> QED BY <2>1 DEF Messages
  <1> HIDE DEF Goal
  <1>9. Goal
    BY <1>3, <1>4, <1>5, <1>6, <1>7, <1>8 DEF Answer, c
  <1> QED BY <1>9 DEF Goal, Answer, Typed, TypedState, TypedData, TypedGui,
             TypedStrand, TypedServer, core, gui

LEMMA NewsType ==
  ASSUME TypedSession, TypedServer, NEW i \in Sessions, News(i)
  PROVE  TypedSession' /\ server' \in Account
  <1>1. server \in Account
    BY DEF TypedServer
  <1>2. ASSUME NEW t \in {"QueueFailed", "PlayerView", "MatchOver"},
               Wire(i, <<[type |-> t]>>)
        PROVE  TypedSession'
    <2>1. <<[type |-> t]>> \in Seq(Messages)
      BY PlainMessages
    <2> QED BY <1>2, <2>1, WireType
  <1>3. ASSUME Wire(i, <<[type |-> "MatchStarting"], [type |-> "PlayerView"]>>)
        PROVE  TypedSession'
    <2>1. <<[type |-> "MatchStarting"], [type |-> "PlayerView"]>> \in Seq(Messages)
      BY PlainMessages
    <2> QED BY <1>3, <2>1, WireType
  <1>4. ASSUME NEW u \in Others,
               \/ server.rel[u] = "none"
                  /\ \/ /\ Related(u, "FriendRequests")
                        /\ Wire(i, <<[type |-> "FriendRequest", user |-> u]>>)
                     \/ /\ Related(u, "Friends")
                        /\ Wire(i, <<[type |-> "FriendAdded", user |-> u]>>)
               \/ /\ server.rel[u] = "Friends"
                  /\ Related(u, "none")
                  /\ Wire(i, <<[type |-> "FriendRemoved", user |-> u]>>)
        PROVE  TypedSession' /\ server' \in Account
    <2>1. server' \in Account
      BY <1>4, RelatedType DEF Relations, ListTypes
    <2>2. TypedSession'
      BY <1>4, NewsMessages, WireType
    <2> QED BY <2>1, <2>2
  <1>5. /\ [server EXCEPT !.mode = NO_MODE, !.match = TRUE] \in Account
        /\ [server EXCEPT !.mode = NO_MODE] \in Account
        /\ [server EXCEPT !.match = FALSE] \in Account
    BY <1>1 DEF Account, ModeSet
  <1> QED BY <1>1, <1>2, <1>3, <1>4, <1>5 DEF News

LEMMA UnaskedType ==
  ASSUME Typed, NEW i \in Sessions, Unasked(i)
  PROVE  Typed'
  <1>1. TypedSession /\ TypedServer /\ server \in Account
    BY DEF Typed, TypedServer
  <1>2. TypedSession' /\ server' \in Account
    <2>1. CASE News(i)
      BY <1>1, <2>1, NewsType
    <2>2. CASE Wire(i, <<[type |-> "Malformed"]>>) /\ UNCHANGED server
      <3>1. <<[type |-> "Malformed"]>> \in Seq(Messages)
        BY PlainMessages
      <3> QED BY <1>1, <2>2, <3>1, WireType
    <2>3. CASE session' = [session EXCEPT ![i].peer = FALSE] /\ UNCHANGED server
      BY <1>1, <2>3, OneField DEF TypedSession
    <2> QED BY <2>1, <2>2, <2>3 DEF Unasked
  <1>3. spent' \in [clicks : Nat, sent : Nat]
    BY DEF Unasked, Typed, TypedServer
  <1> QED BY <1>2, <1>3 DEF Unasked, Typed, TypedState, TypedData, TypedGui,
             TypedStrand, TypedServer, core, gui

LEMMA NextTyped == Typed /\ [Next]_vars => Typed'
  <1> SUFFICES ASSUME Typed, [Next]_vars PROVE Typed'
    OBVIOUS
  <1>1. UNCHANGED vars => Typed'
    BY DEF vars, Typed, TypedState, TypedData, TypedGui, TypedStrand,
       TypedSession, TypedServer, core, gui
  <1> QED BY <1>1, ClicksType, GuiType, StrandType, ConnectingType,
             ReadingType, MessageType, AnswerType, UnaskedType DEF Next

\* The client's state keeps its types: every call on client_strand_ and every
\* message on a session's strand has the fields its handler reads, and the
\* lists, the queue button and the pages hold only what they may.
THEOREM TypeCorrect == Spec => []Typed
  BY InitTyped, NextTyped, PTL DEF Spec

-----------------------------------------------------------------------------
(* Leaving.  Until the callback has been called, something that leads to   *)
(* it is on its way: the shutdown itself, the close of the session it      *)
(* found live, or the report of a session that is closed.                  *)

Items(s) == {s[k] : k \in 1 .. Len(s)}

\* The report of session i's end.
Report(i) == [call |-> "Disconnect", by |-> i]

\* A session that is closed has reported, or its report is on the strand.
ClosedReport ==
  \A i \in Sessions :
    session[i].stage = "Closed" /\ ~session[i].reported
      => Report(i) \in Items(strand)

Leaving ==
  \/ \E c \in Items(strand) : c.call \in {"Shutdown", "Disconnect"}
  \/ \E i \in Sessions : \E m \in Items(session[i].posted) : m.type = "Close"

ExitInv ==
  /\ ClosedReport
  /\ exit.asked /\ ~exit.done /\ ~ghost.unheard => Leaving

LEMMA ItemsAppend ==
  ASSUME NEW S, NEW s \in Seq(S), NEW x
  PROVE  Items(Append(s, x)) = Items(s) \cup {x}
  BY DEF Items

LEMMA ItemsTail ==
  ASSUME NEW S, NEW s \in Seq(S), s # <<>>
  PROVE  Items(s) = {Head(s)} \cup Items(Tail(s))
  <1>1. /\ Len(s) \in Nat /\ Len(s) > 0 /\ Head(s) = s[1]
        /\ Len(Tail(s)) = Len(s) - 1
        /\ \A k \in 1 .. Len(s) - 1 : Tail(s)[k] = s[k + 1]
    OBVIOUS
  <1>2. \A k \in 1 .. Len(s) : k = 1 \/ (k - 1 \in 1 .. Len(s) - 1 /\ (k - 1) + 1 = k)
    BY <1>1
  <1> QED BY <1>1, <1>2 DEF Items

LEMMA ItemsConcat ==
  ASSUME NEW S, NEW s \in Seq(S), NEW t \in Seq(S)
  PROVE  Items(s \o t) = Items(s) \cup Items(t)
  <1>1. /\ Len(s) \in Nat /\ Len(t) \in Nat /\ Len(s \o t) = Len(s) + Len(t)
        /\ \A k \in 1 .. Len(s) + Len(t) :
             (s \o t)[k] = IF k <= Len(s) THEN s[k] ELSE t[k - Len(s)]
    OBVIOUS
  <1>2. \A k \in 1 .. Len(s) + Len(t) :
          k \in 1 .. Len(s) \/ (k - Len(s) \in 1 .. Len(t) /\ k > Len(s))
    BY <1>1
  <1>3. \A k \in 1 .. Len(t) : /\ k + Len(s) \in 1 .. Len(s) + Len(t)
                               /\ (s \o t)[k + Len(s)] = t[k]
    BY <1>1
  <1>4. \A k \in 1 .. Len(s) : /\ k \in 1 .. Len(s) + Len(t)
                               /\ (s \o t)[k] = s[k]
    BY <1>1
  <1> DEFINE r == s \o t
  <1>5. /\ Len(r) = Len(s) + Len(t)
        /\ \A k \in 1 .. Len(s) + Len(t) :
             r[k] = IF k <= Len(s) THEN s[k] ELSE t[k - Len(s)]
        /\ \A k \in 1 .. Len(t) : k + Len(s) \in 1 .. Len(r) /\ r[k + Len(s)] = t[k]
        /\ \A k \in 1 .. Len(s) : k \in 1 .. Len(r) /\ r[k] = s[k]
    BY <1>1, <1>3, <1>4
  <1> HIDE DEF r
  <1>6. Items(s) \subseteq Items(r)
    BY <1>5 DEF Items
  <1>7. Items(t) \subseteq Items(r)
    BY <1>5 DEF Items
  <1>8. Items(r) \subseteq Items(s) \cup Items(t)
    <2> SUFFICES ASSUME NEW k \in 1 .. Len(r)
                 PROVE  r[k] \in Items(s) \cup Items(t)
      BY DEF Items
    <2>1. CASE k \in 1 .. Len(s)
      BY <1>5, <2>1 DEF Items
    <2>2. CASE k \notin 1 .. Len(s)
      <3>1. k - Len(s) \in 1 .. Len(t) /\ k > Len(s)
        BY <1>2, <1>5, <2>2
      <3>2. r[k] = t[k - Len(s)]
        BY <1>1, <1>5, <3>1
      <3> QED BY <3>1, <3>2 DEF Items
    <2> QED BY <2>1, <2>2
  <1> QED BY <1>6, <1>7, <1>8 DEF r

\* A step that takes nothing away that leads to the exit.
SameExit == exit' = exit /\ ghost'.unheard = ghost.unheard

KeepsCalls ==
  \A c \in Items(strand) :
    c.call \in {"Shutdown", "Disconnect"} => c \in Items(strand')

KeepsSession(i) ==
  /\ session'[i].reported = session[i].reported
  /\ session'[i].stage = "Closed"
       => session[i].stage = "Closed" \/ Report(i) \in Items(strand')
  /\ \A m \in Items(session[i].posted) :
       m.type = "Close"
         => m \in Items(session'[i].posted) \/ Report(i) \in Items(strand')

Keeps == SameExit /\ KeepsCalls /\ \A i \in Sessions : KeepsSession(i)

LEMMA KeepsExitInv ==
  ASSUME ExitInv, Keeps
  PROVE  ExitInv'
  <1>1. \A i \in Sessions : Report(i).call = "Disconnect"
    BY DEF Report
  <1>2. ClosedReport'
    BY <1>1 DEF ExitInv, ClosedReport, Keeps, KeepsCalls, KeepsSession
  <1>3. Leaving => Leaving'
    BY <1>1 DEF Leaving, Keeps, KeepsCalls, KeepsSession
  <1> QED BY <1>2, <1>3 DEF ExitInv, Keeps, SameExit

\* Nothing happens to the sessions, or only to what Leaving does not look at.
LEMMA SameStrand == strand' = strand => KeepsCalls
  BY DEF KeepsCalls

LEMMA SameSession ==
  ASSUME NEW i, session'[i].stage \in {session[i].stage} \cup (Stages \ {"Closed"}),
         session'[i].posted = session[i].posted,
         session'[i].reported = session[i].reported
  PROVE  KeepsSession(i)
  BY DEF KeepsSession, Stages

LEMMA CallPosted ==
  ASSUME Typed, NEW c, strand' = Append(strand, c)
  PROVE  KeepsCalls /\ c \in Items(strand')
  <1>1. Items(strand') = Items(strand) \cup {c}
    BY ItemsAppend DEF Typed, TypedStrand
  <1> QED BY <1>1 DEF KeepsCalls

LEMMA CallTaken ==
  ASSUME Typed, strand # <<>>, strand' = Tail(strand),
         Head(strand).call \notin {"Shutdown", "Disconnect"}
  PROVE  KeepsCalls
  <1>1. Items(strand) = {Head(strand)} \cup Items(strand')
    BY ItemsTail DEF Typed, TypedStrand
  <1> QED BY <1>1 DEF KeepsCalls

LEMMA MessageTaken ==
  ASSUME Typed, NEW i \in Sessions, session[i].posted # <<>>,
         Head(session[i].posted).type # "Close"
  PROVE  \A m \in Items(session[i].posted) :
           m.type = "Close" => m \in Items(Tail(session[i].posted))
  <1>1. session[i].posted \in Seq(Messages)
    BY DEF Typed, TypedSession, Connection
  <1> QED BY <1>1, ItemsTail

LEMMA ChangeStateExit ==
  ASSUME NEW t, NEW s, NEW h \in Races, change_state(t, s, h)
  PROVE  ghost'.unheard = h.unheard
  BY DEF change_state, Races

LEMMA ClicksExit ==
  ASSUME Typed, ExitInv, Clicks
  PROVE  ExitInv'
  <1>1. UNCHANGED session => \A i \in Sessions : KeepsSession(i)
    BY SameSession
  <1>2. ASSUME NEW c, Posted(c) PROVE ExitInv'
    <2>1. KeepsCalls
      BY <1>2, CallPosted DEF Posted, Post
    <2>2. SameExit /\ UNCHANGED session
      BY <1>2 DEF Posted, SameExit
    <2> QED BY <1>1, <2>1, <2>2, KeepsExitInv DEF Keeps
  <1>3. CASE start_replay \/ close_replay
    <2>1. PICK s \in States, h \in Races : /\ change_state(GuiThread, s, h)
                                            /\ h.unheard = ghost.unheard
      <3>1. \A b \in BOOLEAN : /\ [ghost EXCEPT !.stale = b] \in Races
                               /\ [ghost EXCEPT !.stale = b].unheard = ghost.unheard
        BY DEF Typed, TypedState, Races
      <3>3. CASE start_replay
        <4> DEFINE b == ghost.stale \/ state # "Lobby"
                   h == [ghost EXCEPT !.stale = b]
        <4>1. change_state(GuiThread, "Replaying", h)
          BY <3>3 DEF start_replay
        <4>2. b \in BOOLEAN
          OBVIOUS
        <4> HIDE DEF b
        <4>3. h \in Races /\ h.unheard = ghost.unheard
          BY <3>1, <4>2
        <4> HIDE DEF h
        <4> QED BY <4>1, <4>3 DEF States, Screens
      <3>4. CASE close_replay
        <4> DEFINE b == ghost.stale \/ state # "Replaying"
                   h == [ghost EXCEPT !.stale = b]
        <4>1. change_state(GuiThread, "Lobby", h)
          BY <3>4 DEF close_replay
        <4>2. b \in BOOLEAN
          OBVIOUS
        <4> HIDE DEF b
        <4>3. h \in Races /\ h.unheard = ghost.unheard
          BY <3>1, <4>2
        <4> HIDE DEF h
        <4> QED BY <4>1, <4>3 DEF States, Screens
      <3> QED BY <1>3, <3>3, <3>4
    <2>2. SameExit
      BY <1>3, <2>1, ChangeStateExit DEF start_replay, close_replay, SameExit
    <2>3. KeepsCalls /\ UNCHANGED session
      BY <1>3, SameStrand DEF start_replay, close_replay
    <2> QED BY <1>1, <2>2, <2>3, KeepsExitInv DEF Keeps
  <1>4. CASE shutdown
    <2>1. KeepsCalls /\ [call |-> "Shutdown"] \in Items(strand')
      BY <1>4, CallPosted DEF shutdown, Post
    <2>2. Leaving'
      BY <2>1 DEF Leaving
    <2>3. ClosedReport'
      BY <1>4, <2>1 DEF ExitInv, ClosedReport, KeepsCalls, Report, shutdown
    <2> QED BY <2>2, <2>3 DEF ExitInv
  <1>5. CASE ClosePopup
    <2>1. SameExit /\ KeepsCalls /\ UNCHANGED session
      BY <1>5, SameStrand DEF ClosePopup, SameExit
    <2> QED BY <1>1, <2>1, KeepsExitInv DEF Keeps
  <1>6. ASSUME ~(start_replay \/ close_replay), ~shutdown, ~ClosePopup
        PROVE  \E c : Posted(c)
    BY <1>6 DEF Clicks, connect, login, register_account, send_friend_request,
       respond_friend_request, send_unfriend_request, send_block_request,
       send_unblock_request, queue_request, cancel_request, send_command,
       forfeit_request, interpret_message, fetch_match_history,
       request_match_replay
  <1> QED BY <1>2, <1>3, <1>4, <1>5, <1>6

LEMMA GuiExit ==
  ASSUME Typed, ExitInv,
         ShowScreen \/ UpdateButton \/ ShowPopup \/ \E t \in Threads : Tell(t)
  PROVE  ExitInv'
  <1>1. SameExit /\ UNCHANGED <<strand, session>>
    BY DEF ShowScreen, UpdateButton, ShowPopup, Tell, SameExit
  <1>2. KeepsCalls /\ \A i \in Sessions : KeepsSession(i)
    BY <1>1, SameStrand, SameSession
  <1> QED BY <1>1, <1>2, KeepsExitInv DEF Keeps

\* Session i changes and the others do not.
LEMMA OneSession ==
  ASSUME Typed, ExitInv, SameExit, KeepsCalls, NEW i \in Sessions,
         \A j \in Sessions \ {i} : session'[j] = session[j], KeepsSession(i)
  PROVE  ExitInv'
  <1>1. \A j \in Sessions : KeepsSession(j)
    BY SameSession
  <1> QED BY <1>1, KeepsExitInv DEF Keeps

\* A step that gives session i a new stage, other than Closed, or none.
Restaged(i) ==
  /\ \A j \in Sessions \ {i} : session'[j] = session[j]
  /\ session'[i].posted = session[i].posted
  /\ session'[i].reported = session[i].reported
  /\ session'[i].stage \in {session[i].stage} \cup (Stages \ {"Closed"})

LEMMA RestagedExit ==
  ASSUME Typed, ExitInv, SameExit, KeepsCalls, NEW i \in Sessions, Restaged(i)
  PROVE  ExitInv'
  <1>1. KeepsSession(i)
    BY SameSession DEF Restaged
  <1> QED BY <1>1, OneSession DEF Restaged

LEMMA ConnectingExit ==
  ASSUME Typed, ExitInv, NEW i \in Sessions,
         \/ on_resolve(i) \/ TimerExpires(i) \/ on_connect_timeout(i)
         \/ on_connect(i) \/ Verified(i) \/ BadTLS(i)
  PROVE  ExitInv'
  <1>0. session \in [Sessions -> Connection] /\ ghost \in Races
    BY DEF Typed, TypedSession, TypedState
  <1>1. Quiet => SameExit /\ KeepsCalls
    BY SameStrand DEF Quiet, SameExit
  <1>2. CASE on_resolve(i) \/ TimerExpires(i)
    <2>1. Restaged(i)
      BY <1>0, <1>2 DEF on_resolve, TimerExpires, Restaged, Connection, Stages
    <2> QED BY <1>1, <1>2, <2>1, RestagedExit DEF on_resolve, TimerExpires
  <1>3. CASE on_connect_timeout(i)
    <2>1. Restaged(i)
      BY <1>0, <1>3 DEF on_connect_timeout, Restaged, Connection
    <2> QED BY <1>1, <1>3, <2>1, RestagedExit DEF on_connect_timeout
  <1>4. CASE on_connect(i)
    <2>1. Restaged(i)
      BY <1>0, <1>4 DEF on_connect, Restaged, Connection, Stages
    <2> QED BY <1>1, <1>4, <2>1, RestagedExit DEF on_connect
  <1>5. CASE Verified(i)
    <2>1. Restaged(i)
      BY <1>0, <1>5 DEF Verified, Restaged, Connection, Stages
    <2>2. SameExit /\ KeepsCalls
      BY <1>0, <1>5, ChangeStateExit, SameStrand DEF Verified, SameExit
    <2> QED BY <2>1, <2>2, RestagedExit
  <1>6. CASE BadTLS(i)
    <2>1. KeepsCalls /\ Report(i) \in Items(strand')
      BY <1>6, CallPosted DEF BadTLS, Disconnected, Report
    <2>2. /\ \A j \in Sessions \ {i} : session'[j] = session[j]
          /\ session'[i].posted = session[i].posted
          /\ session'[i].reported = session[i].reported
      BY <1>0, <1>6 DEF BadTLS, Connection
    <2>3. KeepsSession(i)
      BY <2>1, <2>2 DEF KeepsSession
    <2>4. SameExit
      BY <1>6 DEF BadTLS, SameExit
    <2> QED BY <2>1, <2>2, <2>3, <2>4, OneSession
  <1> QED BY <1>2, <1>3, <1>4, <1>5, <1>6

LEMMA SameShut ==
  ASSUME NEW s \in [Sessions -> Connection], NEW i \in Sessions
  PROVE  /\ Shut(s, i)[i].posted = s[i].posted
         /\ Shut(s, i)[i].reported = s[i].reported
         /\ \A j \in Sessions \ {i} : Shut(s, i)[j] = s[j]
  BY DEF Shut, Connection

\* close_session on sessions that have at most lost a message of session i
\* that is not a close.
LEMMA CloseSessionExit ==
  ASSUME Typed, ExitInv, NEW i \in Sessions,
         NEW s \in [Sessions -> Connection], close_session(i, s),
         \A j \in Sessions \ {i} : s[j] = session[j],
         s[i].reported = session[i].reported, s[i].stage = session[i].stage,
         \A m \in Items(session[i].posted) :
           m.type = "Close" => m \in Items(s[i].posted),
         SameExit
  PROVE  ExitInv'
  <1>1. CASE session[i].live
    <2>1. KeepsCalls /\ Report(i) \in Items(strand')
      BY <1>1, CallPosted DEF close_session, Disconnected, Report
    <2> DEFINE t == Shut(s, i)
    <2>2. t \in [Sessions -> Connection]
      BY ShutType
    <2>3. /\ t[i].reported = s[i].reported
          /\ \A j \in Sessions \ {i} : t[j] = s[j]
      BY SameShut
    <2>4. session' = [t EXCEPT ![i].live = FALSE]
      BY <1>1 DEF close_session
    <2> HIDE DEF t
    <2>5. /\ session'[i].reported = session[i].reported
          /\ \A j \in Sessions \ {i} : session'[j] = session[j]
      BY <2>2, <2>3, <2>4 DEF Connection
    <2>6. KeepsSession(i)
      BY <2>1, <2>5 DEF KeepsSession
    <2> QED BY <2>1, <2>5, <2>6, OneSession
  <1>2. CASE ~session[i].live
    <2>1. session' = s /\ KeepsCalls
      BY <1>2, SameStrand DEF close_session
    <2>2. KeepsSession(i)
      BY <2>1 DEF KeepsSession
    <2> QED BY <2>1, <2>2, OneSession
  <1> QED BY <1>1, <1>2

LEMMA ReadingExit ==
  ASSUME Typed, ExitInv, NEW i \in Sessions,
         Read(i) \/ handle_read_error(i) \/ force_close_session(i)
  PROVE  ExitInv'
  <1>0. session \in [Sessions -> Connection]
    BY DEF Typed, TypedSession
  <1>1. session[i].posted \in Seq(Messages)
    BY <1>0 DEF Connection
  <1>2. CASE Read(i)
    <2>1. SameExit /\ KeepsCalls
      BY <1>2, SameStrand DEF Read, Quiet, SameExit
    <2>2. /\ \A j \in Sessions \ {i} : session'[j] = session[j]
          /\ session'[i].posted = Append(session[i].posted, Head(session[i].wire))
          /\ session'[i].reported = session[i].reported
          /\ session'[i].stage = session[i].stage
      BY <1>0, <1>2 DEF Read, Connection
    <2>3. Items(session[i].posted) \subseteq Items(session'[i].posted)
      BY <1>1, <2>2, ItemsAppend
    <2>4. KeepsSession(i)
      BY <2>2, <2>3 DEF KeepsSession
    <2> QED BY <2>1, <2>2, <2>4, OneSession
  <1>3. CASE handle_read_error(i)
    <2>1. SameExit
      BY <1>3 DEF handle_read_error, SameExit
    <2> QED BY <1>0, <1>3, <2>1, CloseSessionExit DEF handle_read_error
  <1>4. CASE force_close_session(i)
    <2>1. KeepsCalls /\ Report(i) \in Items(strand')
      BY <1>4, CallPosted DEF force_close_session, Disconnected, Report
    <2> DEFINE t == Shut(session, i)
    <2>2. t \in [Sessions -> Connection]
      BY <1>0, ShutType
    <2>3. /\ t[i].reported = session[i].reported
          /\ \A j \in Sessions \ {i} : t[j] = session[j]
      BY <1>0, SameShut
    <2>4. session' = [t EXCEPT ![i].posted = Tail(@)]
      BY <1>4 DEF force_close_session
    <2> HIDE DEF t
    <2>5. /\ session'[i].reported = session[i].reported
          /\ \A j \in Sessions \ {i} : session'[j] = session[j]
      BY <2>2, <2>3, <2>4 DEF Connection
    <2>6. KeepsSession(i)
      BY <2>1, <2>5 DEF KeepsSession
    <2>7. SameExit
      BY <1>4 DEF force_close_session, SameExit
    <2> QED BY <2>1, <2>5, <2>6, <2>7, OneSession
  <1> QED BY <1>2, <1>3, <1>4

LEMMA MessageExit ==
  ASSUME Typed, ExitInv, NEW i \in Sessions, on_message(i)
  PROVE  ExitInv'
  <1> DEFINE m == Head(session[i].posted)
  <1>0. session \in [Sessions -> Connection] /\ ghost \in Races
        /\ session[i].posted # <<>> /\ UNCHANGED exit
    BY DEF Typed, TypedSession, TypedState, on_message
  <1>1. m.type # "Close"
    BY DEF on_message
  <1>2. /\ Popped(i) \in [Sessions -> Connection]
        /\ \A j \in Sessions \ {i} : Popped(i)[j] = session[j]
        /\ Popped(i)[i].reported = session[i].reported
        /\ Popped(i)[i].stage = session[i].stage
        /\ Popped(i)[i].posted = Tail(session[i].posted)
    <2>1. Popped(i) \in [Sessions -> Connection]
      BY <1>0, PoppedType DEF Typed
    <2> QED BY <1>0, <2>1 DEF Popped, Connection
  <1>3. \A n \in Items(session[i].posted) :
          n.type = "Close" => n \in Items(Popped(i)[i].posted)
    BY <1>0, <1>1, <1>2, MessageTaken
  <1>4. ASSUME session' = Popped(i), ghost'.unheard = ghost.unheard, KeepsCalls
        PROVE  ExitInv'
    <2>1. KeepsSession(i)
      BY <1>2, <1>3, <1>4 DEF KeepsSession
    <2>2. SameExit
      BY <1>0, <1>4 DEF SameExit
    <2> QED BY <1>2, <1>4, <2>1, <2>2, OneSession
  <1>5. \A s : change_state(i, s, ghost) => ghost'.unheard = ghost.unheard
    BY <1>0, ChangeStateExit
  <1>6. Tardy(i) => ghost'.unheard = ghost.unheard
    BY <1>0 DEF Tardy, Races
  <1>7. KeepState => ghost'.unheard = ghost.unheard
    BY DEF KeepState
  <1> HIDE DEF m
  <1>8. CASE GoodAuth(i)
    <2>1. ghost'.unheard = ghost.unheard
      BY <1>5, <1>6, <1>8 DEF GoodAuth
    <2> DEFINE f == <<Fetch("Friends"), Fetch("FriendRequests"), Fetch("Blocks")>>
    <2>2. f \in Seq(Calls)
      BY LobbyFetches
    <2>3. strand' = strand \o f
      BY <1>8 DEF GoodAuth
    <2> HIDE DEF f
    <2>4. KeepsCalls
      <3>1. Items(strand') = Items(strand) \cup Items(f)
        BY <2>2, <2>3, ItemsConcat DEF Typed, TypedStrand
      <3> QED BY <3>1 DEF KeepsCalls
    <2> QED BY <1>4, <1>8, <2>1, <2>4 DEF GoodAuth
  <1>9. ASSUME \/ MatchStarting(i) \/ MatchInProgress(i) \/ MatchOver(i, m)
        PROVE  ExitInv'
    BY <1>4, <1>5, <1>9, SameStrand DEF MatchStarting, MatchInProgress,
       MatchOver
  <1>10. ASSUME \/ PlayerView(i) \/ GameEnded(i) \/ QueueFailed(i)
                \/ Notice(i) \/ Refusal(i)
         PROVE  ExitInv'
    BY <1>4, <1>6, <1>7, <1>10, SameStrand DEF PlayerView, GameEnded, QueueFailed,
       Notice, Refusal
  <1>11. CASE UsersUpdated(i, m)
    BY <1>4, <1>6, <1>11, SameStrand DEF UsersUpdated
  <1>12. CASE Malformed(i)
    <2>1. SameExit
      BY <1>0, <1>7, <1>12 DEF Malformed, SameExit
    <2>2. close_session(i, Popped(i))
      BY <1>12 DEF Malformed
    <2> QED BY <1>2, <1>3, <2>1, <2>2, CloseSessionExit
  <1> QED BY <1>8, <1>9, <1>10, <1>11, <1>12 DEF on_message, m

LEMMA SendExit ==
  ASSUME Typed, NEW c, Send(c)
  PROVE  \A i \in Sessions : KeepsSession(i)
  <1>1. session \in [Sessions -> Connection]
    BY DEF Typed, TypedSession
  <1>2. ASSUME NEW s \in Connection
        PROVE  /\ deliver(s, c).stage = s.stage
               /\ deliver(s, c).posted = s.posted
               /\ deliver(s, c).reported = s.reported
    BY <1>2 DEF deliver, Connection
  <1>3. \A i \in Sessions : session'[i] = IF i = current THEN deliver(session[i], c)
                                                         ELSE session[i]
    BY <1>1 DEF Send
  <1> QED BY <1>1, <1>2, <1>3, SameSession

\* Shutdown: a session that is live will be closed; one that is closed and
\* has not reported will.
LEMMA ShutdownExit ==
  ASSUME Typed, ExitInv, strand # <<>>, Head(strand).call = "Shutdown",
         OnShutdown
  PROVE  ExitInv'
  <1>0. session \in [Sessions -> Connection] /\ ghost \in Races
        /\ current \in 0 .. MaxSessions
        /\ exit \in [asked : BOOLEAN, done : BOOLEAN]
    BY DEF Typed, TypedSession, TypedState, TypedStrand
  <1>1. \A i \in Sessions : Report(i) \in Items(strand)
                              => Report(i) \in Items(strand')
    <2>1. Items(strand) = {Head(strand)} \cup Items(strand')
      BY ItemsTail DEF OnShutdown, Typed, TypedStrand
    <2> QED BY <2>1 DEF Report
  <1>2. CASE current = 0
    <2>1. UNCHANGED session /\ exit'.done
      BY <1>0, <1>2 DEF OnShutdown
    <2> QED BY <1>1, <2>1 DEF ExitInv, ClosedReport
  <1>3. CASE current # 0 /\ session[current].live
    <2> DEFINE q == Append(session[current].posted, [type |-> "Close"])
    <2>1. current \in Sessions
      BY <1>0, <1>3 DEF Sessions
    <2>2. session' = [session EXCEPT ![current].live = FALSE,
                                     ![current].posted = q]
      BY <1>3 DEF OnShutdown
    <2>3. [type |-> "Close"] \in Items(q)
      BY <1>0, <2>1, ItemsAppend DEF Connection
    <2> HIDE DEF q
    <2>4. /\ session'[current].posted = q
          /\ \A i \in Sessions : /\ session'[i].stage = session[i].stage
                                 /\ session'[i].reported = session[i].reported
      BY <1>0, <2>1, <2>2 DEF Connection
    <2>5. Leaving'
      BY <2>1, <2>3, <2>4 DEF Leaving
    <2>6. ClosedReport'
      BY <1>1, <2>4 DEF ExitInv, ClosedReport
    <2> QED BY <2>5, <2>6 DEF ExitInv
  <1>4. CASE current # 0 /\ ~session[current].live
    <2>1. current \in Sessions
      BY <1>0, <1>4 DEF Sessions
    <2>2. UNCHANGED session
      BY <1>4 DEF OnShutdown
    <2>3. ASSUME ~ghost'.unheard
          PROVE  session[current].stage = "Closed" /\ ~session[current].reported
      BY <1>0, <1>4, <2>3 DEF OnShutdown, Races
    <2>4. ASSUME ~ghost'.unheard PROVE Leaving'
      <3>1. Report(current) \in Items(strand')
        BY <1>1, <2>1, <2>3, <2>4 DEF ExitInv, ClosedReport
      <3> QED BY <3>1 DEF Leaving, Report
    <2>5. ClosedReport'
      BY <1>1, <2>2 DEF ExitInv, ClosedReport
    <2> QED BY <2>4, <2>5 DEF ExitInv
  <1> QED BY <1>2, <1>3, <1>4

\* The report of a session's end: with a shutdown asked for, the exit.
LEMMA DisconnectExit ==
  ASSUME Typed, ExitInv, strand # <<>>, NEW c, c = Head(strand),
         c.call = "Disconnect", OnDisconnect(c)
  PROVE  ExitInv'
  <1>0. session \in [Sessions -> Connection] /\ strand \in Seq(Calls)
        /\ exit \in [asked : BOOLEAN, done : BOOLEAN]
    BY DEF Typed, TypedSession, TypedStrand
  <1>1. Items(strand) = {c} \cup Items(Tail(strand))
    BY <1>0, ItemsTail
  <1>2. \A i \in Sessions :
          /\ session'[i].stage = session[i].stage
          /\ session'[i].reported = IF i = c.by THEN TRUE ELSE session[i].reported
    BY <1>0 DEF OnDisconnect, Connection
  <1>3. Items(Tail(strand)) \subseteq Items(strand')
    <2>1. CASE exit.asked
      BY <2>1 DEF OnDisconnect
    <2>2. CASE ~exit.asked
      <3> DEFINE d == <<[call |-> "Disconnected"]>>
      <3>1. d \in Seq(Calls) /\ Tail(strand) \in Seq(Calls)
        BY <1>0, TailType DEF Calls
      <3>2. strand' = d \o Tail(strand)
        BY <2>2 DEF OnDisconnect
      <3> HIDE DEF d
      <3>3. Items(d \o Tail(strand)) = Items(d) \cup Items(Tail(strand))
        BY <3>1, ItemsConcat
      <3> QED BY <3>2, <3>3
    <2> QED BY <2>1, <2>2
  <1>4. ClosedReport'
    <2> SUFFICES ASSUME NEW i \in Sessions, session'[i].stage = "Closed",
                        ~session'[i].reported
                 PROVE  Report(i) \in Items(strand')
      BY DEF ClosedReport
    <2>1. i # c.by
      BY <1>2
    <2>2. Report(i) # c
      BY <2>1 DEF Report
    <2>3. Report(i) \in Items(strand)
      BY <1>2, <2>1 DEF ExitInv, ClosedReport
    <2> QED BY <1>1, <1>3, <2>2, <2>3
  <1>5. exit'.done \/ ~exit'.asked
    BY <1>0 DEF OnDisconnect
  <1> QED BY <1>4, <1>5 DEF ExitInv

LEMMA StrandExit ==
  ASSUME Typed, ExitInv, RunStrand
  PROVE  ExitInv'
  <1> DEFINE c == Head(strand)
  <1>0. session \in [Sessions -> Connection] /\ ghost \in Races
        /\ strand \in Seq(Calls) /\ strand # <<>> /\ current \in 0 .. MaxSessions
    BY DEF Typed, TypedSession, TypedState, TypedStrand, RunStrand
  <1>1. ASSUME strand' = Tail(strand), c.call \notin {"Shutdown", "Disconnect"}
        PROVE  KeepsCalls
    BY <1>0, <1>1, CallTaken
  <1>2. UNCHANGED session => \A i \in Sessions : KeepsSession(i)
    BY SameSession
  <1>3. Send(c) => \A i \in Sessions : KeepsSession(i)
    BY SendExit
  <1>4. ASSUME SameExit, KeepsCalls, \A i \in Sessions : KeepsSession(i)
        PROVE  ExitInv'
    BY <1>4, KeepsExitInv DEF Keeps
  <1>5. UNCHANGED exit /\ KeepState => SameExit
    BY DEF KeepState, SameExit
  <1> HIDE DEF c
  <1>6. ASSUME JustSend(c) \/ Checked(c),
               c.call \notin {"Shutdown", "Disconnect"}
        PROVE  ExitInv'
    BY <1>1, <1>2, <1>3, <1>4, <1>5, <1>6 DEF JustSend, Checked
  <1>7. ASSUME OnConnect, c.call = "Connect" PROVE ExitInv'
    <2>1. KeepsCalls
      BY <1>1, <1>7 DEF OnConnect
    <2>2. SameExit
      BY <1>0, <1>7 DEF OnConnect, SameExit, Races
    <2>3. \A i \in Sessions : KeepsSession(i)
      <3>1. \A i \in Sessions :
              /\ session'[i].stage \in {session[i].stage, "Resolving"}
              /\ session'[i].posted = session[i].posted
              /\ session'[i].reported = session[i].reported
        <4>1. CASE UNCHANGED session
          BY <4>1
        <4>2. CASE session' = [session EXCEPT ![current + 1].stage = "Resolving"]
          BY <1>0, <4>2 DEF Connection
        <4> QED BY <1>7, <4>1, <4>2 DEF OnConnect
      <3> QED BY <3>1, SameSession DEF Stages
    <2> QED BY <1>4, <2>1, <2>2, <2>3
  <1>8. ASSUME OnRespond(c) \/ OnQueue(c),
               c.call \notin {"Shutdown", "Disconnect"}
        PROVE  ExitInv'
    <2>1. SameExit
      BY <1>0, <1>8 DEF OnRespond, OnQueue, SameExit, Races
    <2> QED BY <1>1, <1>3, <1>4, <1>8, <2>1 DEF OnRespond, OnQueue
  <1>9. ASSUME OnText(c), c.call = "Text" PROVE ExitInv'
    <2>1. KeepsCalls
      <3>1. CASE strand' = Tail(strand)
        BY <1>1, <1>9, <3>1
      <3>2. CASE strand' = Append(Tail(strand), [call |-> "Send"])
        <4>1. Items(strand) = {c} \cup Items(Tail(strand))
          BY <1>0, ItemsTail DEF c
        <4>2. Items(strand') = Items(Tail(strand)) \cup {[call |-> "Send"]}
          BY <1>0, <3>2, ItemsAppend, TailType
        <4> QED BY <1>9, <4>1, <4>2 DEF KeepsCalls
      <3> QED BY <1>9, <3>1, <3>2 DEF OnText
    <2> QED BY <1>2, <1>4, <1>5, <1>9, <2>1 DEF OnText
  <1>10. ASSUME OnShutdown, c.call = "Shutdown" PROVE ExitInv'
    BY <1>0, <1>10, ShutdownExit DEF c
  <1>11. ASSUME OnDisconnect(c), c.call = "Disconnect" PROVE ExitInv'
    BY <1>0, <1>11, DisconnectExit DEF c
  <1>12. ASSUME OnDisconnected, c.call = "Disconnected" PROVE ExitInv'
    <2>1. SameExit
      BY <1>0, <1>12, ChangeStateExit DEF OnDisconnected, SameExit
    <2> QED BY <1>1, <1>2, <1>4, <1>12, <2>1 DEF OnDisconnected
  <1> QED BY <1>6, <1>7, <1>8, <1>9, <1>10, <1>11, <1>12 DEF RunStrand, c

LEMMA ServerExit ==
  ASSUME Typed, ExitInv, NEW i \in Sessions, Answer(i) \/ Unasked(i)
  PROVE  ExitInv'
  <1>0. session \in [Sessions -> Connection]
    BY DEF Typed, TypedSession
  <1>1. SameExit /\ KeepsCalls
    BY SameStrand DEF Answer, Unasked, SameExit
  <1> DEFINE Same == \A j \in Sessions : /\ session'[j].stage = session[j].stage
                                         /\ session'[j].posted = session[j].posted
                                         /\ session'[j].reported = session[j].reported
  <1>2. ASSUME NEW ms, Wire(i, ms) \/ Replied(i, ms) PROVE Same
    <2>1. CASE Wire(i, ms)
      BY <1>0, <2>1 DEF Wire, Connection
    <2>2. CASE Replied(i, ms)
      <3> DEFINE r == [session[i] EXCEPT !.out = Tail(session[i].out),
                                         !.wire = session[i].wire \o ms]
      <3>1. session' = [session EXCEPT ![i] = r]
        BY <1>0, <2>2 DEF Replied
      <3>2. /\ r.stage = session[i].stage /\ r.posted = session[i].posted
            /\ r.reported = session[i].reported
        BY <1>0 DEF Connection
      <3> HIDE DEF r
      <3> QED BY <1>0, <3>1, <3>2
    <2> QED BY <1>2, <2>1, <2>2
  <1>3. session' = [session EXCEPT ![i].peer = FALSE] => Same
    BY <1>0 DEF Connection
  <1>4. ASSUME AnswerLogin(i) PROVE Same
    <2>1. CASE \E ms : Replied(i, ms)
      BY <1>2, <2>1
    <2>2. CASE ~\E ms : Replied(i, ms)
      <3> DEFINE W(ms) == session[i].wire \o [k \in DOMAIN ms |-> [type |-> ms[k]]]
                 P == [j \in Sessions |-> session[j].peer /\ j \notin server.auth]
      <3>1. PICK ms : session' = [j \in Sessions |->
                 IF j = i
                 THEN [session[i] EXCEPT !.out = Tail(session[i].out),
                                         !.wire = W(ms)]
                 ELSE [session[j] EXCEPT !.peer = session[j].peer
                                                  /\ j \notin server.auth]]
        BY <1>4, <2>2, Zenon DEF AnswerLogin
      <3>2. \A j \in Sessions : P[j] = (session[j].peer /\ j \notin server.auth)
        OBVIOUS
      <3> DEFINE w == W(ms)
      <3>3. session' = [j \in Sessions |->
                 IF j = i
                 THEN [session[i] EXCEPT !.out = Tail(session[i].out), !.wire = w]
                 ELSE [session[j] EXCEPT !.peer = P[j]]]
        <4> HIDE DEF W
        <4> QED BY <3>1, <3>2
      <3> HIDE DEF P, w
      <3>4. \A j \in Sessions :
              session'[j] = IF j = i
                            THEN [session[i] EXCEPT !.out = Tail(session[i].out),
                                                    !.wire = w]
                            ELSE [session[j] EXCEPT !.peer = P[j]]
        BY <3>3
      <3>5. ASSUME NEW j \in Sessions, NEW p
            PROVE  LET r == [session[j] EXCEPT !.peer = p] IN
                   /\ r.stage = session[j].stage /\ r.posted = session[j].posted
                   /\ r.reported = session[j].reported
        BY <1>0 DEF Connection
      <3>6. ASSUME NEW a
            PROVE  LET r == [session[i] EXCEPT !.out = a, !.wire = w] IN
                   /\ r.stage = session[i].stage /\ r.posted = session[i].posted
                   /\ r.reported = session[i].reported
        BY <1>0 DEF Connection
      <3> SUFFICES ASSUME NEW j \in Sessions
                   PROVE  /\ session'[j].stage = session[j].stage
                          /\ session'[j].posted = session[j].posted
                          /\ session'[j].reported = session[j].reported
        OBVIOUS
      <3>7. CASE j = i
        <4>1. session'[i] = [session[i] EXCEPT !.out = Tail(session[i].out),
                                               !.wire = w]
          BY <3>4
        <4> QED BY <3>6, <3>7, <4>1
      <3>8. CASE j # i
        <4>1. session'[j] = [session[j] EXCEPT !.peer = P[j]]
          BY <3>4, <3>8
        <4> QED BY <3>5, <4>1
      <3> QED BY <3>7, <3>8
    <2> QED BY <2>1, <2>2
  <1> HIDE DEF Same
  <1>5. ASSUME NEW c, AnswerUser(i, c) PROVE Same
    BY <1>2, <1>5 DEF AnswerUser
  <1>6. ASSUME NEW c, AnswerMatch(i, c) PROVE Same
    BY <1>2, <1>6 DEF AnswerMatch
  <1>7. News(i) => Same
    BY <1>2 DEF News
  <1>8. Same
    BY <1>2, <1>3, <1>4, <1>5, <1>6, <1>7 DEF Answer, Unasked
  <1>9. \A j \in Sessions : KeepsSession(j)
    BY <1>8, SameSession DEF Same
  <1> QED BY <1>1, <1>9, KeepsExitInv DEF Keeps

LEMMA InitExit == Init => ExitInv
  <1> SUFFICES ASSUME Init PROVE ExitInv
    OBVIOUS
  <1>1. ~exit.asked
    BY DEF Init, Common
  <1>2. \A i \in Sessions : session[i].stage \in {"None", "Up"}
    <2>1. \/ session = [i \in Sessions |-> NewSession]
          \/ session = [i \in Sessions |->
                 IF i = 1 THEN [NewSession EXCEPT !.stage = "Up", !.live = TRUE]
                          ELSE NewSession]
      BY DEF Init, Started, LoggedIn
    <2>2. /\ NewSession.stage = "None"
          /\ [NewSession EXCEPT !.stage = "Up", !.live = TRUE].stage = "Up"
      BY DEF NewSession
    <2> QED BY <2>1, <2>2
  <1> QED BY <1>1, <1>2 DEF ExitInv, ClosedReport

LEMMA NextExit == Typed /\ ExitInv /\ [Next]_vars => ExitInv'
  <1> SUFFICES ASSUME Typed, ExitInv, [Next]_vars PROVE ExitInv'
    OBVIOUS
  <1>1. ASSUME UNCHANGED vars PROVE ExitInv'
    <2>1. UNCHANGED <<strand, session, exit, ghost>>
      BY <1>1 DEF vars
    <2> QED BY <2>1 DEF ExitInv, ClosedReport, Leaving, Items
  <1> QED BY <1>1, ClicksExit, GuiExit, StrandExit, ConnectingExit,
             ReadingExit, MessageExit, ServerExit DEF Next

\* A user who leaves gets out: when everything has come to rest after
\* shutdown(), the callback that ends the program has been called, unless the
\* session that shutdown() found was neither live nor about to report its end.
\* (Client::shutdown, ClientSession::close_session, Client::on_disconnect)
THEOREM LeavingGetsOut == Spec => []ExitCompletes
  <1>1. Typed /\ ExitInv => ExitCompletes
    <2> SUFFICES ASSUME Typed, ExitInv, AtRest, exit.asked, ~ghost.unheard,
                        ~exit.done
                 PROVE  FALSE
      BY DEF ExitCompletes
    <2>1. Leaving
      BY DEF ExitInv
    <2>2. Items(strand) = {} /\ \A i \in Sessions : Items(session[i].posted) = {}
      BY DEF AtRest, Settled, Items
    <2> QED BY <2>1, <2>2 DEF Leaving
  <1> QED BY <1>1, InitTyped, NextTyped, InitExit, NextExit, PTL DEF Spec

-----------------------------------------------------------------------------
(* What a step does to the connections.  The messages of a connection are  *)
(* one queue, of which do_read moves the border.                           *)

Mail(i) == session[i].posted \o session[i].wire

\* Nothing that the server and the client exchange over it changes.
Same(j) ==
  /\ session'[j].stage = session[j].stage
  /\ session'[j].reported = session[j].reported
  /\ session'[j].live = session[j].live
  /\ session'[j].jammed = session[j].jammed
  /\ session'[j].out = session[j].out
  /\ Mail(j)' = Mail(j)

SameBut(i) == \A j \in Sessions \ {i} : Same(j)
AllSame == \A j \in Sessions : Same(j)

\* Only its stage changes.
Stepped(i) ==
  /\ SameBut(i)
  /\ session'[i].reported = session[i].reported
  /\ session'[i].jammed = session[i].jammed
  /\ session'[i].out = session[i].out
  /\ Mail(i)' = Mail(i)

\* The first message is handled.
Took(i) ==
  /\ SameBut(i)
  /\ session'[i].stage = session[i].stage
  /\ session'[i].reported = session[i].reported
  /\ session'[i].live = session[i].live
  /\ session'[i].jammed = session[i].jammed
  /\ session'[i].out = session[i].out
  /\ Mail(i) # <<>>
  /\ Mail(i)' = Tail(Mail(i))

\* The connection is closed; what is read but not handled stays.
Ended(i) ==
  /\ SameBut(i)
  /\ session[i].stage \in {"Handshake", "Up"}
  /\ session'[i].stage = "Closed"
  /\ session'[i].reported = session[i].reported
  /\ ~session'[i].live
  /\ session'[i].out = <<>>
  /\ Items(Mail(i)') \subseteq Items(Mail(i))
  /\ strand' = Append(strand, Report(i))
  /\ server'.auth = server.auth \ {i}
  /\ server'.mode = IF i \in server.auth THEN NO_MODE ELSE server.mode
  /\ server'.match = server.match
  /\ server'.rel = server.rel

\* A request is handed to the session in use.
Sent(c) ==
  /\ SameBut(current)
  /\ \A j \in Sessions : /\ session'[j].stage = session[j].stage
                         /\ session'[j].reported = session[j].reported
                         /\ session'[j].live = session[j].live
                         /\ Mail(j)' = Mail(j)
  /\ current \in Sessions =>
       IF session[current].stage = "Up" /\ ~session[current].jammed
       THEN /\ session'[current].out = Append(session[current].out, c)
            /\ session'[current].jammed = session[current].jammed
       ELSE session'[current].out = session[current].out

\* The server adds ms to the messages.
Added(i, ms) ==
  /\ SameBut(i)
  /\ session'[i].stage = session[i].stage
  /\ session'[i].reported = session[i].reported
  /\ session'[i].live = session[i].live
  /\ session'[i].jammed = session[i].jammed
  /\ Mail(i)' = Mail(i) \o ms

Wired(i, ms) == Added(i, ms) /\ session'[i].out = session[i].out
Answered(i, ms) == Added(i, ms) /\ session'[i].out = Tail(session[i].out)

LEMMA MailType ==
  ASSUME Typed, NEW i \in Sessions
  PROVE  /\ Mail(i) \in Seq(Messages) /\ session[i].posted \in Seq(Messages)
         /\ session[i].wire \in Seq(Messages) /\ session[i].out \in Seq(Calls)
         /\ session \in [Sessions -> Connection]
  BY ConcatType DEF Typed, TypedSession, Connection, Mail

LEMMA TailConcat ==
  ASSUME NEW S, NEW p \in Seq(S), NEW w \in Seq(S), p # <<>>
  PROVE  /\ Tail(p) \o w = Tail(p \o w)
         /\ p \o w # <<>>
         /\ Head(p) = Head(p \o w)
  <1>1. /\ Tail(p) \in Seq(S) /\ Len(Tail(p)) = Len(p) - 1
        /\ \A k \in 1 .. Len(p) - 1 : Tail(p)[k] = p[k + 1]
        /\ Len(p) \in Nat /\ Len(p) > 0 /\ Len(w) \in Nat
    BY HeadTailProperties
  <1> DEFINE q == p \o w
             a == Tail(p) \o w
  <1>2. /\ q \in Seq(S) /\ Len(q) = Len(p) + Len(w)
        /\ \A k \in 1 .. Len(p) + Len(w) :
             q[k] = IF k <= Len(p) THEN p[k] ELSE w[k - Len(p)]
    OBVIOUS
  <1>3. /\ a \in Seq(S) /\ Len(a) = Len(p) - 1 + Len(w)
        /\ \A k \in 1 .. Len(p) - 1 + Len(w) :
             a[k] = IF k <= Len(p) - 1 THEN Tail(p)[k] ELSE w[k - (Len(p) - 1)]
    BY <1>1
  <1> HIDE DEF q, a
  <1>4. q # <<>> /\ Head(q) = q[1] /\ Head(p) = p[1]
    BY <1>1, <1>2
  <1>5. /\ Tail(q) \in Seq(S) /\ Len(Tail(q)) = Len(q) - 1
        /\ \A k \in 1 .. Len(q) - 1 : Tail(q)[k] = q[k + 1]
    BY <1>2, <1>4, HeadTailProperties
  <1>6. Head(p) = Head(q)
    BY <1>1, <1>2, <1>4
  <1>7. Len(a) = Len(Tail(q))
    BY <1>1, <1>2, <1>3, <1>5
  <1>8. ASSUME NEW k \in 1 .. Len(a) PROVE a[k] = Tail(q)[k]
    <2>1. Tail(q)[k] = q[k + 1]
      BY <1>5, <1>7
    <2>2. CASE k <= Len(p) - 1
      BY <1>1, <1>2, <1>3, <1>8, <2>1, <2>2
    <2>3. CASE k > Len(p) - 1
      <3>1. a[k] = w[k - (Len(p) - 1)]
        BY <1>1, <1>3, <1>8, <2>3
      <3>2. q[k + 1] = w[(k + 1) - Len(p)]
        BY <1>1, <1>2, <1>3, <1>8, <2>3
      <3>3. k - (Len(p) - 1) = (k + 1) - Len(p)
        BY <1>1, <1>8
      <3> QED BY <2>1, <3>1, <3>2, <3>3
    <2>4. k \in Int /\ Len(p) - 1 \in Int
      BY <1>1, <1>3
    <2>5. k <= Len(p) - 1 \/ k > Len(p) - 1
      BY <2>4
    <2> QED BY <2>2, <2>3, <2>5
  <1>9. a = Tail(q)
    BY <1>3, <1>5, <1>7, <1>8, SeqEqual
  <1> QED BY <1>4, <1>6, <1>9 DEF q, a

LEMMA MoveBorder ==
  ASSUME NEW S, NEW p \in Seq(S), NEW w \in Seq(S), w # <<>>
  PROVE  Append(p, Head(w)) \o Tail(w) = p \o w
  <1>1. /\ Head(w) \in S /\ Tail(w) \in Seq(S) /\ <<Head(w)>> \in Seq(S)
        /\ w = <<Head(w)>> \o Tail(w)
    BY HeadTailProperties
  <1>2. Append(p, Head(w)) = p \o <<Head(w)>>
    BY <1>1, AppendIsConcat
  <1> QED BY <1>1, <1>2, ConcatAssociative

LEMMA SameFields ==
  ASSUME NEW j, session'[j] = session[j]
  PROVE  Same(j)
  BY DEF Same, Mail

LEMMA NothingChanged ==
  ASSUME UNCHANGED session
  PROVE  AllSame
  BY SameFields DEF AllSame

LEMMA ConnectingShape ==
  ASSUME Typed, NEW i \in Sessions,
         \/ on_resolve(i) \/ TimerExpires(i) \/ on_connect_timeout(i)
         \/ on_connect(i)
  PROVE  /\ Stepped(i)
         /\ session'[i].live = session[i].live
         /\ \/ session'[i].stage = session[i].stage
            \/ /\ session[i].stage \in {"Resolving", "Connecting"}
               /\ session'[i].stage \in {"Connecting", "Handshake", "Failed"}
         /\ Quiet
  <1>0. session \in [Sessions -> Connection]
    BY MailType
  <1>1. \A j \in Sessions \ {i} : session'[j] = session[j]
    BY <1>0 DEF on_resolve, TimerExpires, on_connect_timeout, on_connect
  <1>2. SameBut(i)
    BY <1>1, SameFields DEF SameBut
  <1> DEFINE Fields == /\ session'[i].posted = session[i].posted
                       /\ session'[i].wire = session[i].wire
                       /\ session'[i].reported = session[i].reported
                       /\ session'[i].jammed = session[i].jammed
                       /\ session'[i].out = session[i].out
                       /\ session'[i].live = session[i].live
             Stage == \/ session'[i].stage = session[i].stage
                      \/ /\ session[i].stage \in {"Resolving", "Connecting"}
                         /\ session'[i].stage \in
                              {"Connecting", "Handshake", "Failed"}
  <1>3. Fields /\ Stage
    <2>1. CASE on_resolve(i)
      BY <1>0, <2>1 DEF on_resolve, Connection
    <2>2. CASE TimerExpires(i)
      BY <1>0, <2>2 DEF TimerExpires, Connection
    <2>3. CASE on_connect_timeout(i)
      BY <1>0, <2>3 DEF on_connect_timeout, Connection
    <2>4. CASE on_connect(i)
      BY <1>0, <2>4 DEF on_connect, Connection
    <2> QED BY <2>1, <2>2, <2>3, <2>4
  <1>4. Mail(i)' = Mail(i)
    BY <1>3 DEF Mail
  <1>5. Quiet
    BY DEF on_resolve, TimerExpires, on_connect_timeout, on_connect
  <1> QED BY <1>2, <1>3, <1>4, <1>5 DEF Stepped

LEMMA VerifiedShape ==
  ASSUME Typed, NEW i \in Sessions, Verified(i)
  PROVE  /\ Stepped(i)
         /\ session[i].stage = "Handshake" /\ session'[i].stage = "Up"
  <1>0. session \in [Sessions -> Connection]
    BY MailType
  <1>1. \A j \in Sessions \ {i} : session'[j] = session[j]
    BY <1>0 DEF Verified
  <1>2. SameBut(i)
    BY <1>1, SameFields DEF SameBut
  <1> QED BY <1>0, <1>2 DEF Verified, Stepped, Mail, Connection

LEMMA ReadShape ==
  ASSUME Typed, NEW i \in Sessions, Read(i)
  PROVE  AllSame
  <1>0. /\ session \in [Sessions -> Connection]
        /\ session[i].posted \in Seq(Messages) /\ session[i].wire \in Seq(Messages)
    BY MailType
  <1>1. \A j \in Sessions \ {i} : session'[j] = session[j]
    BY <1>0 DEF Read
  <1>2. /\ session[i].wire # <<>>
        /\ session'[i].wire = Tail(session[i].wire)
        /\ session'[i].posted = Append(session[i].posted, Head(session[i].wire))
        /\ session'[i].stage = session[i].stage
        /\ session'[i].reported = session[i].reported
        /\ session'[i].live = session[i].live
        /\ session'[i].jammed = session[i].jammed
        /\ session'[i].out = session[i].out
    BY <1>0 DEF Read, Connection
  <1>3. Mail(i)' = Mail(i)
    BY <1>0, <1>2, MoveBorder DEF Mail
  <1> QED BY <1>1, <1>2, <1>3, SameFields DEF AllSame, Same

LEMMA PoppedShape ==
  ASSUME Typed, NEW i \in Sessions, session[i].posted # <<>>,
         session' = Popped(i)
  PROVE  /\ Took(i)
         /\ Head(session[i].posted) = Head(Mail(i))
  <1>0. /\ session \in [Sessions -> Connection]
        /\ session[i].posted \in Seq(Messages) /\ session[i].wire \in Seq(Messages)
    BY MailType
  <1>1. \A j \in Sessions \ {i} : session'[j] = session[j]
    BY <1>0 DEF Popped
  <1>2. /\ session'[i].posted = Tail(session[i].posted)
        /\ session'[i].wire = session[i].wire
        /\ session'[i].stage = session[i].stage
        /\ session'[i].reported = session[i].reported
        /\ session'[i].live = session[i].live
        /\ session'[i].jammed = session[i].jammed
        /\ session'[i].out = session[i].out
    BY <1>0 DEF Popped, Connection
  <1>3. SameBut(i)
    BY <1>1, SameFields DEF SameBut
  <1> QED BY <1>0, <1>2, <1>3, TailConcat DEF Took, Mail

LEMMA HangupShape ==
  ASSUME Typed, NEW i \in Sessions, Hangup(i)
  PROVE  /\ server'.auth = server.auth \ {i}
         /\ server'.mode = IF i \in server.auth THEN NO_MODE ELSE server.mode
         /\ server'.match = server.match
         /\ server'.rel = server.rel
  BY DEF Hangup, Typed, TypedServer, Account

LEMMA BadTLSShape ==
  ASSUME Typed, NEW i \in Sessions, BadTLS(i), i \notin server.auth,
         session[i].live => session[i].stage = "Up", session[i].out = <<>>
  PROVE  Ended(i)
  <1>0. session \in [Sessions -> Connection]
    BY MailType
  <1>1. \A j \in Sessions \ {i} : session'[j] = session[j]
    BY <1>0 DEF BadTLS
  <1>2. SameBut(i)
    BY <1>1, SameFields DEF SameBut
  <1>3. /\ session'[i].posted = session[i].posted
        /\ session'[i].wire = session[i].wire
        /\ session'[i].reported = session[i].reported
        /\ session[i].stage = "Handshake"
        /\ session'[i].stage = "Closed"
        /\ ~session'[i].live /\ session'[i].out = <<>>
    BY <1>0 DEF BadTLS, Connection
  <1>4. Mail(i)' = Mail(i)
    BY <1>3 DEF Mail
  <1>5. strand' = Append(strand, Report(i))
    BY DEF BadTLS, Disconnected, Report
  <1>6. server' = server /\ server.auth \ {i} = server.auth
    BY DEF BadTLS
  <1> QED BY <1>2, <1>3, <1>4, <1>5, <1>6 DEF Ended

\* close_session on a live session, of which at most the first message has
\* been taken.
LEMMA CloseShape ==
  ASSUME Typed, NEW i \in Sessions, NEW s \in [Sessions -> Connection],
         close_session(i, s), session[i].live, session[i].stage = "Up",
         \A j \in Sessions \ {i} : s[j] = session[j],
         s[i].reported = session[i].reported,
         Items(s[i].posted) \subseteq Items(session[i].posted)
  PROVE  Ended(i)
  <1> DEFINE t == Shut(s, i)
  <1>1. t \in [Sessions -> Connection]
    BY ShutType
  <1>2. /\ t[i].posted = s[i].posted /\ t[i].wire = <<>> /\ t[i].stage = "Closed"
        /\ t[i].out = <<>>
        /\ t[i].reported = s[i].reported
        /\ \A j \in Sessions \ {i} : t[j] = s[j]
    BY DEF Shut, Connection
  <1>3. session' = [t EXCEPT ![i].live = FALSE]
    BY DEF close_session
  <1> HIDE DEF t
  <1>4. /\ session'[i].posted = s[i].posted /\ session'[i].wire = <<>>
        /\ session'[i].stage = "Closed"
        /\ session'[i].reported = session[i].reported
        /\ ~session'[i].live /\ session'[i].out = <<>>
        /\ \A j \in Sessions \ {i} : session'[j] = session[j]
    BY <1>1, <1>2, <1>3 DEF Connection
  <1>5. SameBut(i)
    BY <1>4, SameFields DEF SameBut
  <1>6. Items(Mail(i)') \subseteq Items(Mail(i))
    <2>1. s[i].posted \in Seq(Messages)
      BY DEF Connection
    <2>2. Mail(i)' = s[i].posted
      BY <1>4, <2>1, ConcatEmptySeq DEF Mail
    <2>3. Items(session[i].posted) \subseteq Items(Mail(i))
      BY MailType, ItemsConcat DEF Mail
    <2> QED BY <2>2, <2>3
  <1>7. strand' = Append(strand, Report(i)) /\ Hangup(i)
    BY DEF close_session, Disconnected, Report
  <1> QED BY <1>4, <1>5, <1>6, <1>7, HangupShape DEF Ended

LEMMA ReadErrorShape ==
  ASSUME Typed, NEW i \in Sessions, handle_read_error(i)
  PROVE  Ended(i)
  BY CloseShape, MailType DEF handle_read_error

LEMMA MalformedShape ==
  ASSUME Typed, NEW i \in Sessions, session[i].posted # <<>>, Malformed(i),
         session[i].live => session[i].stage = "Up"
  PROVE  \/ Ended(i)
         \/ Took(i) /\ UNCHANGED <<strand, server>>
  <1>1. CASE session[i].live
    <2>1. Popped(i) \in [Sessions -> Connection]
      BY PoppedType DEF Typed
    <2>2. /\ \A j \in Sessions \ {i} : Popped(i)[j] = session[j]
          /\ Popped(i)[i].reported = session[i].reported
          /\ Popped(i)[i].posted = Tail(session[i].posted)
      BY MailType DEF Popped, Connection
    <2>3. Items(Tail(session[i].posted)) \subseteq Items(session[i].posted)
      BY MailType, ItemsTail
    <2> QED BY <1>1, <2>1, <2>2, <2>3, CloseShape DEF Malformed
  <1>2. CASE ~session[i].live
    <2>1. session' = Popped(i) /\ UNCHANGED <<strand, server>>
      BY <1>2 DEF Malformed, close_session
    <2> QED BY <2>1, PoppedShape
  <1> QED BY <1>1, <1>2

LEMMA SendShape ==
  ASSUME Typed, NEW c, Send(c)
  PROVE  Sent(c)
  <1>0. session \in [Sessions -> Connection]
    BY DEF Typed, TypedSession
  <1>1. \A j \in Sessions : session'[j] = IF j = current THEN deliver(session[j], c)
                                                         ELSE session[j]
    BY <1>0 DEF Send
  <1>2. SameBut(current)
    BY <1>1, SameFields DEF SameBut
  <1>3. ASSUME NEW r \in Connection
        PROVE  /\ deliver(r, c).stage = r.stage
               /\ deliver(r, c).reported = r.reported
               /\ deliver(r, c).live = r.live
               /\ deliver(r, c).posted = r.posted
               /\ deliver(r, c).wire = r.wire
               /\ IF r.stage = "Up" /\ ~r.jammed
                  THEN /\ deliver(r, c).out = Append(r.out, c)
                       /\ deliver(r, c).jammed = r.jammed
                  ELSE deliver(r, c).out = r.out
    BY <1>3 DEF deliver, Connection
  <1>4. \A j \in Sessions : /\ session'[j].stage = session[j].stage
                           /\ session'[j].reported = session[j].reported
                           /\ session'[j].live = session[j].live
                           /\ session'[j].posted = session[j].posted
                           /\ session'[j].wire = session[j].wire
    BY <1>0, <1>1, <1>3
  <1>5. \A j \in Sessions : Mail(j)' = Mail(j)
    BY <1>4 DEF Mail
  <1>6. ASSUME current \in Sessions
        PROVE  IF session[current].stage = "Up" /\ ~session[current].jammed
               THEN /\ session'[current].out = Append(session[current].out, c)
                    /\ session'[current].jammed = session[current].jammed
               ELSE session'[current].out = session[current].out
    BY <1>0, <1>1, <1>3, <1>6
  <1> QED BY <1>2, <1>4, <1>5, <1>6 DEF Sent

LEMMA WireShape ==
  ASSUME Typed, NEW i \in Sessions, NEW ms \in Seq(Messages), Wire(i, ms)
  PROVE  Wired(i, ms)
  <1>0. session \in [Sessions -> Connection]
    BY MailType
  <1>1. \A j \in Sessions \ {i} : session'[j] = session[j]
    BY <1>0 DEF Wire
  <1>2. SameBut(i)
    BY <1>1, SameFields DEF SameBut
  <1>3. /\ session'[i].posted = session[i].posted
        /\ session'[i].wire = session[i].wire \o ms
        /\ session'[i].stage = session[i].stage
        /\ session'[i].reported = session[i].reported
        /\ session'[i].live = session[i].live
        /\ session'[i].jammed = session[i].jammed
        /\ session'[i].out = session[i].out
    BY <1>0 DEF Wire, Connection
  <1>4. Mail(i)' = Mail(i) \o ms
    <2> DEFINE p == session[i].posted
               w == session[i].wire
    <2>1. p \in Seq(Messages) /\ w \in Seq(Messages)
      BY MailType
    <2>2. (p \o w) \o ms = p \o (w \o ms)
      <3> HIDE DEF p, w
      <3> QED BY <2>1, ConcatAssociative
    <2>3. session'[i].posted \o session'[i].wire = p \o (w \o ms)
      BY <1>3
    <2> QED BY <2>2, <2>3 DEF Mail
  <1> QED BY <1>2, <1>3, <1>4 DEF Wired, Added

LEMMA RepliedShape ==
  ASSUME Typed, NEW i \in Sessions, NEW ms \in Seq(Messages), Replied(i, ms)
  PROVE  Answered(i, ms)
  <1>0. session \in [Sessions -> Connection]
    BY MailType
  <1> DEFINE r == [session[i] EXCEPT !.out = Tail(session[i].out),
                                     !.wire = session[i].wire \o ms]
  <1>1. session' = [session EXCEPT ![i] = r]
    BY <1>0 DEF Replied
  <1>2. /\ r.posted = session[i].posted
        /\ r.wire = session[i].wire \o ms
        /\ r.stage = session[i].stage
        /\ r.reported = session[i].reported
        /\ r.live = session[i].live
        /\ r.jammed = session[i].jammed
        /\ r.out = Tail(session[i].out)
    BY <1>0 DEF Connection
  <1> HIDE DEF r
  <1>3. session'[i] = r /\ \A j \in Sessions \ {i} : session'[j] = session[j]
    BY <1>0, <1>1
  <1>4. SameBut(i)
    BY <1>3, SameFields DEF SameBut
  <1>5. Mail(i)' = Mail(i) \o ms
    <2> DEFINE p == session[i].posted
               w == session[i].wire
    <2>1. p \in Seq(Messages) /\ w \in Seq(Messages)
      BY MailType
    <2>2. (p \o w) \o ms = p \o (w \o ms)
      <3> HIDE DEF p, w
      <3> QED BY <2>1, ConcatAssociative
    <2>3. session'[i].posted \o session'[i].wire = p \o (w \o ms)
      BY <1>2, <1>3
    <2> QED BY <2>2, <2>3 DEF Mail
  <1> QED BY <1>2, <1>3, <1>4, <1>5 DEF Answered, Added

-----------------------------------------------------------------------------
(* What a queue says of the elements of a set.                             *)

Has(s, X) == \E k \in 1 .. Len(s) : s[k] \in X

\* An element of A is in it, and none of R behind it.
Pending(s, A, R) ==
  \E k \in 1 .. Len(s) : s[k] \in A /\ \A l \in k + 1 .. Len(s) : s[l] \notin R

\* Whether v is in L once all of s is handled: those in A put it there,
\* those in R take it out.
Final(v, L, s, A, R) == Pending(s, A, R) \/ (v \in L /\ ~Has(s, R))

\* No element of Y is in front of one of X.
NoneBefore(s, X, Y) ==
  \A k \in 1 .. Len(s) : s[k] \in X => \A j \in 1 .. k - 1 : s[j] \notin Y

LEMMA EmptyQueue ==
  /\ \A X : ~Has(<<>>, X)
  /\ \A A, R : ~Pending(<<>>, A, R)
  /\ \A X, Y : NoneBefore(<<>>, X, Y)
  BY DEF Has, Pending, NoneBefore

LEMMA TailIndex ==
  ASSUME NEW S, NEW s \in Seq(S), s # <<>>
  PROVE  /\ Len(s) \in Nat /\ Len(s) > 0 /\ Head(s) = s[1] /\ Head(s) \in S
         /\ Tail(s) \in Seq(S) /\ Len(Tail(s)) = Len(s) - 1
         /\ \A k \in 1 .. Len(s) - 1 : Tail(s)[k] = s[k + 1]
         /\ \A k \in 1 .. Len(s) :
              k = 1 \/ (k - 1 \in 1 .. Len(s) - 1 /\ s[k] = Tail(s)[k - 1])
  <1>1. /\ Len(s) \in Nat /\ Len(s) > 0 /\ Head(s) = s[1] /\ Head(s) \in S
        /\ Tail(s) \in Seq(S) /\ Len(Tail(s)) = Len(s) - 1
        /\ \A k \in 1 .. Len(s) - 1 : Tail(s)[k] = s[k + 1]
    OBVIOUS
  <1>2. \A k \in 1 .. Len(s) :
           k = 1 \/ (k - 1 \in 1 .. Len(s) - 1 /\ (k - 1) + 1 = k)
    BY <1>1
  <1> QED BY <1>1, <1>2

LEMMA HasTail ==
  ASSUME NEW S, NEW s \in Seq(S), s # <<>>, NEW X
  PROVE  Has(s, X) <=> Head(s) \in X \/ Has(Tail(s), X)
  <1> DEFINE t == Tail(s)
             h == Head(s)
             n == Len(s)
  <1>1. /\ n \in Nat /\ n > 0 /\ h = s[1] /\ Len(t) = n - 1
        /\ \A k \in 1 .. n - 1 : t[k] = s[k + 1]
        /\ \A k \in 1 .. n : k = 1 \/ (k - 1 \in 1 .. n - 1 /\ s[k] = t[k - 1])
    BY TailIndex
  <1>2. \A k \in 1 .. n - 1 : k + 1 \in 1 .. n
    BY <1>1
  <1> HIDE DEF t, h, n
  <1>3. Has(s, X) => h \in X \/ Has(t, X)
    BY <1>1 DEF Has, n
  <1>4. h \in X \/ Has(t, X) => Has(s, X)
    BY <1>1, <1>2 DEF Has, n
  <1> QED BY <1>3, <1>4 DEF t, h

LEMMA HasAppend ==
  ASSUME NEW S, NEW s \in Seq(S), NEW e, NEW X
  PROVE  Has(Append(s, e), X) <=> Has(s, X) \/ e \in X
  <1>1. Items(Append(s, e)) = Items(s) \cup {e}
    BY ItemsAppend
  <1>2. \A q : Has(q, X) <=> Items(q) \cap X # {}
    BY DEF Has, Items
  <1> QED BY <1>1, <1>2

LEMMA HasItems ==
  ASSUME NEW s, NEW X
  PROVE  /\ Has(s, X) <=> Items(s) \cap X # {}
         /\ \A t : Items(t) \subseteq Items(s) /\ Has(t, X) => Has(s, X)
  BY DEF Has, Items

LEMMA PendingTail ==
  ASSUME NEW S, NEW s \in Seq(S), s # <<>>, NEW A, NEW R
  PROVE  Pending(s, A, R) <=> \/ Head(s) \in A /\ ~Has(Tail(s), R)
                              \/ Pending(Tail(s), A, R)
  <1> DEFINE t == Tail(s)
             h == Head(s)
             n == Len(s)
  <1>1. /\ n \in Nat /\ n > 0 /\ h = s[1] /\ Len(t) = n - 1
        /\ \A k \in 1 .. n - 1 : t[k] = s[k + 1]
        /\ \A k \in 1 .. n : k = 1 \/ (k - 1 \in 1 .. n - 1 /\ s[k] = t[k - 1])
    BY TailIndex
  <1>2. \A k \in 1 .. n - 1 : k + 1 \in 1 .. n /\ k + 1 \in 2 .. n
    BY <1>1
  <1> HIDE DEF t, h, n
  <1>3. ASSUME NEW k \in 1 .. n, s[k] \in A, \A l \in k + 1 .. n : s[l] \notin R
        PROVE  (h \in A /\ ~Has(t, R)) \/ Pending(t, A, R)
    <2>1. CASE k = 1
      <3>1. \A l \in 2 .. n : s[l] \notin R
        BY <1>3, <2>1
      <3>2. \A l \in 1 .. n - 1 : t[l] \notin R
        BY <1>1, <1>2, <3>1
      <3> QED BY <1>1, <1>3, <2>1, <3>2 DEF Has
    <2>2. CASE k # 1
      <3>1. k - 1 \in 1 .. n - 1 /\ t[k - 1] \in A
        BY <1>1, <1>3, <2>2
      <3>2. ASSUME NEW l \in (k - 1) + 1 .. n - 1 PROVE t[l] \notin R
        <4>1. l + 1 \in k + 1 .. n /\ l \in 1 .. n - 1
          BY <1>1, <3>1, <3>2
        <4> QED BY <1>1, <1>3, <4>1
      <3> QED BY <1>1, <3>1, <3>2 DEF Pending
    <2> QED BY <2>1, <2>2
  <1>4. ASSUME h \in A, ~Has(t, R) PROVE Pending(s, A, R)
    <2>1. \A l \in 2 .. n : s[l] \notin R
      <3> SUFFICES ASSUME NEW l \in 2 .. n PROVE s[l] \notin R
        OBVIOUS
      <3>1. l \in 1 .. n /\ l # 1
        BY <1>1
      <3> QED BY <1>1, <1>4, <3>1 DEF Has
    <2> QED BY <1>1, <1>4, <2>1 DEF Pending, n
  <1>5. ASSUME NEW k \in 1 .. n - 1, t[k] \in A,
               \A l \in k + 1 .. n - 1 : t[l] \notin R
        PROVE  Pending(s, A, R)
    <2>1. k + 1 \in 1 .. n /\ s[k + 1] \in A
      BY <1>1, <1>2, <1>5
    <2>2. ASSUME NEW l \in (k + 1) + 1 .. n PROVE s[l] \notin R
      <3>1. l \in 1 .. n /\ l # 1 /\ l - 1 \in k + 1 .. n - 1
        BY <1>1, <1>5, <2>2
      <3> QED BY <1>1, <1>5, <3>1
    <2> QED BY <2>1, <2>2 DEF Pending, n
  <1>6. Pending(s, A, R) => (h \in A /\ ~Has(t, R)) \/ Pending(t, A, R)
    BY <1>3 DEF Pending, n
  <1>7. Pending(t, A, R) => Pending(s, A, R)
    BY <1>1, <1>5 DEF Pending
  <1> QED BY <1>4, <1>6, <1>7 DEF t, h

LEMMA PendingAppend ==
  ASSUME NEW S, NEW s \in Seq(S), NEW e, NEW A, NEW R
  PROVE  Pending(Append(s, e), A, R) <=>
           e \in A \/ (Pending(s, A, R) /\ e \notin R)
  <1> DEFINE q == Append(s, e)
             n == Len(s)
  <1>1. /\ n \in Nat /\ Len(q) = n + 1 /\ q[n + 1] = e
        /\ \A k \in 1 .. n : q[k] = s[k]
    OBVIOUS
  <1> HIDE DEF q, n
  <1>2. e \in A => Pending(q, A, R)
    BY <1>1 DEF Pending
  <1>3. Pending(s, A, R) /\ e \notin R => Pending(q, A, R)
    BY <1>1 DEF Pending, n
  <1>4. ASSUME NEW k \in 1 .. n + 1, q[k] \in A,
               \A l \in k + 1 .. n + 1 : q[l] \notin R
        PROVE  e \in A \/ (Pending(s, A, R) /\ e \notin R)
    <2>1. CASE k = n + 1
      BY <1>1, <1>4, <2>1
    <2>2. CASE k # n + 1
      <3>1. k \in 1 .. n /\ n + 1 \in k + 1 .. n + 1
        BY <1>1, <1>4, <2>2
      <3>2. \A l \in k + 1 .. n : s[l] \notin R
        BY <1>1, <1>4, <3>1
      <3> QED BY <1>1, <1>4, <3>1, <3>2 DEF Pending, n
    <2> QED BY <2>1, <2>2
  <1> QED BY <1>1, <1>2, <1>3, <1>4 DEF Pending, q

LEMMA NoneBeforeTail ==
  ASSUME NEW S, NEW s \in Seq(S), s # <<>>, NEW X, NEW Y, NoneBefore(s, X, Y)
  PROVE  /\ NoneBefore(Tail(s), X, Y)
         /\ Head(s) \in Y => ~Has(Tail(s), X)
  <1> DEFINE t == Tail(s)
             h == Head(s)
             n == Len(s)
  <1>1. /\ n \in Nat /\ n > 0 /\ h = s[1] /\ Len(t) = n - 1
        /\ \A k \in 1 .. n - 1 : t[k] = s[k + 1]
    BY TailIndex
  <1> HIDE DEF t, h, n
  <1>2. ASSUME NEW k \in 1 .. n - 1, t[k] \in X
        PROVE  /\ h \notin Y
               /\ \A j \in 1 .. k - 1 : t[j] \notin Y
    <2>1. k + 1 \in 1 .. n /\ 1 \in 1 .. (k + 1) - 1
      BY <1>1
    <2>2. \A j \in 1 .. (k + 1) - 1 : s[j] \notin Y
      BY <1>1, <1>2, <2>1 DEF NoneBefore, n
    <2>3. \A j \in 1 .. k - 1 : j + 1 \in 1 .. (k + 1) - 1 /\ j \in 1 .. n - 1
      BY <1>1
    <2> QED BY <1>1, <2>1, <2>2, <2>3
  <1>3. NoneBefore(t, X, Y)
    BY <1>1, <1>2 DEF NoneBefore
  <1>4. h \in Y => ~Has(t, X)
    BY <1>1, <1>2 DEF Has
  <1> QED BY <1>3, <1>4 DEF t, h

LEMMA NoneBeforeAppend ==
  ASSUME NEW S, NEW s \in Seq(S), NEW e, NEW X, NEW Y,
         NoneBefore(s, X, Y), e \in X => ~Has(s, Y)
  PROVE  NoneBefore(Append(s, e), X, Y)
  <1> DEFINE q == Append(s, e)
             n == Len(s)
  <1>1. /\ n \in Nat /\ Len(q) = n + 1 /\ q[n + 1] = e
        /\ \A k \in 1 .. n : q[k] = s[k]
    OBVIOUS
  <1> HIDE DEF q, n
  <1>2. ASSUME NEW k \in 1 .. n + 1, q[k] \in X, NEW j \in 1 .. k - 1
        PROVE  q[j] \notin Y
    <2>1. j \in 1 .. n
      BY <1>1, <1>2
    <2>2. CASE k = n + 1
      BY <1>1, <1>2, <2>1, <2>2 DEF Has, n
    <2>3. CASE k # n + 1
      <3>1. k \in 1 .. n
        BY <1>1, <1>2, <2>3
      <3> QED BY <1>1, <1>2, <2>1, <3>1 DEF NoneBefore, n
    <2> QED BY <2>2, <2>3
  <1>3. NoneBefore(q, X, Y)
    BY <1>1, <1>2 DEF NoneBefore
  <1> QED BY <1>3 DEF q

LEMMA NoneBeforeNone ==
  ASSUME NEW s, NEW X, NEW Y, ~Has(s, X)
  PROVE  NoneBefore(s, X, Y)
  BY DEF Has, NoneBefore

LEMMA PendingHas ==
  ASSUME NEW s, NEW A, NEW R, Pending(s, A, R)
  PROVE  Has(s, A)
  BY DEF Has, Pending

\* Handling the first element, or adding one, is what Final says it is.
LEMMA FinalTail ==
  ASSUME NEW S, NEW s \in Seq(S), s # <<>>, NEW A, NEW R,
         NEW v, NEW L, NEW w, NEW K,
         w \in K <=> Head(s) \in A \/ (v \in L /\ Head(s) \notin R)
  PROVE  Final(w, K, Tail(s), A, R) <=> Final(v, L, s, A, R)
  <1>1. Pending(s, A, R) <=> \/ Head(s) \in A /\ ~Has(Tail(s), R)
                             \/ Pending(Tail(s), A, R)
    BY PendingTail
  <1>2. Has(s, R) <=> Head(s) \in R \/ Has(Tail(s), R)
    BY HasTail
  <1> QED BY <1>1, <1>2 DEF Final

LEMMA FinalAppend ==
  ASSUME NEW S, NEW s \in Seq(S), NEW e, NEW A, NEW R, NEW v, NEW L
  PROVE  Final(v, L, Append(s, e), A, R) <=>
           e \in A \/ (Final(v, L, s, A, R) /\ e \notin R)
  <1>1. Pending(Append(s, e), A, R) <=>
          e \in A \/ (Pending(s, A, R) /\ e \notin R)
    BY PendingAppend
  <1>2. Has(Append(s, e), R) <=> Has(s, R) \/ e \in R
    BY HasAppend
  <1> QED BY <1>1, <1>2 DEF Final

LEMMA ConcatFew ==
  ASSUME NEW S, NEW s \in Seq(S), NEW a \in S, NEW b \in S
  PROVE  /\ s \o <<>> = s
         /\ s \o <<a>> = Append(s, a)
         /\ s \o <<a, b>> = Append(Append(s, a), b)
  <1>1. s \o <<>> = s
    BY ConcatEmptySeq
  <1>2. s \o <<a>> = Append(s, a)
    BY AppendIsConcat
  <1>3. s \o <<a, b>> = Append(Append(s, a), b)
    <2> DEFINE p == s \o <<a, b>>
               q == Append(Append(s, a), b)
    <2>1. p \in Seq(S) /\ Len(p) = Len(s) + 2 /\ Len(s) \in Nat
      OBVIOUS
    <2>2. q \in Seq(S) /\ Len(q) = Len(s) + 2
      OBVIOUS
    <2>3. ASSUME NEW k \in 1 .. Len(s) + 2 PROVE p[k] = q[k]
      OBVIOUS
    <2> HIDE DEF p, q
    <2>4. p = q
      BY <2>1, <2>2, <2>3, SeqEqual
    <2> QED BY <2>4 DEF p, q
  <1> QED BY <1>1, <1>2, <1>3

\* A message that carries nothing.
Msg(t) == [type |-> t]

LEMMA MapMessages ==
  ASSUME NEW S, NEW a \in S, NEW b \in S, NEW ms \in Seq(S)
  PROVE  /\ ms = <<a>> => [k \in DOMAIN ms |-> [type |-> ms[k]]] = <<Msg(a)>>
         /\ ms = <<a, b>> =>
              [k \in DOMAIN ms |-> [type |-> ms[k]]] = <<Msg(a), Msg(b)>>
  <1> DEFINE e(k) == [type |-> ms[k]]
             T == {[type |-> x] : x \in S}
  <1>1. /\ Len(ms) \in Nat /\ DOMAIN ms = 1 .. Len(ms)
        /\ \A k \in 1 .. Len(ms) : ms[k] \in S
    OBVIOUS
  <1>2. \A k \in 1 .. Len(ms) : e(k) \in T
    BY <1>1
  <1>3. Msg(a) \in T /\ Msg(b) \in T
    BY DEF Msg
  <1> HIDE DEF T
  <1>4. /\ ms = <<a>> => Len(ms) = 1 /\ e(1) = Msg(a)
        /\ ms = <<a, b>> => Len(ms) = 2 /\ e(1) = Msg(a) /\ e(2) = Msg(b)
    BY DEF Msg
  <1> HIDE DEF e
  <1> DEFINE f == [k \in 1 .. Len(ms) |-> e(k)]
  <1>5. f \in Seq(T) /\ Len(f) = Len(ms) /\ \A k \in 1 .. Len(ms) : f[k] = e(k)
    BY <1>1, <1>2
  <1> HIDE DEF f
  <1>6. /\ <<Msg(a)>> \in Seq(T) /\ Len(<<Msg(a)>>) = 1 /\ <<Msg(a)>>[1] = Msg(a)
        /\ <<Msg(a), Msg(b)>> \in Seq(T) /\ Len(<<Msg(a), Msg(b)>>) = 2
        /\ <<Msg(a), Msg(b)>>[1] = Msg(a) /\ <<Msg(a), Msg(b)>>[2] = Msg(b)
    BY <1>3
  <1>7. ms = <<a>> => f = <<Msg(a)>>
    <2> HAVE ms = <<a>>
    <2> DEFINE g == <<Msg(a)>>
    <2>1. Len(f) = Len(g) /\ f \in Seq(T) /\ g \in Seq(T)
      BY <1>4, <1>5, <1>6
    <2>2. ASSUME NEW k \in 1 .. Len(f) PROVE f[k] = g[k]
      <3>1. k = 1
        BY <1>4, <1>5, <2>2
      <3> QED BY <1>4, <1>5, <1>6, <3>1
    <2> QED BY <2>1, <2>2, SeqEqual
  <1>8. ms = <<a, b>> => f = <<Msg(a), Msg(b)>>
    <2> HAVE ms = <<a, b>>
    <2> DEFINE g == <<Msg(a), Msg(b)>>
    <2>1. Len(f) = Len(g) /\ f \in Seq(T) /\ g \in Seq(T)
      BY <1>4, <1>5, <1>6
    <2>2. ASSUME NEW k \in 1 .. Len(f) PROVE f[k] = g[k]
      <3>1. k = 1 \/ k = 2
        BY <1>4, <1>5, <2>2
      <3> QED BY <1>4, <1>5, <1>6, <3>1
    <2> QED BY <2>1, <2>2, SeqEqual
  <1> QED BY <1>1, <1>7, <1>8 DEF e, f

LEMMA LoginShape ==
  ASSUME Typed, NEW i \in Sessions, AnswerLogin(i)
  PROVE  \/ Answered(i, <<Msg("Refusal")>>) /\ UNCHANGED server
         \/ /\ i \notin server.auth
            /\ server'.auth = {i} /\ server'.match = server.match
            /\ server'.rel = server.rel
            /\ server'.mode = IF server.auth = {} THEN server.mode ELSE NO_MODE
            /\ \/ server.match /\ Answered(i, <<Msg("GoodAuth"), Msg("MatchInProgress")>>)
               \/ server.match /\ Answered(i, <<Msg("MatchInProgress"), Msg("GoodAuth")>>)
               \/ ~server.match /\ Answered(i, <<Msg("GoodAuth")>>)
  <1>0. session \in [Sessions -> Connection] /\ server \in Account
    BY DEF Typed, TypedSession, TypedServer
  <1>1. CASE Replied(i, <<Msg("Refusal")>>) /\ UNCHANGED server
    <2>1. <<Msg("Refusal")>> \in Seq(Messages)
      BY PlainMessages DEF Msg
    <2> QED BY <1>1, <2>1, RepliedShape
  <1>2. CASE ~(Replied(i, <<[type |-> "Refusal"]>>) /\ UNCHANGED server)
    <2> DEFINE E(ms) == [k \in DOMAIN ms |-> [type |-> ms[k]]]
               W(ms) == session[i].wire \o E(ms)
               S(ms) == [j \in Sessions |->
                 IF j = i
                 THEN [session[i] EXCEPT !.out = Tail(session[i].out),
                                         !.wire = W(ms)]
                 ELSE [session[j] EXCEPT !.peer = session[j].peer
                                                  /\ j \notin server.auth]]
    <2> DEFINE L == IF server.match THEN {<<"GoodAuth", "MatchInProgress">>,
                                          <<"MatchInProgress", "GoodAuth">>}
                                    ELSE {<<"GoodAuth">>}
               A == {"GoodAuth", "MatchInProgress"}
    <2>0. i \notin server.auth /\ \E ms \in L : session' = S(ms)
      BY <1>2, Zenon DEF AnswerLogin
    <2>1. PICK ms \in L : session' = S(ms)
      <3> HIDE DEF S, L
      <3> QED BY <2>0
    <2>2. ms \in L /\ ms \in Seq(A)
      <3>1. /\ <<"GoodAuth", "MatchInProgress">> \in Seq(A)
            /\ <<"MatchInProgress", "GoodAuth">> \in Seq(A)
            /\ <<"GoodAuth">> \in Seq(A)
        OBVIOUS
      <3> HIDE DEF A
      <3> QED BY <3>1, <2>1, Zenon
    <2>3. /\ "GoodAuth" \in A /\ "MatchInProgress" \in A
          /\ Msg("GoodAuth") \in Messages /\ Msg("MatchInProgress") \in Messages
      BY PlainMessages DEF Msg
    <2>4. \/ server.match /\ E(ms) = <<Msg("GoodAuth"), Msg("MatchInProgress")>>
          \/ server.match /\ E(ms) = <<Msg("MatchInProgress"), Msg("GoodAuth")>>
          \/ ~server.match /\ E(ms) = <<Msg("GoodAuth")>>
      <3> HIDE DEF A, E
      <3>1. /\ ms = <<"GoodAuth">> => E(ms) = <<Msg("GoodAuth")>>
            /\ ms = <<"GoodAuth", "MatchInProgress">> =>
                 E(ms) = <<Msg("GoodAuth"), Msg("MatchInProgress")>>
            /\ ms = <<"MatchInProgress", "GoodAuth">> =>
                 E(ms) = <<Msg("MatchInProgress"), Msg("GoodAuth")>>
        BY <2>2, <2>3, MapMessages DEF E
      <3>2. \/ server.match /\ ms = <<"GoodAuth", "MatchInProgress">>
            \/ server.match /\ ms = <<"MatchInProgress", "GoodAuth">>
            \/ ~server.match /\ ms = <<"GoodAuth">>
        BY <2>2, Zenon
      <3> QED BY <3>1, <3>2, Zenon
    <2>5. E(ms) \in Seq(Messages)
      <3> HIDE DEF E
      <3>1. /\ <<Msg("GoodAuth"), Msg("MatchInProgress")>> \in Seq(Messages)
            /\ <<Msg("MatchInProgress"), Msg("GoodAuth")>> \in Seq(Messages)
            /\ <<Msg("GoodAuth")>> \in Seq(Messages)
        BY <2>3
      <3> QED BY <2>4, <3>1, Zenon
    <2> DEFINE e == E(ms)
               w == W(ms)
    <2>6. w = session[i].wire \o e
      OBVIOUS
    <2> HIDE DEF E, W, L, A
    <2>7. /\ session'[i] = [session[i] EXCEPT !.out = Tail(session[i].out), !.wire = w]
          /\ \A j \in Sessions \ {i} : session'[j] =
               [session[j] EXCEPT !.peer = session[j].peer /\ j \notin server.auth]
      BY <2>1
    <2> HIDE DEF S, w, e
    <2>8. SameBut(i)
      <3> SUFFICES ASSUME NEW j \in Sessions \ {i} PROVE Same(j)
        BY DEF SameBut
      <3> DEFINE p == session[j].peer /\ j \notin server.auth
      <3>1. session'[j] = [session[j] EXCEPT !.peer = p]
        BY <2>7
      <3> HIDE DEF p
      <3>2. /\ session'[j].stage = session[j].stage
            /\ session'[j].reported = session[j].reported
            /\ session'[j].live = session[j].live
            /\ session'[j].jammed = session[j].jammed
            /\ session'[j].out = session[j].out
            /\ session'[j].posted = session[j].posted
            /\ session'[j].wire = session[j].wire
        BY <1>0, <3>1 DEF Connection
      <3> QED BY <3>2 DEF Same, Mail
    <2>9. /\ session'[i].posted = session[i].posted
          /\ session'[i].wire = w
          /\ session'[i].stage = session[i].stage
          /\ session'[i].reported = session[i].reported
          /\ session'[i].live = session[i].live
          /\ session'[i].jammed = session[i].jammed
          /\ session'[i].out = Tail(session[i].out)
      BY <1>0, <2>7 DEF Connection
    <2>10. Mail(i)' = Mail(i) \o e
      <3> DEFINE p == session[i].posted
                 v == session[i].wire
      <3>1. p \in Seq(Messages) /\ v \in Seq(Messages) /\ e \in Seq(Messages)
        BY MailType, <2>5 DEF e
      <3>2. (p \o v) \o e = p \o (v \o e)
        <4> HIDE DEF p, v
        <4> QED BY <3>1, ConcatAssociative
      <3>3. session'[i].posted \o session'[i].wire = p \o (v \o e)
        BY <2>6, <2>9
      <3> QED BY <3>2, <3>3 DEF Mail
    <2>11. Answered(i, e)
      BY <2>8, <2>9, <2>10 DEF Answered, Added
    <2>12. /\ server'.auth = {i} /\ server'.match = server.match
           /\ server'.rel = server.rel
           /\ server'.mode = IF server.auth = {} THEN server.mode ELSE NO_MODE
      <3> DEFINE M == IF server.auth = {} THEN server.mode ELSE NO_MODE
      <3>1. server' = [server EXCEPT !.auth = {i}, !.mode = M]
        BY <1>2, Zenon DEF AnswerLogin
      <3> HIDE DEF M
      <3>2. /\ server'.auth = {i} /\ server'.match = server.match
            /\ server'.rel = server.rel /\ server'.mode = M
        BY <1>0, <3>1 DEF Account
      <3> QED BY <3>2 DEF M
    <2> QED BY <2>0, <2>4, <2>11, <2>12 DEF e
  <1> QED BY <1>1, <1>2 DEF Msg

LEMMA ReportedShape ==
  ASSUME Typed, NEW i \in Sessions,
         session' = [session EXCEPT ![i].reported = TRUE]
  PROVE  /\ SameBut(i)
         /\ session'[i].stage = session[i].stage
         /\ session'[i].reported
         /\ session'[i].live = session[i].live
         /\ session'[i].jammed = session[i].jammed
         /\ session'[i].out = session[i].out
         /\ Mail(i)' = Mail(i)
  <1>0. session \in [Sessions -> Connection]
    BY MailType
  <1>1. \A j \in Sessions \ {i} : session'[j] = session[j]
    BY <1>0
  <1>2. SameBut(i)
    BY <1>1, SameFields DEF SameBut
  <1> QED BY <1>0, <1>2 DEF Mail, Connection

LEMMA OpenedShape ==
  ASSUME Typed, NEW i \in Sessions,
         session' = [session EXCEPT ![i].stage = "Resolving"]
  PROVE  /\ Stepped(i)
         /\ session'[i].live = session[i].live
         /\ session'[i].stage = "Resolving"
  <1>0. session \in [Sessions -> Connection]
    BY MailType
  <1>1. \A j \in Sessions \ {i} : session'[j] = session[j]
    BY <1>0
  <1>2. SameBut(i)
    BY <1>1, SameFields DEF SameBut
  <1> QED BY <1>0, <1>2 DEF Mail, Connection, Stepped

LEMMA PeerShape ==
  ASSUME Typed, NEW i \in Sessions,
         session' = [session EXCEPT ![i].peer = FALSE]
  PROVE  AllSame
  <1>0. session \in [Sessions -> Connection]
    BY MailType
  <1>1. \A j \in Sessions \ {i} : Same(j)
    <2>1. \A j \in Sessions \ {i} : session'[j] = session[j]
      BY <1>0
    <2> QED BY <2>1, SameFields
  <1>2. Same(i)
    BY <1>0 DEF Mail, Connection, Same
  <1> QED BY <1>1, <1>2 DEF AllSame

-----------------------------------------------------------------------------
(* One connection at a time: as long as the user neither leaves nor opens  *)
(* a connection over another, all but the session in use are finished.     *)

OneAtATime == ~exit.asked /\ ~ghost.doubled

\* The messages of some types.
OfType(T) == {m \in Messages : m.type \in T}
OfCall(T) == {c \in Calls : c.call \in T}

Place(i) ==
  /\ i > current => session[i].stage = "None"
  /\ i < current => session[i].stage = "Failed" \/ session[i].reported

Sound(i) ==
  /\ session[i].reported => session[i].stage = "Closed"
  /\ session[i].live => session[i].stage = "Up"
  /\ session[i].stage \notin {"Up", "Closed"} => Mail(i) = <<>>
  /\ session[i].stage # "Up" => session[i].out = <<>>
  /\ session[i].jammed => session[i].out = <<>>
  /\ i \in server.auth => session[i].stage = "Up" /\ ~session[i].jammed
  /\ ~Has(Mail(i), OfType({"Close"}))

\* The session in use is closed and its end has not been dealt with.
Lost == /\ current # 0
        /\ session[current].stage = "Closed" /\ ~session[current].reported

Due == IF Lost THEN {Report(current)} ELSE {}

\* At most one report is on the strand, and it is due.
Sole(s, R) ==
  /\ NoneBefore(s, OfCall({"Disconnect"}), OfCall({"Disconnect"}))
  /\ \A c \in Items(s) : c.call \in {"Disconnect", "Shutdown"} => c \in R

Net ==
  /\ current # 0 => session[current].stage # "None"
  /\ \A i \in Sessions : Place(i) /\ Sound(i)
  /\ Sole(strand, Due)

NetInv == OneAtATime => Net

\* The history only grows, and so does the wish to leave.
Grows ==
  /\ exit.asked => exit'.asked
  /\ ghost.late => ghost'.late
  /\ ghost.crossed => ghost'.crossed
  /\ ghost.doubled => ghost'.doubled
  /\ ghost.stale => ghost'.stale
  /\ ghost.overtaken => ghost'.overtaken
  /\ ghost.requeued => ghost'.requeued
  /\ ghost.kept => ghost'.kept

LEMMA CurrentSession ==
  ASSUME Typed, current # 0
  PROVE  current \in Sessions
  BY ClientBounds DEF Typed, TypedStrand, Sessions

LEMMA SolePost ==
  ASSUME NEW s \in Seq(Calls), NEW R, Sole(s, R), NEW c,
         c.call \notin {"Disconnect", "Shutdown"}
  PROVE  Sole(Append(s, c), R)
  <1> DEFINE D == OfCall({"Disconnect"})
  <1>1. c \notin D
    BY DEF OfCall
  <1>2. NoneBefore(Append(s, c), D, D)
    <2> HIDE DEF D
    <2>1. NoneBefore(s, D, D)
      BY DEF Sole, D
    <2> QED BY <1>1, <2>1, NoneBeforeAppend
  <1>3. Items(Append(s, c)) = Items(s) \cup {c}
    BY ItemsAppend
  <1> QED BY <1>2, <1>3 DEF Sole

LEMMA SoleTail ==
  ASSUME NEW s \in Seq(Calls), s # <<>>, NEW R, Sole(s, R),
         \A x \in R : x.call = "Disconnect"
  PROVE  /\ Sole(Tail(s), R)
         /\ Head(s).call = "Disconnect" => Sole(Tail(s), {}) /\ Head(s) \in R
         /\ Head(s).call # "Shutdown"
  <1> DEFINE D == OfCall({"Disconnect"})
  <1>1. Items(s) = {Head(s)} \cup Items(Tail(s)) /\ Head(s) \in Calls
        /\ Tail(s) \in Seq(Calls)
    BY ItemsTail, TailType
  <1>2. NoneBefore(s, D, D)
    BY DEF Sole
  <1>3. NoneBefore(Tail(s), D, D) /\ (Head(s) \in D => ~Has(Tail(s), D))
    <2> HIDE DEF D
    <2> QED BY <1>2, NoneBeforeTail
  <1>4. Sole(Tail(s), R)
    BY <1>1, <1>3 DEF Sole
  <1>5. ASSUME Head(s).call = "Disconnect"
        PROVE  Sole(Tail(s), {})
    <2>1. Head(s) \in D
      BY <1>1, <1>5 DEF OfCall
    <2>2. Items(Tail(s)) \cap D = {}
      <3> HIDE DEF D
      <3> QED BY <1>3, <2>1, HasItems
    <2>3. Items(Tail(s)) \subseteq Calls
      BY <1>1 DEF Items
    <2>4. \A c \in Items(Tail(s)) : c.call # "Disconnect"
      BY <2>2, <2>3 DEF OfCall
    <2> QED BY <1>1, <1>3, <1>4, <1>5, <2>4 DEF Sole
  <1> QED BY <1>1, <1>4, <1>5 DEF Sole

LEMMA DueReports == \A x \in Due : x.call = "Disconnect"
  BY DEF Due, Report

LEMMA ClickShape ==
  ASSUME Typed, Clicks
  PROVE  \/ ClosePopup \/ start_replay \/ close_replay \/ shutdown
         \/ \E c \in Calls :
              /\ Posted(c)
              /\ c.call \notin {"Disconnect", "Shutdown", "Disconnected"}
  <1> DEFINE Goal == \E c \in Calls :
                       /\ Posted(c)
                       /\ c.call \notin {"Disconnect", "Shutdown", "Disconnected"}
  <1>0. ASSUME NEW c \in Calls, Posted(c),
               c.call \notin {"Disconnect", "Shutdown", "Disconnected"}
        PROVE  Goal
    BY <1>0
  <1> HIDE DEF Goal
  <1>1. connect \/ send_command \/ forfeit_request \/ fetch_match_history
        \/ request_match_replay => Goal
    BY <1>0 DEF connect, send_command, forfeit_request, fetch_match_history,
       request_match_replay, Calls
  <1>2. login \/ register_account \/ send_friend_request => Goal
    BY <1>0 DEF login, register_account, send_friend_request, Calls
  <1>3. respond_friend_request \/ send_unfriend_request \/ send_block_request
        \/ send_unblock_request => Goal
    <2>1. \A t \in ListTypes : lists[t] \subseteq Others
      BY DEF Typed, TypedData
    <2> QED BY <1>0, <2>1 DEF respond_friend_request, send_unfriend_request,
               send_block_request, send_unblock_request, Calls, ListTypes
  <1>4. queue_request \/ cancel_request => Goal
    <2>1. queued_mode \in ModeSet
      BY DEF Typed, TypedGui
    <2> QED BY <1>0, <2>1 DEF queue_request, cancel_request, Calls, ModeSet
  <1>5. interpret_message => Goal
    BY <1>0 DEF interpret_message, Calls
  <1> QED BY <1>1, <1>2, <1>3, <1>4, <1>5 DEF Clicks, Goal

-----------------------------------------------------------------------------
(* The history only grows.                                                 *)

LEMMA ChangeStateGrows ==
  ASSUME NEW t, NEW s, NEW h \in Races, change_state(t, s, h)
  PROVE  /\ ghost'.late = (h.late \/ (t \in Sessions /\ session[t].reported))
         /\ ghost'.crossed = (h.crossed \/ \E u \in Threads \ {t} : telling[u] # "none")
         /\ ghost'.doubled = h.doubled /\ ghost'.stale = h.stale
         /\ ghost'.overtaken = h.overtaken /\ ghost'.requeued = h.requeued
         /\ ghost'.kept = h.kept
  <1> DEFINE A == h.crossed \/ \E u \in Threads \ {t} : telling[u] # "none"
             B == h.late \/ (t \in Sessions /\ session[t].reported)
  <1>1. ghost' = [h EXCEPT !.crossed = A, !.late = B]
    BY DEF change_state
  <1>2. A \in BOOLEAN /\ B \in BOOLEAN
    OBVIOUS
  <1> HIDE DEF A, B
  <1>3. /\ ghost'.crossed = A /\ ghost'.late = B /\ ghost'.doubled = h.doubled
        /\ ghost'.stale = h.stale
        /\ ghost'.overtaken = h.overtaken /\ ghost'.requeued = h.requeued
        /\ ghost'.kept = h.kept
    BY <1>1 DEF Races
  <1> QED BY <1>3 DEF A, B

LEMMA TardyGrows ==
  ASSUME NEW i, ghost \in Races, Tardy(i)
  PROVE  /\ ghost'.late = (ghost.late \/ session[i].reported)
         /\ ghost'.crossed = ghost.crossed
         /\ ghost'.doubled = ghost.doubled /\ ghost'.stale = ghost.stale
         /\ ghost'.overtaken = ghost.overtaken
         /\ ghost'.requeued = ghost.requeued /\ ghost'.kept = ghost.kept
  <1> DEFINE B == ghost.late \/ session[i].reported
  <1>1. ghost' = [ghost EXCEPT !.late = B] /\ B \in BOOLEAN
    BY DEF Tardy
  <1> HIDE DEF B
  <1>2. /\ ghost'.late = B /\ ghost'.crossed = ghost.crossed
        /\ ghost'.doubled = ghost.doubled /\ ghost'.stale = ghost.stale
        /\ ghost'.overtaken = ghost.overtaken
        /\ ghost'.requeued = ghost.requeued /\ ghost'.kept = ghost.kept
    BY <1>1 DEF Races
  <1> QED BY <1>2 DEF B

SameRaces(h) ==
  /\ h.late = ghost.late /\ h.crossed = ghost.crossed
  /\ h.doubled = ghost.doubled /\ h.stale = ghost.stale
  /\ h.overtaken = ghost.overtaken /\ h.requeued = ghost.requeued
  /\ h.kept = ghost.kept

LEMMA StaleRaces ==
  ASSUME ghost \in Races, NEW b \in BOOLEAN
  PROVE  LET h == [ghost EXCEPT !.stale = b] IN
         /\ h \in Races /\ h.stale = b
         /\ h.late = ghost.late /\ h.crossed = ghost.crossed
         /\ h.doubled = ghost.doubled
         /\ h.overtaken = ghost.overtaken /\ h.requeued = ghost.requeued
         /\ h.kept = ghost.kept
  BY DEF Races

LEMMA KeptRaces ==
  ASSUME ghost \in Races, NEW b \in BOOLEAN
  PROVE  LET h == [ghost EXCEPT !.kept = b] IN
         /\ h \in Races /\ h.kept = b
         /\ h.late = ghost.late /\ h.crossed = ghost.crossed
         /\ h.doubled = ghost.doubled /\ h.stale = ghost.stale
         /\ h.overtaken = ghost.overtaken /\ h.requeued = ghost.requeued
  BY DEF Races

LEMMA DoubledRaces ==
  ASSUME ghost \in Races, NEW b \in BOOLEAN
  PROVE  LET h == [ghost EXCEPT !.doubled = b] IN
         /\ h \in Races /\ h.doubled = b
         /\ h.late = ghost.late /\ h.crossed = ghost.crossed
         /\ h.kept = ghost.kept /\ h.stale = ghost.stale
         /\ h.overtaken = ghost.overtaken /\ h.requeued = ghost.requeued
  BY DEF Races

LEMMA OvertakenRaces ==
  ASSUME ghost \in Races, NEW b \in BOOLEAN
  PROVE  LET h == [ghost EXCEPT !.overtaken = b] IN
         /\ h \in Races /\ h.overtaken = b
         /\ h.late = ghost.late /\ h.crossed = ghost.crossed
         /\ h.kept = ghost.kept /\ h.stale = ghost.stale
         /\ h.doubled = ghost.doubled /\ h.requeued = ghost.requeued
  BY DEF Races

LEMMA UnheardRaces ==
  ASSUME ghost \in Races, NEW b \in BOOLEAN
  PROVE  SameRaces([ghost EXCEPT !.unheard = b])
  BY DEF Races, SameRaces

\* The history of each call on the strand.
LEMMA StrandHistory ==
  ASSUME Typed, NEW c
  PROVE  /\ OnConnect /\ current + 1 \in Sessions /\ ~exit.asked =>
              /\ ghost'.doubled = (ghost.doubled \/ ~Idle)
              /\ ghost'.late = ghost.late /\ ghost'.crossed = ghost.crossed
              /\ ghost'.kept = ghost.kept /\ ghost'.stale = ghost.stale
              /\ ghost'.overtaken = ghost.overtaken
              /\ ghost'.requeued = ghost.requeued
         /\ OnRespond(c) =>
              /\ ghost'.overtaken = (ghost.overtaken \/ Overtakes(c))
              /\ ghost'.late = ghost.late /\ ghost'.crossed = ghost.crossed
              /\ ghost'.kept = ghost.kept /\ ghost'.stale = ghost.stale
              /\ ghost'.doubled = ghost.doubled
              /\ ghost'.requeued = ghost.requeued
         /\ OnQueue(c) =>
              /\ ghost'.requeued = (ghost.requeued \/ (c.call = "Queue" /\ Requeues))
              /\ ghost'.kept = (ghost.kept \/ (c.call = "Queue" /\ current \notin server.auth))
              /\ ghost'.late = ghost.late /\ ghost'.crossed = ghost.crossed
              /\ ghost'.stale = ghost.stale
              /\ ghost'.doubled = ghost.doubled
              /\ ghost'.overtaken = ghost.overtaken
         /\ OnShutdown => SameRaces(ghost')
         /\ Dropped \in Races
         /\ Dropped.kept = (ghost.kept \/ queued_mode # NO_MODE \/ updates # <<>>)
         /\ Dropped.late = ghost.late /\ Dropped.crossed = ghost.crossed
         /\ Dropped.doubled = ghost.doubled /\ Dropped.stale = ghost.stale
         /\ Dropped.overtaken = ghost.overtaken
         /\ Dropped.requeued = ghost.requeued
  <1>0. ghost \in Races
    BY DEF Typed, TypedState
  <1>1. ASSUME OnConnect, current + 1 \in Sessions, ~exit.asked
        PROVE  /\ ghost'.doubled = (ghost.doubled \/ ~Idle)
               /\ ghost'.late = ghost.late /\ ghost'.crossed = ghost.crossed
               /\ ghost'.kept = ghost.kept /\ ghost'.stale = ghost.stale
               /\ ghost'.overtaken = ghost.overtaken
               /\ ghost'.requeued = ghost.requeued
    <2> DEFINE b == ghost.doubled \/ ~Idle
    <2>1. ghost' = [ghost EXCEPT !.doubled = b] /\ b \in BOOLEAN
      BY <1>1 DEF OnConnect
    <2> HIDE DEF b
    <2>2. /\ ghost'.doubled = b
          /\ ghost'.late = ghost.late /\ ghost'.crossed = ghost.crossed
          /\ ghost'.kept = ghost.kept /\ ghost'.stale = ghost.stale
          /\ ghost'.overtaken = ghost.overtaken
          /\ ghost'.requeued = ghost.requeued
      BY <1>0, <2>1, DoubledRaces
    <2> QED BY <2>2 DEF b
  <1>2. ASSUME OnRespond(c)
        PROVE /\ ghost'.overtaken = (ghost.overtaken \/ Overtakes(c))
              /\ ghost'.late = ghost.late /\ ghost'.crossed = ghost.crossed
              /\ ghost'.kept = ghost.kept /\ ghost'.stale = ghost.stale
              /\ ghost'.doubled = ghost.doubled
              /\ ghost'.requeued = ghost.requeued
    <2> DEFINE b == ghost.overtaken \/ Overtakes(c)
    <2>1. ghost' = [ghost EXCEPT !.overtaken = b] /\ b \in BOOLEAN
      BY <1>2 DEF OnRespond
    <2> HIDE DEF b
    <2>2. /\ ghost'.overtaken = b
          /\ ghost'.late = ghost.late /\ ghost'.crossed = ghost.crossed
          /\ ghost'.kept = ghost.kept /\ ghost'.stale = ghost.stale
          /\ ghost'.doubled = ghost.doubled
          /\ ghost'.requeued = ghost.requeued
      BY <1>0, <2>1, OvertakenRaces
    <2> QED BY <2>2 DEF b
  <1>3. ASSUME OnQueue(c)
        PROVE /\ ghost'.requeued = (ghost.requeued \/ (c.call = "Queue" /\ Requeues))
              /\ ghost'.kept = (ghost.kept \/ (c.call = "Queue" /\ current \notin server.auth))
              /\ ghost'.late = ghost.late /\ ghost'.crossed = ghost.crossed
              /\ ghost'.stale = ghost.stale
              /\ ghost'.doubled = ghost.doubled
              /\ ghost'.overtaken = ghost.overtaken
    <2> DEFINE a == ghost.requeued \/ (c.call = "Queue" /\ Requeues)
               b == ghost.kept \/ (c.call = "Queue" /\ current \notin server.auth)
    <2>1. /\ ghost' = [ghost EXCEPT !.requeued = a, !.kept = b]
          /\ a \in BOOLEAN /\ b \in BOOLEAN
      BY <1>3 DEF OnQueue
    <2> HIDE DEF a, b
    <2>2. /\ ghost'.requeued = a /\ ghost'.kept = b
          /\ ghost'.late = ghost.late /\ ghost'.crossed = ghost.crossed
          /\ ghost'.stale = ghost.stale
          /\ ghost'.doubled = ghost.doubled
          /\ ghost'.overtaken = ghost.overtaken
      BY <1>0, <2>1 DEF Races
    <2> QED BY <2>2 DEF a, b
  <1>4. ASSUME OnShutdown
        PROVE  SameRaces(ghost')
    <2> DEFINE b == ghost.unheard \/
                 /\ current # 0
                 /\ ~session[current].live
                 /\ \/ session[current].stage # "Closed"
                    \/ session[current].reported
    <2>1. ghost' = [ghost EXCEPT !.unheard = b] /\ b \in BOOLEAN
      BY <1>4 DEF OnShutdown
    <2> HIDE DEF b
    <2> QED BY <1>0, <2>1, UnheardRaces
  <1>5. /\ Dropped \in Races
        /\ Dropped.kept = (ghost.kept \/ queued_mode # NO_MODE \/ updates # <<>>)
        /\ Dropped.late = ghost.late /\ Dropped.crossed = ghost.crossed
        /\ Dropped.doubled = ghost.doubled /\ Dropped.stale = ghost.stale
        /\ Dropped.overtaken = ghost.overtaken
        /\ Dropped.requeued = ghost.requeued
    <2> DEFINE b == ghost.kept \/ queued_mode # NO_MODE \/ updates # <<>>
    <2>1. Dropped = [ghost EXCEPT !.kept = b] /\ b \in BOOLEAN
      BY DEF Dropped
    <2> HIDE DEF b
    <2>2. /\ Dropped \in Races /\ Dropped.kept = b
          /\ Dropped.late = ghost.late /\ Dropped.crossed = ghost.crossed
          /\ Dropped.doubled = ghost.doubled /\ Dropped.stale = ghost.stale
          /\ Dropped.overtaken = ghost.overtaken
          /\ Dropped.requeued = ghost.requeued
      BY <1>0, <2>1, KeptRaces
    <2> QED BY <2>2 DEF b
  <1> QED BY <1>1, <1>2, <1>3, <1>4, <1>5

\* start_replay and close_replay.
LEMMA ReplayHistory ==
  ASSUME Typed
  PROVE  /\ start_replay => /\ ghost'.stale = (ghost.stale \/ state # "Lobby")
                            /\ state' = "Replaying"
         /\ close_replay => /\ ghost'.stale = (ghost.stale \/ state # "Replaying")
                            /\ state' = "Lobby"
         /\ start_replay \/ close_replay =>
              /\ \E h : change_state(GuiThread, state', h)
              /\ ghost'.late = ghost.late
              /\ ghost'.crossed = (ghost.crossed \/
                   \E u \in Threads \ {GuiThread} : telling[u] # "none")
              /\ ghost'.doubled = ghost.doubled
              /\ ghost'.overtaken = ghost.overtaken
              /\ ghost'.requeued = ghost.requeued
              /\ ghost'.kept = ghost.kept
  <1>0. ghost \in Races /\ GuiThread \notin Sessions
    BY ClientBounds DEF Typed, TypedState, GuiThread, Sessions
  <1>1. ASSUME NEW b \in BOOLEAN, NEW s,
               change_state(GuiThread, s, [ghost EXCEPT !.stale = b])
        PROVE  /\ ghost'.stale = b /\ state' = s
               /\ \E h : change_state(GuiThread, state', h)
               /\ ghost'.late = ghost.late
               /\ ghost'.crossed = (ghost.crossed \/
                    \E u \in Threads \ {GuiThread} : telling[u] # "none")
               /\ ghost'.doubled = ghost.doubled
               /\ ghost'.overtaken = ghost.overtaken
               /\ ghost'.requeued = ghost.requeued
               /\ ghost'.kept = ghost.kept
    <2> DEFINE h == [ghost EXCEPT !.stale = b]
    <2>1. /\ h \in Races /\ h.stale = b
          /\ h.late = ghost.late /\ h.crossed = ghost.crossed
          /\ h.doubled = ghost.doubled
          /\ h.overtaken = ghost.overtaken /\ h.requeued = ghost.requeued
          /\ h.kept = ghost.kept
      BY <1>0, <1>1, StaleRaces
    <2>2. change_state(GuiThread, s, h) /\ state' = s
      BY <1>1 DEF change_state
    <2> HIDE DEF h
    <2>3. \E g : change_state(GuiThread, state', g)
      BY <2>2
    <2>4. /\ ghost'.late = (h.late \/ (GuiThread \in Sessions /\ session[GuiThread].reported))
          /\ ghost'.crossed = (h.crossed \/
               \E u \in Threads \ {GuiThread} : telling[u] # "none")
          /\ ghost'.doubled = h.doubled /\ ghost'.stale = h.stale
          /\ ghost'.overtaken = h.overtaken /\ ghost'.requeued = h.requeued
          /\ ghost'.kept = h.kept
      BY <2>1, <2>2, ChangeStateGrows
    <2>5. ghost.late \in BOOLEAN
      BY <1>0 DEF Races
    <2>6. ghost'.late = ghost.late
      BY <1>0, <2>1, <2>4, <2>5
    <2>7. ghost'.crossed = (ghost.crossed \/
               \E u \in Threads \ {GuiThread} : telling[u] # "none")
      BY <2>1, <2>4, Zenon
    <2> QED BY <2>1, <2>2, <2>3, <2>4, <2>6, <2>7
  <1>2. ASSUME start_replay PROVE change_state(GuiThread, "Replaying",
                  [ghost EXCEPT !.stale = ghost.stale \/ state # "Lobby"])
    BY <1>2 DEF start_replay
  <1>3. ASSUME close_replay PROVE change_state(GuiThread, "Lobby",
                  [ghost EXCEPT !.stale = ghost.stale \/ state # "Replaying"])
    BY <1>3 DEF close_replay
  <1>4. CASE start_replay
    <2> DEFINE b == ghost.stale \/ state # "Lobby"
    <2>1. b \in BOOLEAN /\ change_state(GuiThread, "Replaying", [ghost EXCEPT !.stale = b])
      BY <1>2, <1>4
    <2> HIDE DEF b
    <2>2. ghost'.stale = b /\ state' = "Replaying"
      BY <1>1, <2>1
    <2>3. ghost'.stale = (ghost.stale \/ state # "Lobby")
      BY <2>2 DEF b
    <2> QED BY <1>1, <2>1, <2>2, <2>3 DEF start_replay, close_replay, Screens
  <1>5. CASE close_replay
    <2> DEFINE b == ghost.stale \/ state # "Replaying"
    <2>1. b \in BOOLEAN /\ change_state(GuiThread, "Lobby", [ghost EXCEPT !.stale = b])
      BY <1>3, <1>5
    <2> HIDE DEF b
    <2>2. ghost'.stale = b /\ state' = "Lobby"
      BY <1>1, <2>1
    <2>3. ghost'.stale = (ghost.stale \/ state # "Replaying")
      BY <2>2 DEF b
    <2> QED BY <1>1, <2>1, <2>2, <2>3 DEF start_replay, close_replay, Screens
  <1> QED BY <1>4, <1>5

LEMMA NextGrows ==
  ASSUME Typed, [Next]_vars
  PROVE  Grows
  <1>0. ghost \in Races /\ exit \in [asked : BOOLEAN, done : BOOLEAN]
    BY DEF Typed, TypedState, TypedStrand
  <1>a. ASSUME ghost' = ghost, exit' = exit PROVE Grows
    BY <1>a DEF Grows
  <1>b. ASSUME NEW t, NEW s, change_state(t, s, ghost), exit' = exit PROVE Grows
    BY <1>0, <1>b, ChangeStateGrows DEF Grows
  <1>c. ASSUME NEW i, Tardy(i), exit' = exit PROVE Grows
    BY <1>0, <1>c, TardyGrows DEF Grows
  <1>1. CASE UNCHANGED vars
    BY <1>1, <1>a DEF vars
  <1>2. CASE Clicks
    <2>1. CASE \E c : Posted(c)
      BY <1>a, <2>1 DEF Posted
    <2>2. CASE ClosePopup
      BY <1>a, <2>2 DEF ClosePopup
    <2>3. CASE start_replay \/ close_replay
      <3>1. exit' = exit
        BY <2>3 DEF start_replay, close_replay
      <3> QED BY <2>3, <3>1, ReplayHistory DEF Grows
    <2>4. CASE shutdown
      BY <1>0, <2>4 DEF shutdown, Grows
    <2> QED BY <1>2, <2>1, <2>2, <2>3, <2>4, ClickShape
  <1>3. CASE ShowScreen \/ UpdateButton \/ ShowPopup
    BY <1>3, <1>a DEF ShowScreen, UpdateButton, ShowPopup
  <1>4. CASE RunStrand
    <2> DEFINE c == Head(strand)
    <2>1. CASE OnConnect
      <3>1. exit' = exit
        BY <2>1 DEF OnConnect
      <3>2. CASE exit.asked \/ current + 1 \notin Sessions
        BY <1>a, <2>1, <3>1, <3>2 DEF OnConnect
      <3>3. CASE ~(exit.asked \/ current + 1 \notin Sessions)
        BY <2>1, <3>1, <3>3, StrandHistory DEF Grows
      <3> QED BY <3>2, <3>3
    <2>2. CASE Checked(c) \/ JustSend(c) \/ OnText(c)
      BY <1>a, <2>2 DEF Checked, JustSend, OnText, KeepState
    <2>3. CASE OnRespond(c)
      <3>1. exit' = exit
        BY <2>3 DEF OnRespond
      <3> QED BY <2>3, <3>1, StrandHistory DEF Grows
    <2>4. CASE OnQueue(c)
      <3>1. exit' = exit
        BY <2>4 DEF OnQueue
      <3> QED BY <2>4, <3>1, StrandHistory DEF Grows
    <2>5. CASE OnShutdown
      <3>1. exit'.asked = exit.asked
        BY <1>0, <2>5 DEF OnShutdown
      <3> QED BY <2>5, <3>1, StrandHistory DEF Grows, SameRaces
    <2>6. CASE OnDisconnect(c)
      <3>1. CASE exit.asked
        BY <1>0, <2>6, <3>1 DEF OnDisconnect, KeepState, Grows
      <3>2. CASE ~exit.asked
        <4>1. change_state(ClientStrand, "Disconnected", Dropped) /\ exit' = exit
          BY <2>6, <3>2 DEF OnDisconnect
        <4> HIDE DEF c
        <4>2. /\ Dropped \in Races /\ (ghost.kept => Dropped.kept)
              /\ Dropped.late = ghost.late /\ Dropped.crossed = ghost.crossed
              /\ Dropped.doubled = ghost.doubled /\ Dropped.stale = ghost.stale
              /\ Dropped.overtaken = ghost.overtaken
              /\ Dropped.requeued = ghost.requeued
          BY StrandHistory
        <4> QED BY <4>1, <4>2, ChangeStateGrows DEF Grows
      <3> QED BY <3>1, <3>2
    <2>7. CASE OnDisconnected
      BY <1>b, <2>7 DEF OnDisconnected
    <2> QED BY <1>4, <2>1, <2>2, <2>3, <2>4, <2>5, <2>6, <2>7 DEF RunStrand
  <1>5. CASE \E t \in Threads : Tell(t)
    BY <1>5, <1>a DEF Tell
  <1>6. ASSUME NEW i \in Sessions, on_message(i) PROVE Grows
    <2>1. exit' = exit
      BY <1>6 DEF on_message
    <2>2. CASE GoodAuth(i)
      BY <1>b, <1>c, <2>1, <2>2 DEF GoodAuth
    <2>3. CASE MatchStarting(i) \/ MatchInProgress(i) \/ \E m : MatchOver(i, m)
      BY <1>b, <2>1, <2>3 DEF MatchStarting, MatchInProgress, MatchOver
    <2>4. CASE QueueFailed(i) \/ \E m : UsersUpdated(i, m)
      BY <1>c, <2>1, <2>4 DEF QueueFailed, UsersUpdated
    <2>5. CASE PlayerView(i) \/ GameEnded(i) \/ Notice(i) \/ Refusal(i) \/ Malformed(i)
      BY <1>a, <2>1, <2>5 DEF PlayerView, GameEnded, Notice, Refusal, Malformed,
         KeepState
    <2> QED BY <1>6, <2>2, <2>3, <2>4, <2>5 DEF on_message
  <1>7. ASSUME NEW i \in Sessions,
               \/ on_resolve(i) \/ TimerExpires(i) \/ on_connect_timeout(i)
               \/ on_connect(i) \/ BadTLS(i)
        PROVE  Grows
    BY <1>a, <1>7 DEF on_resolve, TimerExpires, on_connect_timeout, on_connect,
       BadTLS, Quiet
  <1>8. ASSUME NEW i \in Sessions,
               \/ Read(i) \/ handle_read_error(i) \/ force_close_session(i)
               \/ Answer(i) \/ Unasked(i)
        PROVE  Grows
    BY <1>a, <1>8 DEF Read, handle_read_error, force_close_session, Answer,
       Unasked, Quiet
  <1>9. ASSUME NEW i \in Sessions, Verified(i) PROVE Grows
    BY <1>b, <1>9 DEF Verified
  <1> QED BY <1>1, <1>2, <1>3, <1>4, <1>5, <1>6, <1>7, <1>8, <1>9 DEF Next

LEMMA OnlyCurrent ==
  ASSUME Typed, Net, NEW i \in Sessions,
         \/ session[i].stage \in {"Resolving", "Connecting", "Handshake", "Up"}
         \/ session[i].stage = "Closed" /\ ~session[i].reported
         \/ i \in server.auth
         \/ session[i].live
  PROVE  /\ i = current /\ current # 0
         /\ i \in server.auth \/ session[i].live => session[i].stage = "Up"
  <1>1. Place(i) /\ Sound(i)
    BY DEF Net
  <1>2. /\ i \in server.auth \/ session[i].live => session[i].stage = "Up"
        /\ session[i].stage = "Up" => ~session[i].reported
    BY <1>1 DEF Sound
  <1>3. ~(i > current) /\ ~(i < current)
    BY <1>1, <1>2 DEF Place, Sound
  <1>4. i \in Nat /\ i # 0 /\ current \in Nat
    BY ClientBounds DEF Sessions, Typed, TypedStrand
  <1> QED BY <1>2, <1>3, <1>4

LEMMA PlaceSame ==
  ASSUME Net, NEW j \in Sessions, Same(j), current' = current,
         j \in server'.auth => j \in server.auth
  PROVE  Place(j)' /\ Sound(j)'
  <1>1. Place(j) /\ Sound(j)
    BY DEF Net
  <1>2. Place(j)'
    BY <1>1 DEF Place, Same
  <1>3. Sound(j)'
    BY <1>1 DEF Sound, Same
  <1> QED BY <1>2, <1>3

LEMMA NetOne ==
  ASSUME Typed, Net, current' = current, NEW i \in Sessions, SameBut(i),
         Place(i)', Sound(i)', session'[i].stage = "None" => session[i].stage = "None",
         \A j \in Sessions \ {i} : j \in server'.auth => j \in server.auth,
         Sole(strand', Due')
  PROVE  Net'
  <1>1. \A j \in Sessions : Place(j)' /\ Sound(j)'
    <2> SUFFICES ASSUME NEW j \in Sessions PROVE Place(j)' /\ Sound(j)'
      OBVIOUS
    <2>1. CASE j = i
      BY <2>1
    <2>2. CASE j # i
      BY <2>2, PlaceSame DEF SameBut
    <2> QED BY <2>1, <2>2
  <1>2. current' # 0 => session'[current'].stage # "None"
    <2> HAVE current' # 0
    <2>1. current \in Sessions /\ session[current].stage # "None"
      BY CurrentSession DEF Net
    <2>2. CASE current = i
      BY <2>1, <2>2
    <2>3. CASE current # i
      BY <2>1, <2>3 DEF SameBut, Same
    <2> QED BY <2>2, <2>3
  <1> QED BY <1>1, <1>2 DEF Net

\* Nothing of the session in use that Due looks at.
LEMMA SameDue ==
  ASSUME Typed, current' = current,
         current \in Sessions =>
            /\ session'[current].stage = session[current].stage
            /\ session'[current].reported = session[current].reported
  PROVE  Due' = Due
  <1>1. current # 0 => current \in Sessions
    BY CurrentSession
  <1> QED BY <1>1 DEF Due, Lost, Report

LEMMA NetSame ==
  ASSUME Typed, Net, current' = current, AllSame,
         server'.auth \subseteq server.auth, Sole(strand', Due)
  PROVE  Net'
  <1>1. Due' = Due
    BY SameDue DEF AllSame, Same
  <1>2. \A j \in Sessions : Place(j)' /\ Sound(j)'
    BY PlaceSame DEF AllSame
  <1>3. current' # 0 => session'[current'].stage # "None"
    BY CurrentSession DEF Net, AllSame, Same
  <1> QED BY <1>1, <1>2, <1>3 DEF Net

LEMMA NetClicks ==
  ASSUME Typed, Net, OneAtATime', Clicks
  PROVE  Net'
  <1>0. Sole(strand, Due) /\ strand \in Seq(Calls)
    BY DEF Net, Typed, TypedStrand
  <1>1. ASSUME NEW c \in Calls, Posted(c),
               c.call \notin {"Disconnect", "Shutdown", "Disconnected"}
        PROVE  Net'
    <2>1. AllSame /\ current' = current /\ server' = server
          /\ strand' = Append(strand, c)
      BY <1>1, NothingChanged DEF Posted, Post
    <2>2. Sole(strand', Due)
      BY <1>0, <1>1, <2>1, SolePost
    <2> QED BY <2>1, <2>2, NetSame
  <1>2. CASE ClosePopup \/ start_replay \/ close_replay
    <2>1. AllSame /\ current' = current /\ server' = server /\ strand' = strand
      BY <1>2, NothingChanged DEF ClosePopup, start_replay, close_replay, gui
    <2> QED BY <1>0, <2>1, NetSame
  <1>3. ~shutdown
    BY DEF shutdown, OneAtATime, Typed, TypedStrand
  <1> QED BY <1>1, <1>2, <1>3, ClickShape

LEMMA NetGui ==
  ASSUME Typed, Net,
         \/ ShowScreen \/ UpdateButton \/ ShowPopup \/ UNCHANGED vars
         \/ \E t \in Threads : Tell(t)
  PROVE  Net'
  <1>1. AllSame /\ current' = current /\ server' = server /\ strand' = strand
    BY NothingChanged DEF ShowScreen, UpdateButton, ShowPopup, vars, Tell
  <1> QED BY <1>1, NetSame DEF Net

LEMMA NetEnded ==
  ASSUME Typed, Net, NEW i \in Sessions, Ended(i), current' = current
  PROVE  Net'
  <1>1. i = current /\ current # 0
    BY OnlyCurrent DEF Ended
  <1>2. Place(i) /\ Sound(i)
    BY DEF Net
  <1>3. Due = {} /\ ~session[i].reported
    BY <1>1, <1>2 DEF Due, Lost, Ended, Sound
  <1>4. Due' = {Report(i)}
    BY <1>1, <1>3 DEF Due, Lost, Ended, Report
  <1>5. Sole(strand', Due')
    <2> DEFINE D == OfCall({"Disconnect"})
    <2>0. strand \in Seq(Calls) /\ strand' = Append(strand, Report(i))
      BY DEF Typed, TypedStrand, Ended
    <2>1. NoneBefore(strand, D, D) /\ \A c \in Items(strand) : c.call \notin {"Disconnect", "Shutdown"}
      BY <1>3 DEF Net, Sole
    <2>2. ~Has(strand, D)
      BY <2>1, HasItems DEF OfCall
    <2>3. NoneBefore(strand', D, D)
      <3> HIDE DEF D
      <3> QED BY <2>0, <2>1, <2>2, NoneBeforeAppend
    <2>4. Items(strand') = Items(strand) \cup {Report(i)}
      BY <2>0, ItemsAppend
    <2> QED BY <1>4, <2>1, <2>3, <2>4 DEF Sole
  <1>6. Place(i)'
    BY <1>1 DEF Place, Typed, TypedStrand
  <1>7. Sound(i)'
    <2>1. ~Has(Mail(i)', OfType({"Close"}))
      BY <1>2, HasItems DEF Ended, Sound
    <2> QED BY <1>2, <2>1 DEF Ended, Sound
  <1> QED BY <1>5, <1>6, <1>7, NetOne DEF Ended

LEMMA NetConnecting ==
  ASSUME Typed, Net, NEW i \in Sessions,
         \/ on_resolve(i) \/ TimerExpires(i) \/ on_connect_timeout(i)
         \/ on_connect(i) \/ Verified(i)
  PROVE  Net'
  <1>1. /\ Stepped(i) /\ current' = current /\ server' = server
        /\ strand' = strand
        /\ \/ /\ session'[i].stage = session[i].stage
              /\ session'[i].live = session[i].live
           \/ /\ session[i].stage \in {"Resolving", "Connecting", "Handshake"}
              /\ session'[i].stage \in {"Connecting", "Handshake", "Failed"}
              /\ session'[i].live = session[i].live
           \/ /\ session[i].stage = "Handshake" /\ session'[i].stage = "Up"
    <2>1. CASE \/ on_resolve(i) \/ TimerExpires(i) \/ on_connect_timeout(i)
               \/ on_connect(i)
      BY <2>1, ConnectingShape DEF Quiet
    <2>2. CASE Verified(i)
      BY <2>2, VerifiedShape DEF Verified
    <2> QED BY <2>1, <2>2
  <1>2. Place(i) /\ Sound(i)
    BY DEF Net
  <1>3. session'[i].stage # session[i].stage => i = current
    BY <1>1, OnlyCurrent
  <1>4. Place(i)'
    <2>1. CASE session'[i].stage = session[i].stage
      BY <1>1, <1>2, <2>1 DEF Place, Stepped
    <2>2. CASE i = current
      BY <1>1, <2>2 DEF Place, Typed, TypedStrand
    <2> QED BY <1>3, <2>1, <2>2
  <1>5. Sound(i)'
    BY <1>1, <1>2 DEF Sound, Stepped
  <1>6. Due' = Due
    <2> SUFFICES current \in Sessions => (Lost' <=> Lost)
      BY <1>1, CurrentSession DEF Due, Lost, Report
    <2>1. CASE current = i
      BY <1>1, <2>1 DEF Lost, Stepped
    <2>2. CASE current # i
      BY <1>1, <2>2 DEF Lost, Stepped, SameBut, Same
    <2> QED BY <2>1, <2>2
  <1>7. Sole(strand', Due')
    BY <1>1, <1>6 DEF Net
  <1> QED BY <1>1, <1>4, <1>5, <1>7, NetOne DEF Stepped

LEMMA NetTook ==
  ASSUME Typed, Net, NEW i \in Sessions, Took(i), current' = current,
         server'.auth = server.auth, Sole(strand', Due)
  PROVE  Net'
  <1>1. Place(i) /\ Sound(i)
    BY DEF Net
  <1>2. Place(i)'
    BY <1>1 DEF Place, Took
  <1>3. /\ Has(Mail(i)', OfType({"Close"})) => Has(Mail(i), OfType({"Close"}))
        /\ Mail(i) # <<>>
    BY HasTail, MailType DEF Took
  <1>4. Sound(i)'
    BY <1>1, <1>3 DEF Sound, Took
  <1>5. Due' = Due
    BY SameDue DEF Took, SameBut, Same
  <1> QED BY <1>2, <1>4, <1>5, NetOne DEF Took

LEMMA NetAdded ==
  ASSUME Typed, Net, NEW i \in Sessions, NEW ms \in Seq(Messages),
         Added(i, ms), ~Has(ms, OfType({"Close"})),
         session[i].stage = "Up",
         session[i].jammed => session'[i].out = <<>>,
         current' = current, strand' = strand,
         server'.auth \subseteq server.auth \cup {i},
         i \in server'.auth => ~session[i].jammed
  PROVE  Net'
  <1>1. Place(i) /\ Sound(i)
    BY DEF Net
  <1>2. Place(i)'
    BY <1>1 DEF Place, Added
  <1>3. ~Has(Mail(i)', OfType({"Close"}))
    <2>1. Items(Mail(i)') = Items(Mail(i)) \cup Items(ms)
      BY MailType, ItemsConcat DEF Added
    <2> QED BY <1>1, <2>1, HasItems DEF Sound
  <1>4. Sound(i)'
    BY <1>1, <1>3 DEF Sound, Added
  <1>5. Due' = Due
    BY SameDue DEF Added, SameBut, Same
  <1>6. Sole(strand', Due')
    BY <1>5 DEF Net
  <1> QED BY <1>2, <1>4, <1>6, NetOne DEF Added

LEMMA NetReading ==
  ASSUME Typed, Net, NEW i \in Sessions,
         \/ BadTLS(i) \/ Read(i) \/ handle_read_error(i)
         \/ force_close_session(i)
  PROVE  Net' /\ (Read(i) \/ Ended(i))
  <1>1. Place(i) /\ Sound(i)
    BY DEF Net
  <1>2. CASE BadTLS(i)
    <2>1. session[i].stage = "Handshake" /\ current' = current
      BY <1>2 DEF BadTLS
    <2>2. Ended(i)
      BY <1>1, <1>2, <2>1, BadTLSShape DEF Sound
    <2> QED BY <2>1, <2>2, NetEnded
  <1>3. CASE Read(i)
    <2>1. AllSame /\ current' = current /\ server' = server /\ strand' = strand
      BY <1>3, ReadShape DEF Read, Quiet
    <2> QED BY <1>3, <2>1, NetSame DEF Net
  <1>4. CASE handle_read_error(i)
    BY <1>4, ReadErrorShape, NetEnded DEF handle_read_error
  <1>5. ~force_close_session(i)
    <2> SUFFICES ASSUME force_close_session(i) PROVE FALSE
      OBVIOUS
    <2> DEFINE p == session[i].posted
    <2>1. /\ p # <<>> /\ Head(p).type = "Close" /\ p \in Seq(Messages)
          /\ session[i].wire \in Seq(Messages)
      BY MailType DEF force_close_session
    <2>2. Head(p) \in Items(p) /\ Head(p) \in Messages
      BY <2>1, ItemsTail, TailType
    <2>3. Items(Mail(i)) = Items(p) \cup Items(session[i].wire)
      BY <2>1, ItemsConcat DEF Mail
    <2>4. Head(p) \in OfType({"Close"})
      BY <2>1, <2>2 DEF OfType
    <2>5. Has(Mail(i), OfType({"Close"}))
      BY <2>2, <2>3, <2>4, HasItems
    <2> QED BY <1>1, <2>5 DEF Sound
  <1> QED BY <1>2, <1>3, <1>4, <1>5

\* A message that is handled, or the end of its session.
LEMMA MessageShape ==
  ASSUME Typed, Net, NEW i \in Sessions, on_message(i)
  PROVE  /\ Mail(i) # <<>> /\ Head(session[i].posted) = Head(Mail(i))
         /\ Head(Mail(i)) \in Messages
         /\ \/ Ended(i) /\ Malformed(i)
            \/ Took(i) /\ server' = server
  <1>0. session[i].posted # <<>> /\ (session[i].live => session[i].stage = "Up")
    BY DEF on_message, Net, Sound
  <1>1. /\ Mail(i) # <<>> /\ Head(session[i].posted) = Head(Mail(i))
    BY <1>0, MailType, TailConcat DEF Mail
  <1>2. Head(Mail(i)) \in Messages
    BY <1>1, MailType, TailType
  <1>3. CASE Malformed(i)
    BY <1>0, <1>1, <1>2, <1>3, MalformedShape
  <1>4. CASE session' = Popped(i) /\ server' = server
    BY <1>0, <1>1, <1>2, <1>4, PoppedShape
  <1>5. Malformed(i) \/ (session' = Popped(i) /\ server' = server)
    BY DEF on_message, GoodAuth, MatchStarting, MatchInProgress, PlayerView,
       MatchOver, GameEnded, QueueFailed, Notice, Refusal, UsersUpdated
  <1> QED BY <1>3, <1>4, <1>5

LEMMA FetchesAppended ==
  ASSUME NEW s \in Seq(Calls)
  PROVE  s \o <<Fetch("Friends"), Fetch("FriendRequests"), Fetch("Blocks")>>
         = Append(Append(Append(s, Fetch("Friends")), Fetch("FriendRequests")),
                  Fetch("Blocks"))
  <1> DEFINE a == Fetch("Friends")
             b == Fetch("FriendRequests")
             c == Fetch("Blocks")
             p == s \o <<a, b, c>>
             q == Append(Append(Append(s, a), b), c)
  <1>0. a \in Calls /\ b \in Calls /\ c \in Calls
    BY DEF Fetch, Calls, ListTypes
  <1> HIDE DEF a, b, c
  <1>1. p \in Seq(Calls) /\ Len(p) = Len(s) + 3 /\ Len(s) \in Nat
    BY <1>0
  <1>2. q \in Seq(Calls) /\ Len(q) = Len(s) + 3
    BY <1>0
  <1>3. ASSUME NEW k \in 1 .. Len(s) + 3 PROVE p[k] = q[k]
    BY <1>0
  <1> HIDE DEF p, q
  <1>4. p = q
    BY <1>1, <1>2, <1>3, SeqEqual
  <1> QED BY <1>4 DEF p, q, a, b, c

LEMMA NetMessage ==
  ASSUME Typed, Net, NEW i \in Sessions, on_message(i)
  PROVE  Net'
  <1>0. current' = current /\ strand \in Seq(Calls) /\ Sole(strand, Due)
    BY DEF on_message, Typed, TypedStrand, Net
  <1>1. CASE Ended(i)
    BY <1>0, <1>1, NetEnded
  <1>2. CASE ~Ended(i) /\ Took(i) /\ server' = server
    <2>1. CASE strand' = strand
      BY <1>0, <1>2, <2>1, NetTook
    <2>2. CASE strand' = strand \o <<Fetch("Friends"), Fetch("FriendRequests"),
                                     Fetch("Blocks")>>
      <3> DEFINE s1 == Append(strand, Fetch("Friends"))
                 s2 == Append(s1, Fetch("FriendRequests"))
                 s3 == Append(s2, Fetch("Blocks"))
      <3>1. strand' = s3
        BY <1>0, <2>2, FetchesAppended
      <3>2. \A t \in ListTypes : Fetch(t) \in Calls /\ Fetch(t).call = "Fetch"
        BY DEF Fetch, Calls
      <3>3. Sole(s1, Due) /\ s1 \in Seq(Calls)
        BY <1>0, <3>2, SolePost, AppendType DEF ListTypes
      <3> HIDE DEF s1
      <3>4. Sole(s2, Due) /\ s2 \in Seq(Calls)
        BY <3>2, <3>3, SolePost, AppendType DEF ListTypes
      <3> HIDE DEF s2
      <3>5. Sole(s3, Due)
        BY <3>2, <3>4, SolePost DEF ListTypes
      <3> QED BY <1>0, <1>2, <3>1, <3>5, NetTook
    <2>3. \/ strand' = strand
          \/ strand' = strand \o <<Fetch("Friends"), Fetch("FriendRequests"),
                                   Fetch("Blocks")>>
      <3>1. CASE Malformed(i)
        BY <1>2, <3>1, MalformedShape DEF on_message, Net, Sound
      <3>2. CASE ~Malformed(i)
        BY <3>2 DEF on_message, GoodAuth, MatchStarting, MatchInProgress, PlayerView,
           MatchOver, GameEnded, QueueFailed, Notice, Refusal, UsersUpdated
      <3> QED BY <3>1, <3>2
    <2> QED BY <2>1, <2>2, <2>3
  <1> QED BY <1>1, <1>2, MessageShape

LEMMA NetSent ==
  ASSUME Typed, Net, NEW c, Sent(c), current' = current, server' = server,
         Sole(strand', Due)
  PROVE  Net'
  <1>1. Due' = Due
    BY SameDue DEF Sent
  <1>2. CASE current = 0
    <2>1. AllSame
      BY <1>2, ClientBounds DEF Sent, SameBut, AllSame, Sessions
    <2> QED BY <2>1, NetSame
  <1>3. CASE current # 0
    <2>1. current \in Sessions
      BY <1>3, CurrentSession
    <2> DEFINE i == current
    <2>2. Place(i) /\ Sound(i)
      BY <2>1 DEF Net
    <2>3. /\ session'[i].stage = session[i].stage
          /\ session'[i].reported = session[i].reported
          /\ session'[i].live = session[i].live
          /\ session'[i].posted \o session'[i].wire = Mail(i)
          /\ IF session[i].stage = "Up" /\ ~session[i].jammed
             THEN session'[i].jammed = session[i].jammed
             ELSE session'[i].out = session[i].out
      BY <2>1 DEF Sent, Mail
    <2>4. PICK k \in Sessions : k = i
      BY <2>1
    <2>5. Place(k)'
      BY <2>2, <2>3, <2>4 DEF Place
    <2>6. Mail(k)' = Mail(k)
      BY <2>3, <2>4 DEF Mail
    <2>7. Sound(k)'
      BY <2>2, <2>3, <2>4, <2>6 DEF Sound
    <2>8. SameBut(k)
      BY <2>4 DEF Sent
    <2> QED BY <1>1, <2>3, <2>4, <2>5, <2>7, <2>8, NetOne
  <1> QED BY <1>2, <1>3

-----------------------------------------------------------------------------
(* What the server's steps do, kind by kind.                               *)

About(t, u) == [type |-> t, user |-> u]

\* The server's account of the user, but for one part.
SameAccount == UNCHANGED server
NewRelation(u, r) == /\ server'.auth = server.auth /\ server'.mode = server.mode
                     /\ server'.match = server.match
                     /\ server'.rel = [server.rel EXCEPT ![u] = r]
NewMode(x) == /\ server'.auth = server.auth /\ server'.mode = x
              /\ server'.match = server.match /\ server'.rel = server.rel
NewMatch(x, b) == /\ server'.auth = server.auth /\ server'.mode = x
                  /\ server'.match = b /\ server'.rel = server.rel

LEMMA RelatedShape ==
  ASSUME Typed, NEW u \in Others, NEW r, Related(u, r)
  PROVE  NewRelation(u, r)
  <1>1. server \in Account
    BY DEF Typed, TypedServer
  <1> DEFINE f == [server.rel EXCEPT ![u] = r]
  <1>2. server' = [server EXCEPT !.rel = f]
    BY <1>1 DEF Related, Account
  <1> HIDE DEF f
  <1>3. /\ server'.auth = server.auth /\ server'.mode = server.mode
        /\ server'.match = server.match /\ server'.rel = f
    BY <1>1, <1>2 DEF Account
  <1> QED BY <1>3 DEF f, NewRelation

LEMMA UserShape ==
  ASSUME Typed, NEW i \in Sessions, NEW c \in Calls,
         c.call \in {"Respond", "Unfriend", "Block", "Unblock"},
         AnswerUser(i, c)
  PROVE  LET u == c.user IN
         /\ u \in Others
         /\ \/ /\ c.call = "Respond" /\ server.rel[u] = "FriendRequests"
               /\ NewRelation(u, "Friends")
               /\ Answered(i, <<About("FriendAdded", u)>>)
            \/ /\ c.call = "Respond" /\ server.rel[u] = "FriendRequests"
               /\ NewRelation(u, "none") /\ Answered(i, <<>>)
            \/ /\ c.call = "Unfriend" /\ server.rel[u] = "Friends"
               /\ NewRelation(u, "none")
               /\ Answered(i, <<About("FriendRemoved", u)>>)
            \/ /\ c.call = "Block" /\ server.rel[u] # "Blocks"
               /\ NewRelation(u, "Blocks")
               /\ Answered(i, <<About("Blocked", u)>>)
            \/ /\ c.call = "Unblock" /\ server.rel[u] = "Blocks"
               /\ NewRelation(u, "none")
               /\ Answered(i, <<About("Unblocked", u)>>)
            \/ /\ c.call = "Respond" => server.rel[u] # "FriendRequests"
               /\ SameAccount /\ Answered(i, <<>>)
  <1> DEFINE u == c.user
  <1>1. u \in Others
    BY CallFields
  <1>2. <<>> \in Seq(Messages)
    OBVIOUS
  <1>3. \A t \in {"FriendAdded", "FriendRemoved", "Blocked", "Unblocked"} :
          <<About(t, u)>> \in Seq(Messages)
    BY <1>1, NewsMessages DEF About
  <1>4. Replied(i, <<>>) => Answered(i, <<>>)
    BY <1>2, RepliedShape
  <1>5. \A t \in {"FriendAdded", "FriendRemoved", "Blocked", "Unblocked"} :
          Replied(i, <<About(t, u)>>) => Answered(i, <<About(t, u)>>)
    BY <1>3, RepliedShape
  <1>6. \A r : Related(u, r) => NewRelation(u, r)
    BY <1>1, RelatedShape
  <1>7. \/ /\ c.call = "Respond" /\ server.rel[u] = "FriendRequests"
           /\ Related(u, "Friends") /\ Replied(i, <<About("FriendAdded", u)>>)
        \/ /\ c.call = "Respond" /\ server.rel[u] = "FriendRequests"
           /\ Related(u, "none") /\ Replied(i, <<>>)
        \/ /\ c.call = "Unfriend" /\ server.rel[u] = "Friends"
           /\ Related(u, "none") /\ Replied(i, <<About("FriendRemoved", u)>>)
        \/ /\ c.call = "Block" /\ server.rel[u] # "Blocks"
           /\ Related(u, "Blocks") /\ Replied(i, <<About("Blocked", u)>>)
        \/ /\ c.call = "Unblock" /\ server.rel[u] = "Blocks"
           /\ Related(u, "none") /\ Replied(i, <<About("Unblocked", u)>>)
        \/ /\ c.call = "Respond" => server.rel[u] # "FriendRequests"
           /\ SameAccount /\ Replied(i, <<>>)
    BY DEF AnswerUser, About, SameAccount
  <1> HIDE DEF u
  <1>8. \/ /\ c.call = "Respond" /\ server.rel[u] = "FriendRequests"
           /\ NewRelation(u, "Friends")
           /\ Answered(i, <<About("FriendAdded", u)>>)
        \/ /\ c.call = "Respond" /\ server.rel[u] = "FriendRequests"
           /\ NewRelation(u, "none") /\ Answered(i, <<>>)
        \/ /\ c.call = "Unfriend" /\ server.rel[u] = "Friends"
           /\ NewRelation(u, "none")
           /\ Answered(i, <<About("FriendRemoved", u)>>)
        \/ /\ c.call = "Block" /\ server.rel[u] # "Blocks"
           /\ NewRelation(u, "Blocks")
           /\ Answered(i, <<About("Blocked", u)>>)
        \/ /\ c.call = "Unblock" /\ server.rel[u] = "Blocks"
           /\ NewRelation(u, "none")
           /\ Answered(i, <<About("Unblocked", u)>>)
        \/ /\ c.call = "Respond" => server.rel[u] # "FriendRequests"
           /\ SameAccount /\ Answered(i, <<>>)
    BY <1>4, <1>5, <1>6, <1>7
  <1> QED BY <1>1, <1>8 DEF u

LEMMA MatchShape ==
  ASSUME Typed, NEW i \in Sessions, NEW c \in Calls, AnswerMatch(i, c)
  PROVE  \/ /\ c.call = "Queue" /\ (server.match \/ server.mode # NO_MODE)
            /\ SameAccount /\ Answered(i, <<Msg("QueueFailed")>>)
         \/ /\ c.call = "Queue" /\ ~server.match /\ server.mode = NO_MODE
            /\ NewMode(c.mode) /\ Answered(i, <<>>)
         \/ /\ c.call = "Cancel" /\ server.match
            /\ NewMode(NO_MODE) /\ Answered(i, <<Msg("QueueFailed")>>)
         \/ /\ c.call = "Cancel" /\ ~server.match
            /\ NewMode(NO_MODE) /\ Answered(i, <<>>)
         \/ /\ c.call = "Command" /\ SameAccount
            /\ \/ Answered(i, <<Msg("PlayerView")>>)
               \/ Answered(i, <<Msg("GameEnded")>>)
         \/ /\ c.call = "Forfeit" /\ server.match
            /\ NewMatch(server.mode, FALSE) /\ Answered(i, <<Msg("ForfeitMatch")>>)
         \/ /\ c.call = "Forfeit" /\ ~server.match
            /\ NewMatch(server.mode, FALSE) /\ Answered(i, <<>>)
  <1>1. server \in Account
    BY DEF Typed, TypedServer
  <1>2. Replied(i, <<>>) => Answered(i, <<>>)
    <2>1. <<>> \in Seq(Messages)
      OBVIOUS
    <2> QED BY <2>1, RepliedShape
  <1>3. \A t \in {"QueueFailed", "PlayerView", "GameEnded", "ForfeitMatch"} :
          Replied(i, <<Msg(t)>>) => Answered(i, <<Msg(t)>>)
    <2>1. \A t \in {"QueueFailed", "PlayerView", "GameEnded", "ForfeitMatch"} :
            <<Msg(t)>> \in Seq(Messages)
      BY PlainMessages DEF Msg
    <2> QED BY <2>1, RepliedShape
  <1>4. \A x : server' = [server EXCEPT !.mode = x] => NewMode(x)
    BY <1>1 DEF Account, NewMode
  <1>5. server' = [server EXCEPT !.match = FALSE] => NewMatch(server.mode, FALSE)
    BY <1>1 DEF Account, NewMatch
  <1>6. \/ /\ c.call = "Queue" /\ (server.match \/ server.mode # NO_MODE)
           /\ SameAccount /\ Replied(i, <<Msg("QueueFailed")>>)
        \/ /\ c.call = "Queue" /\ ~server.match /\ server.mode = NO_MODE
           /\ server' = [server EXCEPT !.mode = c.mode] /\ Replied(i, <<>>)
        \/ /\ c.call = "Cancel" /\ server.match
           /\ server' = [server EXCEPT !.mode = NO_MODE]
           /\ Replied(i, <<Msg("QueueFailed")>>)
        \/ /\ c.call = "Cancel" /\ ~server.match
           /\ server' = [server EXCEPT !.mode = NO_MODE] /\ Replied(i, <<>>)
        \/ /\ c.call = "Command" /\ SameAccount
           /\ \/ Replied(i, <<Msg("PlayerView")>>)
              \/ Replied(i, <<Msg("GameEnded")>>)
        \/ /\ c.call = "Forfeit" /\ server.match
           /\ server' = [server EXCEPT !.match = FALSE]
           /\ Replied(i, <<Msg("ForfeitMatch")>>)
        \/ /\ c.call = "Forfeit" /\ ~server.match
           /\ server' = [server EXCEPT !.match = FALSE] /\ Replied(i, <<>>)
    BY DEF AnswerMatch, Msg, SameAccount
  <1> QED BY <1>2, <1>3, <1>4, <1>5, <1>6

LEMMA NewsShape ==
  ASSUME Typed, NEW i \in Sessions, News(i)
  PROVE  \/ /\ server.mode # NO_MODE /\ ~server.match
            /\ NewMatch(NO_MODE, TRUE)
            /\ Wired(i, <<Msg("MatchStarting"), Msg("PlayerView")>>)
         \/ /\ server.mode # NO_MODE /\ NewMode(NO_MODE)
            /\ Wired(i, <<Msg("QueueFailed")>>)
         \/ /\ SameAccount /\ Wired(i, <<Msg("PlayerView")>>)
         \/ /\ server.match /\ NewMatch(server.mode, FALSE)
            /\ Wired(i, <<Msg("MatchOver")>>)
         \/ \E u \in Others :
              \/ /\ server.rel[u] = "none" /\ NewRelation(u, "FriendRequests")
                 /\ Wired(i, <<About("FriendRequest", u)>>)
              \/ /\ server.rel[u] = "none" /\ NewRelation(u, "Friends")
                 /\ Wired(i, <<About("FriendAdded", u)>>)
              \/ /\ server.rel[u] = "Friends" /\ NewRelation(u, "none")
                 /\ Wired(i, <<About("FriendRemoved", u)>>)
  <1>1. server \in Account
    BY DEF Typed, TypedServer
  <1>2. \A t \in {"QueueFailed", "PlayerView", "MatchOver"} :
          Wire(i, <<Msg(t)>>) => Wired(i, <<Msg(t)>>)
    <2>1. \A t \in {"QueueFailed", "PlayerView", "MatchOver"} :
            <<Msg(t)>> \in Seq(Messages)
      BY PlainMessages DEF Msg
    <2> QED BY <2>1, WireShape
  <1>3. Wire(i, <<Msg("MatchStarting"), Msg("PlayerView")>>)
        => Wired(i, <<Msg("MatchStarting"), Msg("PlayerView")>>)
    <2>1. <<Msg("MatchStarting"), Msg("PlayerView")>> \in Seq(Messages)
      BY PlainMessages DEF Msg
    <2> QED BY <2>1, WireShape
  <1>4. \A u \in Others : \A t \in {"FriendAdded", "FriendRemoved", "FriendRequest"} :
          Wire(i, <<About(t, u)>>) => Wired(i, <<About(t, u)>>)
    <2>1. \A u \in Others : \A t \in {"FriendAdded", "FriendRemoved", "FriendRequest"} :
            <<About(t, u)>> \in Seq(Messages)
      BY NewsMessages DEF About
    <2> QED BY <2>1, WireShape
  <1>5. /\ server' = [server EXCEPT !.mode = NO_MODE] => NewMode(NO_MODE)
        /\ server' = [server EXCEPT !.match = FALSE] => NewMatch(server.mode, FALSE)
        /\ server' = [server EXCEPT !.mode = NO_MODE, !.match = TRUE]
             => NewMatch(NO_MODE, TRUE)
    BY <1>1 DEF Account, NewMode, NewMatch
  <1>6. \A u \in Others : \A r : Related(u, r) => NewRelation(u, r)
    BY RelatedShape
  <1>7. CASE server.mode # NO_MODE /\ ~server.match
         /\ \/ /\ server' = [server EXCEPT !.mode = NO_MODE, !.match = TRUE]
               /\ Wire(i, <<[type |-> "MatchStarting"], [type |-> "PlayerView"]>>)
            \/ /\ server' = [server EXCEPT !.mode = NO_MODE]
               /\ Wire(i, <<[type |-> "QueueFailed"]>>)
    BY <1>2, <1>3, <1>5, <1>7 DEF Msg
  <1>8. CASE server.match
         /\ \/ Wire(i, <<[type |-> "PlayerView"]>>) /\ UNCHANGED server
            \/ /\ Wire(i, <<[type |-> "MatchOver"]>>)
               /\ server' = [server EXCEPT !.match = FALSE]
    BY <1>2, <1>5, <1>8 DEF Msg, SameAccount
  <1>9. ASSUME NEW u \in Others,
               \/ server.rel[u] = "none"
                  /\ \/ /\ Related(u, "FriendRequests")
                        /\ Wire(i, <<[type |-> "FriendRequest", user |-> u]>>)
                     \/ /\ Related(u, "Friends")
                        /\ Wire(i, <<[type |-> "FriendAdded", user |-> u]>>)
               \/ /\ server.rel[u] = "Friends"
                  /\ Related(u, "none")
                  /\ Wire(i, <<[type |-> "FriendRemoved", user |-> u]>>)
        PROVE  \/ /\ server.rel[u] = "none" /\ NewRelation(u, "FriendRequests")
                  /\ Wired(i, <<About("FriendRequest", u)>>)
               \/ /\ server.rel[u] = "none" /\ NewRelation(u, "Friends")
                  /\ Wired(i, <<About("FriendAdded", u)>>)
               \/ /\ server.rel[u] = "Friends" /\ NewRelation(u, "none")
                  /\ Wired(i, <<About("FriendRemoved", u)>>)
    BY <1>4, <1>6, <1>9 DEF About
  <1> QED BY <1>7, <1>8, <1>9 DEF News

\* What it says to one who is not logged in, and what says nothing new.
LEMMA AnswerShape ==
  ASSUME Typed, NEW i \in Sessions, Answer(i)
  PROVE  LET c == Head(session[i].out) IN
         /\ c \in Calls
         /\ \/ /\ c.call = "Login" /\ i \notin server.auth
               /\ server'.auth = {i} /\ server'.match = server.match
               /\ server'.rel = server.rel
               /\ server'.mode = IF server.auth = {} THEN server.mode ELSE NO_MODE
               /\ \/ server.match /\ Answered(i, <<Msg("GoodAuth"), Msg("MatchInProgress")>>)
                  \/ server.match /\ Answered(i, <<Msg("MatchInProgress"), Msg("GoodAuth")>>)
                  \/ ~server.match /\ Answered(i, <<Msg("GoodAuth")>>)
            \/ /\ c.call \in {"Login", "Register"} \/ i \notin server.auth
               /\ SameAccount
               /\ \/ Answered(i, <<Msg("Refusal")>>)
                  \/ Answered(i, <<Msg("Notice")>>)
            \/ /\ c.call = "Fetch" /\ c.list \in ListTypes /\ i \in server.auth
               /\ SameAccount
               /\ Answered(i, <<[type |-> "List", list |-> c.list,
                                 users |-> Of(c.list)]>>)
            \/ /\ c.call \in {"Respond", "Unfriend", "Block", "Unblock"}
               /\ i \in server.auth /\ AnswerUser(i, c)
            \/ /\ c.call \in {"Queue", "Cancel", "Command", "Forfeit"}
               /\ i \in server.auth /\ AnswerMatch(i, c)
            \/ /\ c.call \in {"Befriend", "Send", "History", "GetReplay"}
               /\ i \in server.auth /\ SameAccount /\ Answered(i, <<>>)
  <1> DEFINE c == Head(session[i].out)
  <1>1. c \in Calls
    BY MailType, TailType DEF Answer
  <1>2. CASE c.call = "Login" /\ AnswerLogin(i)
    BY <1>1, <1>2, LoginShape DEF SameAccount
  <1>3. CASE /\ \/ c.call = "Register"
                \/ c.call # "Login" /\ i \notin server.auth
             /\ Replied(i, <<[type |-> "Notice"]>>) /\ UNCHANGED server
    <2>1. <<Msg("Notice")>> \in Seq(Messages)
      BY PlainMessages DEF Msg
    <2>2. Answered(i, <<Msg("Notice")>>)
      BY <1>3, <2>1, RepliedShape DEF Msg
    <2> QED BY <1>1, <1>3, <2>2 DEF SameAccount
  <1>4. CASE /\ c.call = "Fetch" /\ i \in server.auth
             /\ Replied(i, <<[type |-> "List", list |-> c.list,
                           users |-> Of(c.list)]>>)
             /\ UNCHANGED server
    <2> DEFINE m == [type |-> "List", list |-> c.list, users |-> Of(c.list)]
    <2>1. c.list \in ListTypes /\ Of(c.list) \in SUBSET Others
      BY <1>1, <1>4, CallFields DEF Of
    <2>2. m \in Messages
      BY <2>1 DEF Messages
    <2>3. Replied(i, <<m>>)
      BY <1>4
    <2>4. <<m>> \in Seq(Messages)
      <3> HIDE DEF m
      <3> QED BY <2>2
    <2>5. Answered(i, <<m>>)
      <3> HIDE DEF m
      <3> QED BY <2>3, <2>4, RepliedShape
    <2> QED BY <1>1, <1>4, <2>1, <2>5 DEF SameAccount
  <1>5. CASE /\ c.call \in {"Befriend", "Send", "History", "GetReplay"}
             /\ i \in server.auth /\ Replied(i, <<>>) /\ UNCHANGED server
    <2>1. <<>> \in Seq(Messages)
      OBVIOUS
    <2>2. Answered(i, <<>>)
      BY <1>5, <2>1, RepliedShape
    <2> QED BY <1>1, <1>5, <2>2 DEF SameAccount
  <1> QED BY <1>1, <1>2, <1>3, <1>4, <1>5 DEF Answer

LEMMA NoClose ==
  /\ ~Has(<<>>, OfType({"Close"}))
  /\ \A m : m.type # "Close" => ~Has(<<m>>, OfType({"Close"}))
  /\ \A m, n : m.type # "Close" /\ n.type # "Close"
               => ~Has(<<m, n>>, OfType({"Close"}))
  BY DEF Has, OfType

LEMMA NetAnswer ==
  ASSUME Typed, Net, NEW i \in Sessions, Answer(i)
  PROVE  Net'
  <1> DEFINE c == Head(session[i].out)
  <1>0. /\ session[i].stage = "Up" /\ session[i].out # <<>>
        /\ current' = current /\ strand' = strand
    BY DEF Answer
  <1>1. ~session[i].jammed
    BY <1>0 DEF Net, Sound
  <1>a. \A t \in {"FriendAdded", "FriendRemoved", "FriendRequest", "Blocked",
                   "Unblocked"} : \A u \in Others : About(t, u) \in Messages
    BY DEF About, Messages
  <1>b. \A t \in {"GoodAuth", "MatchStarting", "MatchInProgress", "PlayerView",
            "ForfeitMatch", "MatchOver", "GameEnded", "QueueFailed", "Notice",
            "Refusal", "Malformed"} : Msg(t) \in Messages
    BY PlainMessages DEF Msg
  <1>c. \A m \in Messages, n \in Messages :
           <<>> \in Seq(Messages) /\ <<m>> \in Seq(Messages) /\ <<m, n>> \in Seq(Messages)
    OBVIOUS
  <1>2. ASSUME NEW ms \in Seq(Messages), Answered(i, ms),
               ~Has(ms, OfType({"Close"})),
               server'.auth \subseteq server.auth \cup {i}
        PROVE  Net'
    BY <1>0, <1>1, <1>2, NetAdded DEF Answered
  <1>3. ASSUME Answered(i, <<>>), server'.auth \subseteq server.auth \cup {i}
        PROVE  Net'
    BY <1>2, <1>3, <1>c, <1>b, NoClose
  <1>4. ASSUME NEW m \in Messages, m.type # "Close", Answered(i, <<m>>),
               server'.auth \subseteq server.auth \cup {i}
        PROVE  Net'
    BY <1>2, <1>4, <1>c, NoClose
  <1>5. ASSUME NEW m \in Messages, NEW n \in Messages, m.type # "Close",
               n.type # "Close", Answered(i, <<m, n>>),
               server'.auth \subseteq server.auth \cup {i}
        PROVE  Net'
    BY <1>2, <1>5, <1>c, NoClose
  <1>d. \A t : Msg(t).type = t /\ \A u : About(t, u).type = t
    BY DEF Msg, About
  <1>6. CASE /\ server'.auth = {i}
             /\ \/ Answered(i, <<Msg("GoodAuth"), Msg("MatchInProgress")>>)
                \/ Answered(i, <<Msg("MatchInProgress"), Msg("GoodAuth")>>)
                \/ Answered(i, <<Msg("GoodAuth")>>)
    BY <1>4, <1>5, <1>6, <1>b, <1>d
  <1>7. CASE SameAccount /\ \/ Answered(i, <<Msg("Refusal")>>)
                            \/ Answered(i, <<Msg("Notice")>>)
                            \/ Answered(i, <<>>)
    BY <1>3, <1>4, <1>7, <1>b, <1>d DEF SameAccount
  <1>8. CASE /\ SameAccount /\ c.list \in ListTypes
             /\ Answered(i, <<[type |-> "List", list |-> c.list,
                                 users |-> Of(c.list)]>>)
    <2> DEFINE m == [type |-> "List", list |-> c.list, users |-> Of(c.list)]
    <2>1. m \in Messages /\ m.type = "List" /\ Answered(i, <<m>>)
      BY <1>8 DEF Messages, Of
    <2> HIDE DEF m
    <2> QED BY <1>4, <1>8, <2>1 DEF SameAccount
  <1>9. CASE /\ c \in Calls
             /\ c.call \in {"Respond", "Unfriend", "Block", "Unblock"}
             /\ AnswerUser(i, c)
    <2> DEFINE u == c.user
    <2>1. /\ u \in Others /\ server'.auth = server.auth
          /\ \/ Answered(i, <<>>)
             \/ \E t \in {"FriendAdded", "FriendRemoved", "Blocked", "Unblocked"} :
                   Answered(i, <<About(t, u)>>)
      BY <1>9, UserShape DEF NewRelation, SameAccount
    <2> HIDE DEF u
    <2> QED BY <1>3, <1>4, <2>1, <1>a, <1>d
  <1>10. CASE c \in Calls /\ AnswerMatch(i, c)
    <2>1. /\ server'.auth = server.auth
          /\ \/ Answered(i, <<>>)
             \/ \E t \in {"QueueFailed", "PlayerView", "GameEnded", "ForfeitMatch"} :
                   Answered(i, <<Msg(t)>>)
      BY <1>10, MatchShape DEF NewMode, NewMatch, SameAccount
    <2> QED BY <1>3, <1>4, <2>1, <1>b, <1>d
  <1> QED BY <1>6, <1>7, <1>8, <1>9, <1>10, AnswerShape

LEMMA NetUnasked ==
  ASSUME Typed, Net, NEW i \in Sessions, Unasked(i)
  PROVE  Net'
  <1>0. session[i].stage = "Up" /\ current' = current /\ strand' = strand
    BY DEF Unasked
  <1>1. Sound(i)
    BY DEF Net
  <1>a. \A t \in {"FriendAdded", "FriendRemoved", "FriendRequest"} :
          \A u \in Others : About(t, u) \in Messages
    BY DEF About, Messages
  <1>b. \A t \in {"MatchStarting", "PlayerView", "MatchOver", "QueueFailed",
                  "Malformed"} : Msg(t) \in Messages
    BY PlainMessages DEF Msg
  <1>c. \A m \in Messages, n \in Messages :
           <<m>> \in Seq(Messages) /\ <<m, n>> \in Seq(Messages)
    OBVIOUS
  <1>d. \A t : Msg(t).type = t /\ \A u : About(t, u).type = t
    BY DEF Msg, About
  <1>2. ASSUME NEW ms \in Seq(Messages), Wired(i, ms),
               ~Has(ms, OfType({"Close"})), server'.auth = server.auth
        PROVE  Net'
    BY <1>0, <1>1, <1>2, NetAdded DEF Wired, Sound
  <1>3. ASSUME NEW m \in Messages, m.type # "Close", Wired(i, <<m>>),
               server'.auth = server.auth
        PROVE  Net'
    BY <1>2, <1>3, <1>c, NoClose
  <1>4. ASSUME NEW m \in Messages, NEW n \in Messages, m.type # "Close",
               n.type # "Close", Wired(i, <<m, n>>), server'.auth = server.auth
        PROVE  Net'
    BY <1>2, <1>4, <1>c, NoClose
  <1>5. CASE News(i)
    <2>1. /\ server'.auth = server.auth
          /\ \/ Wired(i, <<Msg("MatchStarting"), Msg("PlayerView")>>)
             \/ \E t \in {"QueueFailed", "PlayerView", "MatchOver"} :
                   Wired(i, <<Msg(t)>>)
             \/ \E t \in {"FriendAdded", "FriendRemoved", "FriendRequest"},
                   u \in Others : Wired(i, <<About(t, u)>>)
      BY <1>5, NewsShape DEF NewMode, NewMatch, NewRelation, SameAccount
    <2>2. CASE Wired(i, <<Msg("MatchStarting"), Msg("PlayerView")>>)
      BY <1>4, <2>1, <2>2, <1>b, <1>d
    <2>3. ASSUME NEW t \in {"QueueFailed", "PlayerView", "MatchOver"},
                 Wired(i, <<Msg(t)>>)
          PROVE  Net'
      BY <1>3, <2>1, <2>3, <1>b, <1>d
    <2>4. ASSUME NEW t \in {"FriendAdded", "FriendRemoved", "FriendRequest"},
                 NEW u \in Others, Wired(i, <<About(t, u)>>)
          PROVE  Net'
      BY <1>3, <2>1, <2>4, <1>a, <1>d
    <2> QED BY <2>1, <2>2, <2>3, <2>4
  <1>6. CASE Wire(i, <<[type |-> "Malformed"]>>) /\ UNCHANGED server
    <2>1. Wired(i, <<Msg("Malformed")>>)
      BY <1>6, <1>b, <1>c, WireShape DEF Msg
    <2> QED BY <1>3, <1>6, <2>1, <1>b, <1>d
  <1>7. CASE session' = [session EXCEPT ![i].peer = FALSE] /\ UNCHANGED server
    <2>1. AllSame
      BY <1>7, PeerShape
    <2> QED BY <1>0, <1>7, <2>1, NetSame DEF Net
  <1> QED BY <1>5, <1>6, <1>7 DEF Unasked

\* The report that is handled is the one of the session in use.
LEMMA DisconnectShape ==
  ASSUME Typed, Net, strand # <<>>, Head(strand).call = "Disconnect",
         OnDisconnect(Head(strand)), ~exit.asked
  PROVE  /\ Lost /\ current \in Sessions /\ Head(strand).by = current
         /\ SameBut(current) /\ current' = current
         /\ session'[current].stage = session[current].stage
         /\ session'[current].reported
         /\ session'[current].live = session[current].live
         /\ session'[current].jammed = session[current].jammed
         /\ session'[current].out = session[current].out
         /\ \A j \in Sessions : Mail(j)' = Mail(j)
         /\ Sole(Tail(strand), {})
         /\ strand' = <<[call |-> "Disconnected"]>> \o Tail(strand)
  <1> DEFINE c == Head(strand)
  <1>1. strand \in Seq(Calls) /\ Sole(strand, Due)
    BY DEF Typed, TypedStrand, Net
  <1>2. Sole(Tail(strand), {}) /\ c \in Due
    BY <1>1, SoleTail, DueReports
  <1>3. Lost /\ c.by = current
    BY <1>2 DEF Due, Report
  <1>4. current \in Sessions
    BY <1>3, CurrentSession DEF Lost
  <1>5. /\ session' = [session EXCEPT ![current].reported = TRUE]
        /\ strand' = <<[call |-> "Disconnected"]>> \o Tail(strand)
        /\ current' = current
    BY <1>3 DEF OnDisconnect
  <1>6. PICK k \in Sessions : k = current
    BY <1>4
  <1>7. session' = [session EXCEPT ![k].reported = TRUE]
    BY <1>5, <1>6
  <1>8. /\ SameBut(k)
        /\ session'[k].stage = session[k].stage
        /\ session'[k].reported
        /\ session'[k].live = session[k].live
        /\ session'[k].jammed = session[k].jammed
        /\ session'[k].out = session[k].out
        /\ Mail(k)' = Mail(k)
    BY <1>7, ReportedShape
  <1>9. \A j \in Sessions : Mail(j)' = Mail(j)
    BY <1>8 DEF SameBut, Same
  <1> QED BY <1>2, <1>3, <1>4, <1>5, <1>6, <1>8, <1>9

LEMMA ConnectShape ==
  ASSUME Typed, Net, OneAtATime', OnConnect
  PROVE  \/ AllSame /\ current' = current /\ ghost' = ghost
         \/ /\ Idle /\ current' = current + 1 /\ current + 1 \in Sessions
            /\ SameBut(current + 1)
            /\ session[current + 1].stage = "None"
            /\ session'[current + 1].stage = "Resolving"
            /\ session'[current + 1].reported = session[current + 1].reported
            /\ session'[current + 1].live = session[current + 1].live
            /\ session'[current + 1].jammed = session[current + 1].jammed
            /\ session'[current + 1].out = session[current + 1].out
            /\ \A j \in Sessions : Mail(j)' = Mail(j)
  <1>0. exit' = exit /\ ~exit.asked
    BY DEF OnConnect, OneAtATime
  <1>1. CASE current + 1 \notin Sessions
    BY <1>1, NothingChanged DEF OnConnect
  <1>2. CASE current + 1 \in Sessions
    <2>1. /\ current' = current + 1
          /\ session' = [session EXCEPT ![current + 1].stage = "Resolving"]
      BY <1>0, <1>2 DEF OnConnect
    <2>2. Idle
      BY <1>0, <1>2, StrandHistory DEF OneAtATime
    <2>3. PICK k \in Sessions : k = current + 1
      BY <1>2
    <2>4. session' = [session EXCEPT ![k].stage = "Resolving"]
      BY <2>1, <2>3
    <2>5. /\ Stepped(k) /\ session'[k].live = session[k].live
          /\ session'[k].stage = "Resolving"
      BY <2>4, OpenedShape
    <2>6. \A j \in Sessions : Mail(j)' = Mail(j)
      BY <2>5 DEF Stepped, SameBut, Same
    <2>7. k > current
      BY <2>3 DEF Typed, TypedStrand
    <2>8. session[k].stage = "None"
      BY <2>7 DEF Net, Place
    <2> QED BY <2>1, <2>2, <2>3, <2>5, <2>6, <2>8 DEF Stepped
  <1> QED BY <1>1, <1>2

LEMMA NetStrand ==
  ASSUME Typed, Net, OneAtATime', RunStrand
  PROVE  Net'
  <1> DEFINE c == Head(strand)
  <1>0. /\ strand \in Seq(Calls) /\ strand # <<>> /\ Sole(strand, Due)
        /\ server' = server /\ c \in Calls
    BY TailType DEF Typed, TypedStrand, Net, RunStrand
  <1>1. Sole(Tail(strand), Due) /\ c.call # "Shutdown"
    BY <1>0, SoleTail, DueReports
  <1>2. CASE OnConnect
    <2>1. strand' = Tail(strand)
      BY <1>2 DEF OnConnect
    <2>2. CASE AllSame /\ current' = current
      BY <1>0, <1>1, <2>1, <2>2, NetSame
    <2>3. CASE ~(AllSame /\ current' = current)
      <3>1. PICK k \in Sessions : k = current + 1
        BY <1>2, <2>3, ConnectShape
      <3>2. /\ Idle /\ current' = k /\ SameBut(k)
            /\ session[k].stage = "None"
            /\ session'[k].stage = "Resolving"
            /\ session'[k].reported = session[k].reported
            /\ session'[k].live = session[k].live
            /\ session'[k].jammed = session[k].jammed
            /\ session'[k].out = session[k].out
            /\ \A j \in Sessions : Mail(j)' = Mail(j)
        BY <1>2, <2>3, <3>1, ConnectShape
      <3>3. current \in Nat /\ k \in Nat
        BY <3>1, ClientBounds DEF Typed, TypedStrand, Sessions
      <3>4. ASSUME NEW j \in Sessions PROVE Place(j)' /\ Sound(j)'
        <4>0. Place(j) /\ Sound(j) /\ j \in Nat /\ j # 0
          BY DEF Net, Sessions
        <4>1. CASE j = k
          <5>1. Place(j)'
            BY <3>2, <3>3, <4>1 DEF Place
          <5>2. Sound(j)'
            BY <1>0, <3>2, <4>0, <4>1 DEF Sound
          <5> QED BY <5>1, <5>2
        <4>2. CASE j # k
          <5>1. Same(j)
            BY <3>2, <4>2 DEF SameBut
          <5>2. Sound(j)'
            BY <1>0, <4>0, <5>1 DEF Sound, Same
          <5>3. j > k => j > current
            BY <3>1, <3>3, <4>0
          <5>4. j < k => j < current \/ j = current
            BY <3>1, <3>3, <4>0
          <5>5. j = current => session[j].stage = "Failed" \/ session[j].reported
            BY <3>2, <4>0 DEF Idle
          <5>6. Place(j)'
            BY <3>2, <4>0, <5>1, <5>3, <5>4, <5>5 DEF Place, Same
          <5> QED BY <5>2, <5>6
        <4> QED BY <4>1, <4>2
      <3>5. Due = {}
        BY <3>2, CurrentSession DEF Idle, Due, Lost, Net, Sound
      <3>6. Due' = {}
        BY <3>2 DEF Due, Lost
      <3> QED BY <1>1, <2>1, <3>2, <3>4, <3>5, <3>6 DEF Net
    <2> QED BY <2>2, <2>3
  <1>3. CASE Checked(c) \/ JustSend(c) \/ OnRespond(c) \/ OnQueue(c)
    <2>1. strand' = Tail(strand) /\ current' = current
      BY <1>3 DEF Checked, JustSend, OnRespond, OnQueue
    <2>2. CASE Send(c)
      <3>1. Sent(c)
        BY <2>2, SendShape
      <3> QED BY <1>0, <1>1, <2>1, <3>1, NetSent
    <2>3. CASE ~Send(c)
      <3>1. UNCHANGED session
        BY <1>3, <2>3 DEF Checked, JustSend, OnRespond, OnQueue
      <3> QED BY <1>0, <1>1, <2>1, <3>1, NothingChanged, NetSame
    <2> QED BY <2>2, <2>3
  <1>4. CASE OnText(c)
    <2>1. /\ UNCHANGED <<session, current>>
          /\ \/ strand' = Tail(strand)
             \/ strand' = Append(Tail(strand), [call |-> "Send"])
      BY <1>4 DEF OnText
    <2>2. Sole(strand', Due)
      BY <1>0, <1>1, <2>1, SolePost, TailType
    <2> QED BY <1>0, <2>1, <2>2, NothingChanged, NetSame
  <1>5. CASE c.call = "Disconnect" /\ OnDisconnect(c)
    <2>0. ~exit.asked
      BY <1>5 DEF OnDisconnect, OneAtATime, Typed, TypedStrand
    <2>1. PICK k \in Sessions : k = current
      BY <1>0, <1>5, <2>0, DisconnectShape
    <2>2. /\ Lost
          /\ SameBut(k) /\ current' = current
          /\ session'[k].stage = session[k].stage
          /\ session'[k].reported
          /\ session'[k].live = session[k].live
          /\ session'[k].jammed = session[k].jammed
          /\ session'[k].out = session[k].out
          /\ Mail(k)' = Mail(k)
          /\ Sole(Tail(strand), {})
          /\ strand' = <<[call |-> "Disconnected"]>> \o Tail(strand)
      BY <1>0, <1>5, <2>0, <2>1, DisconnectShape
    <2>3. Due' = {}
      BY <2>1, <2>2 DEF Due, Lost
    <2>4. Sole(strand', {})
      <3> DEFINE d == [call |-> "Disconnected"]
                 D == OfCall({"Disconnect"})
      <3>0. d \in Calls /\ d \notin D /\ d.call = "Disconnected"
        BY DEF Calls, OfCall
      <3>1. Items(strand') = Items(<<d>>) \cup Items(Tail(strand))
        <4> DEFINE e == <<d>>
        <4>1. e \in Seq(Calls) /\ Tail(strand) \in Seq(Calls)
          BY <1>0, <3>0, TailType
        <4>2. strand' = e \o Tail(strand)
          BY <2>2
        <4> HIDE DEF e
        <4>3. Items(strand') = Items(e) \cup Items(Tail(strand))
          BY <4>1, <4>2, ItemsConcat
        <4> QED BY <4>3 DEF e
      <3>2. Items(<<d>>) = {d}
        BY DEF Items
      <3>3. \A x \in Items(strand') : x.call \notin {"Disconnect", "Shutdown"}
        <4> HIDE DEF d
        <4> QED BY <2>2, <3>0, <3>1, <3>2 DEF Sole
      <3>4. ~Has(strand', D)
        BY <3>3, HasItems DEF OfCall
      <3> QED BY <3>3, <3>4, NoneBeforeNone DEF Sole
    <2>5. Place(k)' /\ Sound(k)'
      <3>1. Place(k) /\ Sound(k)
        BY DEF Net
      <3>2. Place(k)'
        BY <2>1, <2>2, <3>1 DEF Place
      <3>3. Sound(k)'
        BY <1>0, <2>1, <2>2, <3>1 DEF Sound, Lost
      <3> QED BY <3>2, <3>3
    <2> QED BY <1>0, <2>2, <2>3, <2>4, <2>5, NetOne
  <1>6. CASE OnDisconnected
    <2>1. UNCHANGED <<session, current>> /\ strand' = Tail(strand)
      BY <1>6 DEF OnDisconnected
    <2> QED BY <1>0, <1>1, <2>1, NothingChanged, NetSame
  <1> QED BY <1>1, <1>2, <1>3, <1>4, <1>5, <1>6 DEF RunStrand

LEMMA NextNet == Typed /\ NetInv /\ [Next]_vars => NetInv'
  <1> SUFFICES ASSUME Typed, NetInv, [Next]_vars, OneAtATime' PROVE Net'
    BY DEF NetInv
  <1>1. Net
    BY NextGrows DEF NetInv, OneAtATime, Grows
  <1> QED BY <1>1, NetClicks, NetGui, NetConnecting, NetReading, NetMessage,
             NetAnswer, NetUnasked, NetStrand DEF Next

LEMMA InitNet == Init => Net
  <1> SUFFICES ASSUME Init PROVE Net
    OBVIOUS
  <1>1. strand = <<>> /\ MaxSessions \in Nat \ {0}
    BY ClientBounds DEF Init, Common
  <1>2. Sole(strand, Due)
    BY <1>1, EmptyQueue DEF Sole, Items
  <1>a. \A X : ~Has(<<>>, X)
    BY EmptyQueue
  <1>3. /\ current \in {0, 1}
        /\ server.auth \in {{}, {1}} /\ (server.auth = {1} => current = 1)
        /\ \A i \in Sessions :
             /\ session[i].posted = <<>> /\ session[i].wire = <<>>
             /\ session[i].out = <<>> /\ ~session[i].reported
             /\ ~session[i].jammed
             /\ IF current = 1 /\ i = 1 THEN session[i].stage = "Up"
                ELSE session[i].stage = "None" /\ ~session[i].live
    <2>1. CASE Started
      BY <2>1 DEF Started, NewSession
    <2>2. ASSUME NEW mode, NEW match, LoggedIn(mode, match)
          PROVE  <1>3!:
      <3>1. /\ current = 1 /\ server.auth = {1}
            /\ \A i \in Sessions : session[i] =
                 IF i = 1 THEN [NewSession EXCEPT !.stage = "Up", !.live = TRUE]
                 ELSE NewSession
        BY <2>2 DEF LoggedIn
      <3> DEFINE up == [NewSession EXCEPT !.stage = "Up", !.live = TRUE]
      <3>2. /\ up.posted = <<>> /\ up.wire = <<>> /\ up.out = <<>>
            /\ ~up.reported /\ ~up.jammed /\ up.stage = "Up"
        BY DEF NewSession
      <3>3. /\ NewSession.posted = <<>> /\ NewSession.wire = <<>>
            /\ NewSession.out = <<>> /\ ~NewSession.reported
            /\ ~NewSession.jammed /\ NewSession.stage = "None"
            /\ ~NewSession.live
        BY DEF NewSession
      <3>4. \A i \in Sessions : session[i] = IF i = 1 THEN up ELSE NewSession
        BY <3>1
      <3> HIDE DEF up
      <3> QED BY <3>1, <3>2, <3>3, <3>4
    <2> QED BY <2>1, <2>2 DEF Init
  <1>4. \A i \in Sessions : Mail(i) = <<>>
    <2>1. <<>> \o <<>> = <<>>
      OBVIOUS
    <2> QED BY <1>3, <2>1 DEF Mail
  <1>5. \A i \in Sessions : Sound(i)
    BY <1>3, <1>4, <1>a DEF Sound
  <1>6. \A i \in Sessions : Place(i)
    <2> SUFFICES ASSUME NEW i \in Sessions PROVE Place(i)
      OBVIOUS
    <2>1. i \in Nat /\ i >= 1
      BY DEF Sessions
    <2> QED BY <1>3, <2>1 DEF Place
  <1>7. current # 0 => session[current].stage # "None"
    BY <1>1, <1>3 DEF Sessions
  <1> QED BY <1>2, <1>5, <1>6, <1>7 DEF Net

-----------------------------------------------------------------------------
(* The screen.                                                             *)

Begins == OfType({"MatchStarting", "MatchInProgress"})
Ends == OfType({"MatchOver", "ForfeitMatch"})
Welcome == OfType({"GoodAuth"})
InGame == {"Lobby", "Playing", "Replaying"}

\* The page follows the state: the thread that changed it is about to say so,
\* or the GUI thread has been told, or shows it.
Told ==
  /\ \A t, u \in Threads :
       telling[t] # "none" /\ telling[u] # "none" => t = u
  /\ \A t \in Threads : telling[t] \in {"none", state}
  /\ (\A t \in Threads : telling[t] = "none") =>
       IF screens = <<>> THEN shown = state \/ state = "Disconnected"
                         ELSE screens[Len(screens)] = state

\* The second half of on_disconnect is always next.
Halved(s) == s # <<>> => ~Has(Tail(s), OfCall({"Disconnected"}))
First(s) == s # <<>> /\ Head(s).call = "Disconnected"

Halves ==
  /\ Halved(strand)
  /\ First(strand) =>
       current # 0 /\ \A i \in Sessions : i = current => session[i].reported

\* The state while i is the session in use.
PageOf(i) ==
  /\ session[i].stage \in {"Resolving", "Connecting", "Handshake", "Failed"}
       => state = "ConnectScreen"
  /\ session[i].stage = "Up" /\ i \notin server.auth =>
       /\ state = "LoginScreen"
       /\ ~Has(Mail(i), Begins) /\ ~Has(Mail(i), Ends) /\ ~Has(Mail(i), Welcome)
  /\ i \in server.auth =>
       /\ Final(state, {"Playing"}, Mail(i), Begins, Ends) <=> server.match
       /\ state \in InGame \/ Has(Mail(i), Welcome)
  /\ session[i].reported =>
       state = "ConnectScreen" \/ (state = "Disconnected" /\ First(strand))

Page ==
  /\ current = 0 => state = "ConnectScreen"
  /\ \A i \in Sessions : i = current => PageOf(i)

ScreenOK == Told /\ Halves /\ Page

ScreenInv ==
  OneAtATime /\ ~ghost.late /\ ~ghost.crossed /\ ~ghost.stale => ScreenOK

LEMMA ToldSame ==
  ASSUME Told, UNCHANGED <<state, telling, screens, shown>>
  PROVE  Told'
  BY DEF Told

LEMMA ToldMoved ==
  ASSUME Typed, NEW t \in Threads, NEW s \in States, state' = s,
         telling' = [telling EXCEPT ![t] = s],
         \A u \in Threads \ {t} : telling[u] = "none"
  PROVE  Told'
  <1>1. telling \in [Threads -> States \cup {"none"}]
    BY DEF Typed, TypedState
  <1>2. \A u \in Threads : telling'[u] = IF u = t THEN s ELSE "none"
    BY <1>1
  <1>3. s # "none"
    BY DEF States, Screens
  <1> QED BY <1>2, <1>3 DEF Told

LEMMA ToldChange ==
  ASSUME Typed, NEW t \in Threads, NEW s \in States, NEW h \in Races,
         change_state(t, s, h), ~ghost'.crossed
  PROVE  Told' /\ state' = s
  <1>1. \A u \in Threads \ {t} : telling[u] = "none"
    BY ChangeStateGrows
  <1> QED BY <1>1, ToldMoved DEF change_state

LEMMA ToldTell ==
  ASSUME Typed, Told, NEW t \in Threads, Tell(t)
  PROVE  Told'
  <1>1. /\ telling \in [Threads -> States \cup {"none"}] /\ screens \in Seq(States)
        /\ state \in States
    BY DEF Typed, TypedState, TypedGui
  <1>2. /\ telling' = [telling EXCEPT ![t] = "none"] /\ telling[t] = state
        /\ screens' = Append(screens, state) /\ state' = state
    BY DEF Tell, Told
  <1>3. \A u \in Threads : telling'[u] = "none"
    BY <1>1, <1>2 DEF Told, Tell
  <1>4. screens' # <<>> /\ screens'[Len(screens')] = state
    BY <1>1, <1>2
  <1> QED BY <1>2, <1>3, <1>4 DEF Told

LEMMA ToldShow ==
  ASSUME Typed, Told, ShowScreen
  PROVE  Told'
  <1>1. /\ screens \in Seq(States) /\ state \in States /\ screens # <<>>
        /\ screens' = Tail(screens) /\ state' = state /\ telling' = telling
        /\ shown' = IF Head(screens) \in Screens THEN Head(screens) ELSE shown
    BY DEF Typed, TypedState, TypedGui, ShowScreen, core
  <1>2. CASE Tail(screens) = <<>>
    <2>1. Len(screens) = 1 /\ Head(screens) = screens[Len(screens)]
      <3> DEFINE q == Tail(screens)
      <3>1. Len(q) = Len(screens) - 1 /\ Len(screens) \in Nat
            /\ Head(screens) = screens[1]
        BY <1>1
      <3>a. q = <<>>
        BY <1>2
      <3> HIDE DEF q
      <3>2. Len(q) = 0
        BY <3>a
      <3>3. Len(screens) = 1
        BY <3>1, <3>2
      <3> QED BY <3>1, <3>3
    <2> QED BY <1>1, <1>2, <2>1 DEF Told, States
  <1>3. CASE Tail(screens) # <<>>
    <2>1. Tail(screens)[Len(Tail(screens))] = screens[Len(screens)]
      BY <1>1, <1>3
    <2> QED BY <1>1, <1>3, <2>1 DEF Told
  <1> QED BY <1>2, <1>3

LEMMA PostHalved ==
  ASSUME NEW s \in Seq(Calls), Halved(s), NEW c \in Calls,
         c.call # "Disconnected"
  PROVE  /\ Halved(Append(s, c)) /\ Append(s, c) \in Seq(Calls)
         /\ First(Append(s, c)) <=> First(s)
  <1> DEFINE X == OfCall({"Disconnected"})
  <1>0. c \notin X
    BY DEF OfCall
  <1>1. CASE s = <<>>
    <2>1. Append(s, c) = <<c>> /\ Tail(<<c>>) = <<>> /\ Head(<<c>>) = c
      BY <1>1
    <2>2. ~Has(<<>>, X)
      BY EmptyQueue
    <2> QED BY <1>1, <2>1, <2>2, AppendType DEF Halved, First
  <1>2. CASE s # <<>>
    <2> DEFINE e == <<c>>
    <2>1. e \in Seq(Calls) /\ Append(s, c) = s \o e
      BY AppendIsConcat
    <2>2. Tail(s) \in Seq(Calls)
      BY <1>2, TailType
    <2>3. Append(Tail(s), c) = Tail(s) \o e
      BY <2>2, AppendIsConcat
    <2> HIDE DEF e, X
    <2>4. /\ Tail(s) \o e = Tail(s \o e) /\ s \o e # <<>>
          /\ Head(s) = Head(s \o e)
      BY <1>2, <2>1, TailConcat
    <2>5. ~Has(Append(Tail(s), c), X)
      BY <1>0, <1>2, <2>2, HasAppend DEF Halved, X
    <2> QED BY <1>2, <2>1, <2>3, <2>4, <2>5, AppendType DEF Halved, First, X
  <1> QED BY <1>1, <1>2

LEMMA TakeHalved ==
  ASSUME NEW s \in Seq(Calls), Halved(s), s # <<>>
  PROVE  Halved(Tail(s)) /\ ~First(Tail(s)) /\ Tail(s) \in Seq(Calls)
  <1> DEFINE X == OfCall({"Disconnected"})
             t == Tail(s)
  <1>1. t \in Seq(Calls) /\ ~Has(t, X)
    BY TailType DEF Halved
  <1> HIDE DEF X, t
  <1>2. CASE t = <<>>
    BY <1>1, <1>2 DEF Halved, First, t
  <1>3. CASE t # <<>>
    <2>1. Head(t) \notin X /\ ~Has(Tail(t), X) /\ Head(t) \in Calls
      BY <1>1, <1>3, HasTail, TailType
    <2> QED BY <1>1, <2>1 DEF Halved, First, OfCall, X, t
  <1> QED BY <1>2, <1>3

LEMMA HalvesPost ==
  ASSUME Typed, Halves, current' = current,
         \A j \in Sessions : session'[j].reported = session[j].reported,
         \/ strand' = strand
         \/ \E c \in Calls : c.call # "Disconnected" /\ strand' = Append(strand, c)
  PROVE  Halves' /\ (First(strand') <=> First(strand))
  <1>1. strand \in Seq(Calls) /\ Halved(strand)
    BY DEF Typed, TypedStrand, Halves
  <1>2. Halved(strand') /\ (First(strand') <=> First(strand))
    BY <1>1, PostHalved
  <1> QED BY <1>2 DEF Halves

LEMMA HalvesTake ==
  ASSUME Typed, Halves, strand # <<>>,
         \/ strand' = Tail(strand)
         \/ \E c \in Calls : c.call # "Disconnected" /\ strand' = Append(Tail(strand), c)
  PROVE  Halves' /\ ~First(strand')
  <1>1. strand \in Seq(Calls) /\ Halved(strand)
    BY DEF Typed, TypedStrand, Halves
  <1>2. Halved(Tail(strand)) /\ ~First(Tail(strand)) /\ Tail(strand) \in Seq(Calls)
    BY <1>1, TakeHalved
  <1>3. Halved(strand') /\ ~First(strand')
    BY <1>2, PostHalved
  <1> QED BY <1>3 DEF Halves

\* Nothing changes that the page depends on.
LEMMA PageSame ==
  ASSUME Typed, Net, Page, current' = current, state' = state,
         server'.auth = server.auth, server'.match = server.match,
         First(strand) => First(strand'),
         \A j \in Sessions : /\ session'[j].stage = session[j].stage
                             /\ session'[j].reported = session[j].reported
                             /\ Mail(j)' = Mail(j)
  PROVE  Page'
  <1> SUFFICES ASSUME NEW i \in Sessions, i = current PROVE PageOf(i)'
    BY DEF Page
  <1>1. PageOf(i)
    BY DEF Page
  <1> QED BY <1>1 DEF PageOf

LEMMA PageTook ==
  ASSUME Typed, Net, Page, NEW i \in Sessions, Took(i), current' = current,
         server' = server,
         First(strand) => First(strand'),
         LET m == Head(Mail(i)) IN
           /\ m \in Begins \cup Ends \cup Welcome => ~session[i].reported
           /\ m \in Begins => state' = "Playing"
           /\ m \in Ends => state' = "Lobby"
           /\ m \in Welcome => state' = IF state = "Playing" THEN state ELSE "Lobby"
           /\ m \notin Begins \cup Ends \cup Welcome => state' = state
  PROVE  Page'
  <1> DEFINE m == Head(Mail(i))
  <1>0. /\ m \notin Begins \/ m \notin Ends
        /\ m \in Welcome => m \notin Begins /\ m \notin Ends
    BY DEF Begins, Ends, Welcome, OfType
  <1>a. /\ m \in Begins \cup Ends \cup Welcome => ~session[i].reported
        /\ m \in Begins => state' = "Playing"
        /\ m \in Ends => state' = "Lobby"
        /\ m \in Welcome => state' = IF state = "Playing" THEN state ELSE "Lobby"
        /\ m \notin Begins \cup Ends \cup Welcome => state' = state
    OBVIOUS
  <1>b. Mail(i) \in Seq(Messages) /\ Mail(i) # <<>> /\ Mail(i)' = Tail(Mail(i))
    BY MailType DEF Took
  <1>1. Sound(i)
    BY DEF Net
  <1>2. session[i].stage \in {"Up", "Closed"}
    BY <1>1, <1>b DEF Sound
  <1>3. i # current => state' = state
    BY <1>2, <1>a, OnlyCurrent
  <1>4. current = 0 => state' = "ConnectScreen"
    <2>1. current = 0 => i # current
      BY ClientBounds DEF Sessions
    <2> QED BY <2>1, <1>3 DEF Page
  <1> HIDE DEF m
  <1>5. ASSUME NEW j \in Sessions, j = current PROVE PageOf(j)'
    <2>0. PageOf(j)
      BY <1>5 DEF Page
    <2>1. CASE j # i
      <3>1. Same(j)
        BY <2>1 DEF Took, SameBut
      <3> QED BY <1>3, <1>5, <2>0, <2>1, <3>1 DEF PageOf, Same
    <2>2. CASE j = i
      <3>0. /\ session'[i].stage = session[i].stage
            /\ session'[i].reported = session[i].reported
        BY DEF Took
      <3>1. CASE session[i].reported
        <4>1. state' = state /\ session[i].stage = "Closed" /\ i \notin server.auth
          BY <1>1, <1>a, <3>1 DEF Sound
        <4> QED BY <2>0, <2>2, <3>0, <4>1 DEF PageOf
      <3>2. CASE ~session[i].reported /\ session[i].stage = "Closed"
        <4>1. i \notin server.auth
          BY <1>1, <3>2 DEF Sound
        <4> QED BY <2>2, <3>0, <3>2, <4>1 DEF PageOf
      <3>a. \A X : Has(Mail(i), X) <=> m \in X \/ Has(Tail(Mail(i)), X)
        BY <1>b, HasTail DEF m
      <3>3. CASE ~session[i].reported /\ session[i].stage = "Up" /\ i \notin server.auth
        <4>1. state = "LoginScreen" /\ m \notin Begins \cup Ends \cup Welcome
          BY <2>0, <2>2, <3>3, <3>a DEF PageOf
        <4>2. state' = state
          BY <1>a, <4>1
        <4> QED BY <1>b, <2>0, <2>2, <3>0, <3>3, <3>a, <4>1, <4>2 DEF PageOf
      <3>4. CASE ~session[i].reported /\ session[i].stage = "Up" /\ i \in server.auth
        <4>1. /\ Final(state, {"Playing"}, Mail(i), Begins, Ends) <=> server.match
              /\ state \in InGame \/ Has(Mail(i), Welcome)
          BY <2>0, <2>2, <3>4 DEF PageOf
        <4>2. state' \in {"Playing"} <=>
                m \in Begins \/ (state \in {"Playing"} /\ m \notin Ends)
          BY <1>0, <1>a
        <4>3. Final(state', {"Playing"}, Tail(Mail(i)), Begins, Ends)
                <=> Final(state, {"Playing"}, Mail(i), Begins, Ends)
          BY <1>b, <4>2, FinalTail DEF m
        <4>4. state' \in InGame \/ Has(Tail(Mail(i)), Welcome)
          BY <1>a, <3>a, <4>1 DEF InGame
        <4> QED BY <1>b, <2>2, <3>0, <3>4, <4>1, <4>3, <4>4 DEF PageOf
      <3> QED BY <1>2, <3>1, <3>2, <3>3, <3>4
    <2> QED BY <2>1, <2>2
  <1> QED BY <1>4, <1>5 DEF Page

\* The server adds something: then the session in use is i.
LEMMA PageGrown ==
  ASSUME Typed, Net, Page, NEW i \in Sessions, session[i].stage = "Up",
         NEW ms, Added(i, ms), current' = current, state' = state,
         i \in server.auth => i \in server'.auth,
         i \notin server'.auth =>
           ~Has(Mail(i)', Begins) /\ ~Has(Mail(i)', Ends) /\ ~Has(Mail(i)', Welcome),
         i \in server'.auth =>
           /\ Final(state, {"Playing"}, Mail(i)', Begins, Ends) <=> server'.match
           /\ state \in InGame \/ Has(Mail(i)', Welcome)
  PROVE  Page'
  <1>1. i = current /\ current # 0
    BY OnlyCurrent
  <1>2. PageOf(i) /\ Sound(i)
    BY <1>1 DEF Page, Net
  <1>3. PageOf(i)'
    <2>1. session'[i].stage = "Up" /\ ~session'[i].reported
      BY <1>2 DEF Added, Sound
    <2> QED BY <1>2, <2>1 DEF PageOf
  <1> QED BY <1>1, <1>3 DEF Page

\* What holds of the session in use while it is open.
LEMMA OpenPage ==
  ASSUME Typed, Net, Page, NEW i \in Sessions, session[i].stage = "Up"
  PROVE  /\ i = current
         /\ i \notin server.auth =>
              /\ state = "LoginScreen" /\ server.auth = {}
              /\ ~Has(Mail(i), Begins) /\ ~Has(Mail(i), Ends)
              /\ ~Has(Mail(i), Welcome)
         /\ i \in server.auth =>
              /\ Final(state, {"Playing"}, Mail(i), Begins, Ends) <=> server.match
              /\ state \in InGame \/ Has(Mail(i), Welcome)
  <1>1. i = current
    BY OnlyCurrent
  <1>2. PageOf(i)
    BY <1>1 DEF Page
  <1>3. i \notin server.auth => server.auth = {}
    <2>1. server.auth \subseteq Sessions
      BY DEF Typed, TypedServer, Account
    <2>2. \A j \in server.auth : j = current
      BY <2>1, OnlyCurrent
    <2> QED BY <1>1, <2>2
  <1> QED BY <1>1, <1>2, <1>3 DEF PageOf

LEMMA PagePlain ==
  ASSUME Typed, Net, Page, NEW i \in Sessions, session[i].stage = "Up",
         current' = current, state' = state,
         server'.auth = server.auth, server'.match = server.match,
         \/ Added(i, <<>>)
         \/ \E m \in Messages : /\ Added(i, <<m>>)
                               /\ m \notin Begins \cup Ends \cup Welcome
  PROVE  Page'
  <1> DEFINE M == Mail(i)
  <1>1. M \in Seq(Messages)
    BY MailType
  <1>2. /\ Mail(i)' = M
           \/ \E m \in Messages : /\ Mail(i)' = Append(M, m)
                                 /\ m \notin Begins \cup Ends \cup Welcome
        /\ \E ms : Added(i, ms)
    <2> HIDE DEF M
    <2>1. \A m \in Messages : M \o <<m>> = Append(M, m) /\ M \o <<>> = M
      BY <1>1, ConcatFew
    <2>2. M \o <<>> = M
      BY <1>1, ConcatEmptySeq
    <2> QED BY <2>1, <2>2 DEF Added, M
  <1> HIDE DEF M
  <1>3. /\ Has(Mail(i)', Begins) <=> Has(M, Begins)
        /\ Has(Mail(i)', Ends) <=> Has(M, Ends)
        /\ Has(Mail(i)', Welcome) <=> Has(M, Welcome)
        /\ Final(state, {"Playing"}, Mail(i)', Begins, Ends)
             <=> Final(state, {"Playing"}, M, Begins, Ends)
    <2>1. CASE Mail(i)' = M
      BY <2>1
    <2>2. ASSUME NEW m \in Messages, Mail(i)' = Append(M, m),
                 m \notin Begins \cup Ends \cup Welcome
          PROVE  <1>3!:
      <3>1. \A X : Has(Mail(i)', X) <=> Has(M, X) \/ m \in X
        BY <1>1, <2>2, HasAppend
      <3>2. Final(state, {"Playing"}, Mail(i)', Begins, Ends)
             <=> Final(state, {"Playing"}, M, Begins, Ends)
        BY <1>1, <2>2, FinalAppend
      <3> QED BY <2>2, <3>1, <3>2
    <2> QED BY <1>2, <2>1, <2>2
  <1> QED BY <1>2, <1>3, OpenPage, PageGrown DEF M

\* A match begins or ends.
LEMMA PageMatch ==
  ASSUME Typed, Net, Page, NEW i \in Sessions, session[i].stage = "Up",
         i \in server.auth, current' = current, state' = state,
         server'.auth = server.auth, server'.match \in BOOLEAN,
         NEW a \in Messages, NEW b \in Messages,
         \/ Added(i, <<a>>)
         \/ Added(i, <<a, b>>) /\ b \notin Begins \cup Ends \cup Welcome,
         \/ a \in Begins /\ server'.match
         \/ a \in Ends /\ ~server'.match
  PROVE  Page'
  <1> DEFINE M == Mail(i)
             N == Append(M, a)
  <1>1. M \in Seq(Messages)
    BY MailType
  <1>2. /\ M \o <<a>> = N /\ M \o <<a, b>> = Append(N, b)
        /\ N \in Seq(Messages)
    <2> HIDE DEF M
    <2> QED BY <1>1, ConcatFew, AppendType
  <1>3. /\ \/ Mail(i)' = N
           \/ Mail(i)' = Append(N, b) /\ b \notin Begins \cup Ends \cup Welcome
        /\ \E ms : Added(i, ms)
    BY <1>2 DEF Added
  <1>4. a \in Ends => a \notin Begins
    BY DEF Begins, Ends, OfType
  <1> HIDE DEF M
  <1>5. /\ Final(state, {"Playing"}, N, Begins, Ends) <=> server'.match
        /\ Has(M, Welcome) => Has(N, Welcome)
    <2>1. Final(state, {"Playing"}, N, Begins, Ends) <=>
            a \in Begins \/ (Final(state, {"Playing"}, M, Begins, Ends) /\ a \notin Ends)
      BY <1>1, FinalAppend
    <2>2. Has(M, Welcome) => Has(N, Welcome)
      BY <1>1, HasAppend
    <2> QED BY <1>4, <2>1, <2>2
  <1> HIDE DEF N
  <1>6. /\ Final(state, {"Playing"}, Mail(i)', Begins, Ends) <=> server'.match
        /\ Has(M, Welcome) => Has(Mail(i)', Welcome)
    <2>1. CASE Mail(i)' = N
      BY <1>5, <2>1
    <2>2. CASE Mail(i)' = Append(N, b) /\ b \notin Begins \cup Ends \cup Welcome
      <3>1. Final(state, {"Playing"}, Append(N, b), Begins, Ends) <=>
              b \in Begins \/ (Final(state, {"Playing"}, N, Begins, Ends) /\ b \notin Ends)
        BY <1>2, FinalAppend
      <3>2. Has(N, Welcome) => Has(Append(N, b), Welcome)
        BY <1>2, HasAppend
      <3> QED BY <1>5, <2>2, <3>1, <3>2
    <2> QED BY <1>3, <2>1, <2>2
  <1>7. state \in InGame \/ Has(M, Welcome)
    BY OpenPage DEF M
  <1> QED BY <1>3, <1>6, <1>7, PageGrown DEF M

\* The user logs in.
LEMMA PageLogin ==
  ASSUME Typed, Net, Page, NEW i \in Sessions, session[i].stage = "Up",
         i \notin server.auth, current' = current, state' = state,
         server'.auth = {i}, server'.match = server.match,
         \/ server.match /\ Added(i, <<Msg("GoodAuth"), Msg("MatchInProgress")>>)
         \/ server.match /\ Added(i, <<Msg("MatchInProgress"), Msg("GoodAuth")>>)
         \/ ~server.match /\ Added(i, <<Msg("GoodAuth")>>)
  PROVE  Page'
  <1> DEFINE M == Mail(i)
             g == Msg("GoodAuth")
             p == Msg("MatchInProgress")
             F(s) == Final(state, {"Playing"}, s, Begins, Ends)
  <1>1. /\ M \in Seq(Messages) /\ g \in Messages /\ p \in Messages
        /\ g \in Welcome /\ g \notin Begins /\ g \notin Ends
        /\ p \in Begins /\ p \notin Ends
    BY MailType, PlainMessages DEF Msg, Begins, Ends, Welcome, OfType
  <1> HIDE DEF M, g, p
  <1>2. /\ M \o <<g>> = Append(M, g)
        /\ M \o <<g, p>> = Append(Append(M, g), p)
        /\ M \o <<p, g>> = Append(Append(M, p), g)
        /\ Append(M, g) \in Seq(Messages) /\ Append(M, p) \in Seq(Messages)
    BY <1>1, ConcatFew, AppendType
  <1>3. /\ \/ server.match /\ Mail(i)' = Append(Append(M, g), p)
           \/ server.match /\ Mail(i)' = Append(Append(M, p), g)
           \/ ~server.match /\ Mail(i)' = Append(M, g)
        /\ \E ms : Added(i, ms)
    BY <1>2 DEF Added, M, g, p
  <1>4. ~F(M)
    <2>1. state = "LoginScreen" /\ ~Has(M, Begins)
      BY OpenPage DEF M
    <2> QED BY <2>1, PendingHas DEF Final
  <1>5. /\ ~F(Append(M, g)) /\ F(Append(Append(M, g), p))
        /\ F(Append(Append(M, p), g))
    <2> DEFINE N1 == Append(M, g)
               N2 == Append(M, p)
    <2>1. F(N1) <=> g \in Begins \/ (F(M) /\ g \notin Ends)
      BY <1>1, FinalAppend
    <2>2. F(N2) <=> p \in Begins \/ (F(M) /\ p \notin Ends)
      BY <1>1, FinalAppend
    <2>0. N1 \in Seq(Messages) /\ N2 \in Seq(Messages)
      BY <1>2
    <2> HIDE DEF N1, N2
    <2>3. F(Append(N1, p)) <=> p \in Begins \/ (F(N1) /\ p \notin Ends)
      BY <1>1, <2>0, FinalAppend
    <2>4. F(Append(N2, g)) <=> g \in Begins \/ (F(N2) /\ g \notin Ends)
      BY <1>1, <2>0, FinalAppend
    <2> HIDE DEF F
    <2> QED BY <1>1, <1>4, <2>1, <2>2, <2>3, <2>4 DEF N1, N2
  <1>6. /\ Has(Append(M, g), Welcome) /\ Has(Append(Append(M, g), p), Welcome)
        /\ Has(Append(Append(M, p), g), Welcome)
    <2>1. Has(Append(M, g), Welcome)
      BY <1>1, HasAppend
    <2> QED BY <1>1, <1>2, <2>1, HasAppend
  <1>7. (F(Mail(i)') <=> server'.match) /\ Has(Mail(i)', Welcome)
    BY <1>3, <1>5, <1>6
  <1> QED BY <1>3, <1>7, PageGrown

LEMMA PageReplay ==
  ASSUME Page, current' = current, server' = server, session' = session,
         state \in {"Lobby", "Replaying"}, state' \in {"Lobby", "Replaying"}
  PROVE  Page'
  <1>1. ASSUME NEW i \in Sessions, i = current PROVE PageOf(i)'
    <2>1. PageOf(i) /\ Mail(i)' = Mail(i)
      BY <1>1 DEF Page, Mail
    <2>2. \A s : Final(state', {"Playing"}, s, Begins, Ends)
                 <=> Final(state, {"Playing"}, s, Begins, Ends)
      BY DEF Final
    <2> QED BY <2>1, <2>2 DEF PageOf, InGame
  <1> QED BY <1>1 DEF Page

LEMMA ScreenClicks ==
  ASSUME Typed, Net, ScreenOK, Clicks, OneAtATime',
         ~ghost'.crossed, ~ghost'.stale
  PROVE  ScreenOK'
  <1>1. ASSUME NEW c \in Calls, Posted(c),
               c.call \notin {"Disconnect", "Shutdown", "Disconnected"}
        PROVE  ScreenOK'
    <2>1. /\ AllSame /\ current' = current /\ server' = server
          /\ strand' = Append(strand, c)
          /\ UNCHANGED <<state, telling, screens, shown>>
      BY <1>1, NothingChanged DEF Posted, Post, core, gui
    <2>2. Halves' /\ (First(strand') <=> First(strand))
      BY <1>1, <2>1, HalvesPost DEF ScreenOK, AllSame, Same
    <2> QED BY <2>1, <2>2, ToldSame, PageSame DEF ScreenOK, AllSame, Same
  <1>2. CASE ClosePopup
    <2>1. /\ AllSame /\ current' = current /\ server' = server
          /\ strand' = strand
          /\ UNCHANGED <<state, telling, screens, shown>>
      BY <1>2, NothingChanged DEF ClosePopup, core, gui
    <2>2. Halves'
      BY <2>1, HalvesPost DEF ScreenOK, AllSame, Same
    <2> QED BY <2>1, <2>2, ToldSame, PageSame DEF ScreenOK, AllSame, Same
  <1>3. CASE start_replay \/ close_replay
    <2>1. /\ UNCHANGED <<current, server, session, strand>>
      BY <1>3 DEF start_replay, close_replay
    <2>2. /\ state \in {"Lobby", "Replaying"} /\ state' \in {"Lobby", "Replaying"}
          /\ \A u \in Threads \ {GuiThread} : telling[u] = "none"
          /\ telling' = [telling EXCEPT ![GuiThread] = state']
      <3>1. \E h : change_state(GuiThread, state', h)
        BY <1>3, ReplayHistory
      <3>2. telling' = [telling EXCEPT ![GuiThread] = state']
        BY <3>1 DEF change_state
      <3>3. /\ state \in {"Lobby", "Replaying"} /\ state' \in {"Lobby", "Replaying"}
            /\ \A u \in Threads \ {GuiThread} : telling[u] = "none"
        BY <1>3, ReplayHistory
      <3> QED BY <3>2, <3>3
    <2>3. GuiThread \in Threads /\ state' \in States
      BY <2>2 DEF Threads, States, Screens
    <2>4. Told'
      BY <2>2, <2>3, ToldMoved
    <2>5. Halves'
      BY <2>1, HalvesPost DEF ScreenOK
    <2>6. Page'
      BY <2>1, <2>2, PageReplay DEF ScreenOK
    <2> QED BY <2>4, <2>5, <2>6 DEF ScreenOK
  <1>4. ~shutdown
    BY DEF shutdown, OneAtATime, Typed, TypedStrand
  <1> QED BY <1>1, <1>2, <1>3, <1>4, ClickShape

LEMMA ScreenGui ==
  ASSUME Typed, Net, ScreenOK,
         \/ ShowScreen \/ UpdateButton \/ ShowPopup \/ UNCHANGED vars
         \/ \E t \in Threads : Tell(t)
  PROVE  ScreenOK'
  <1>1. /\ AllSame /\ current' = current /\ server' = server
        /\ strand' = strand /\ state' = state
    BY NothingChanged DEF ShowScreen, UpdateButton, ShowPopup, vars, Tell, core
  <1>2. Halves' /\ Page'
    BY <1>1, HalvesPost, PageSame DEF ScreenOK, AllSame, Same
  <1>3. Told'
    <2>1. CASE UpdateButton \/ ShowPopup \/ UNCHANGED vars
      BY <2>1, ToldSame DEF ScreenOK, UpdateButton, ShowPopup, vars, core, gui
    <2> QED BY <2>1, ToldTell, ToldShow DEF ScreenOK
  <1> QED BY <1>2, <1>3 DEF ScreenOK

LEMMA ScreenConnecting ==
  ASSUME Typed, Net, ScreenOK, NEW i \in Sessions, ~ghost'.crossed,
         \/ on_resolve(i) \/ TimerExpires(i) \/ on_connect_timeout(i)
         \/ on_connect(i) \/ Verified(i)
  PROVE  ScreenOK'
  <1>1. /\ Stepped(i) /\ current' = current /\ server' = server
        /\ strand' = strand
        /\ \/ session'[i].stage = session[i].stage /\ state' = state
           \/ /\ session[i].stage \in {"Resolving", "Connecting", "Handshake"}
              /\ session'[i].stage \in {"Connecting", "Handshake", "Failed"}
              /\ state' = state
           \/ /\ session[i].stage = "Handshake" /\ session'[i].stage = "Up"
              /\ state' = "LoginScreen"
        /\ Told'
    <2>1. CASE \/ on_resolve(i) \/ TimerExpires(i) \/ on_connect_timeout(i)
               \/ on_connect(i)
      BY <2>1, ConnectingShape, ToldSame DEF Quiet, core, gui, ScreenOK
    <2>2. CASE Verified(i)
      <3>1. change_state(i, "LoginScreen", ghost)
        BY <2>2 DEF Verified
      <3>2. ghost \in Races /\ i \in Threads /\ "LoginScreen" \in States
        BY DEF Typed, TypedState, Threads, States, Screens
      <3>3. Told' /\ state' = "LoginScreen"
        BY <3>1, <3>2, ToldChange
      <3> QED BY <2>2, <3>3, VerifiedShape DEF Verified
    <2> QED BY <2>1, <2>2
  <1>2. Halves'
    BY <1>1, HalvesPost DEF ScreenOK, Stepped, SameBut, Same
  <1>3. Page'
    <2>1. CASE session'[i].stage = session[i].stage /\ state' = state
      BY <1>1, <2>1, PageSame DEF ScreenOK, Stepped, SameBut, Same
    <2>2. CASE session'[i].stage # session[i].stage
      <3>1. i = current /\ current # 0
        BY <1>1, <2>2, OnlyCurrent
      <3>2. Sound(i) /\ PageOf(i)
        BY <3>1 DEF Net, ScreenOK, Page
      <3>3. /\ ~session[i].reported /\ i \notin server.auth /\ Mail(i) = <<>>
            /\ state = "ConnectScreen"
        BY <1>1, <2>2, <3>2 DEF Sound, PageOf
      <3>4. /\ \A X : ~Has(Mail(i)', X)
            /\ ~session'[i].reported /\ i \notin server'.auth
        BY <1>1, <3>3, EmptyQueue DEF Stepped
      <3>5. PageOf(i)'
        BY <1>1, <2>2, <3>3, <3>4 DEF PageOf
      <3> QED BY <1>1, <3>1, <3>5 DEF Page
    <2> QED BY <1>1, <2>1, <2>2
  <1> QED BY <1>1, <1>2, <1>3 DEF ScreenOK

LEMMA ReportCall ==
  ASSUME NEW i \in Sessions
  PROVE  Report(i) \in Calls /\ Report(i).call = "Disconnect"
  BY DEF Report, Calls

LEMMA ScreenEnded ==
  ASSUME Typed, Net, ScreenOK, NEW i \in Sessions, Ended(i),
         current' = current, UNCHANGED <<state, telling, screens, shown>>
  PROVE  ScreenOK'
  <1>1. i = current /\ current # 0
    BY OnlyCurrent DEF Ended
  <1>2. Sound(i)
    BY DEF Net
  <1>3. ~session[i].reported
    BY <1>2 DEF Sound, Ended
  <1>4. Halves'
    <2>1. \A j \in Sessions : session'[j].reported = session[j].reported
      BY DEF Ended, SameBut, Same
    <2>2. strand' = Append(strand, Report(i))
      BY DEF Ended
    <2> QED BY <2>1, <2>2, ReportCall, HalvesPost DEF ScreenOK
  <1>5. PageOf(i)'
    BY <1>3 DEF PageOf, Ended
  <1>6. Page'
    BY <1>1, <1>5 DEF Page
  <1> QED BY <1>4, <1>6, ToldSame DEF ScreenOK

LEMMA ScreenReading ==
  ASSUME Typed, Net, ScreenOK, NEW i \in Sessions,
         \/ BadTLS(i) \/ Read(i) \/ handle_read_error(i)
         \/ force_close_session(i)
  PROVE  ScreenOK'
  <1>1. current' = current /\ UNCHANGED <<state, telling, screens, shown>>
    BY DEF BadTLS, Read, Quiet, handle_read_error, force_close_session, core, gui
  <1>2. CASE Read(i)
    <2>1. AllSame /\ server' = server /\ strand' = strand
      BY <1>2, ReadShape DEF Read, Quiet
    <2> QED BY <1>1, <2>1, ToldSame, HalvesPost, PageSame DEF ScreenOK, AllSame, Same
  <1>3. CASE Ended(i)
    BY <1>1, <1>3, ScreenEnded
  <1> QED BY <1>2, <1>3, NetReading

\* What a message does to the state and to the strand.
LEMMA MessageState ==
  ASSUME Typed, Net, NEW i \in Sessions, on_message(i), ~ghost'.late
  PROVE  LET m == Head(Mail(i)) IN
         /\ \/ UNCHANGED <<state, telling>>
            \/ /\ state' \in {"Lobby", "Playing"}
               /\ change_state(i, state', ghost)
         /\ m \in Begins \cup Ends \cup Welcome => ~session[i].reported
         /\ m \in Begins => state' = "Playing"
         /\ m \in Ends => state' = "Lobby"
         /\ m \in Welcome => state' = IF state = "Playing" THEN state ELSE "Lobby"
         /\ m \notin Begins \cup Ends \cup Welcome => state' = state
  <1> DEFINE m == Head(Mail(i))
  <1>0. m = Head(session[i].posted) /\ m \in Messages /\ ghost \in Races
    BY MessageShape DEF Typed, TypedState
  <1>a. /\ m \in Begins <=> m.type \in {"MatchStarting", "MatchInProgress"}
        /\ m \in Ends <=> m.type \in {"MatchOver", "ForfeitMatch"}
        /\ m \in Welcome <=> m.type = "GoodAuth"
    BY <1>0 DEF Begins, Ends, Welcome, OfType
  <1> HIDE DEF m
  <1>b. ASSUME NEW s, change_state(i, s, ghost) PROVE ~session[i].reported /\ state' = s
    <2>1. ~session[i].reported
      BY <1>0, <1>b, ChangeStateGrows
    <2> QED BY <1>b, <2>1 DEF change_state
  <1>1. CASE m.type = "GoodAuth" /\ GoodAuth(i)
    <2>1. CASE state = "Playing"
      <3>1. UNCHANGED <<state, telling>> /\ Tardy(i)
        BY <1>1, <2>1 DEF GoodAuth
      <3>2. ~session[i].reported
        BY <1>0, <3>1, TardyGrows
      <3> QED BY <1>a, <1>1, <2>1, <3>1, <3>2 DEF m
    <2>2. CASE state # "Playing"
      <3>1. change_state(i, "Lobby", ghost)
        BY <1>1, <2>2 DEF GoodAuth
      <3> QED BY <1>a, <1>b, <1>1, <2>2, <3>1 DEF m
    <2> QED BY <2>1, <2>2
  <1>2. CASE \/ m.type = "MatchStarting" /\ MatchStarting(i)
             \/ m.type = "MatchInProgress" /\ MatchInProgress(i)
    <2>1. change_state(i, "Playing", ghost)
      BY <1>2 DEF MatchStarting, MatchInProgress
    <2> QED BY <1>a, <1>b, <1>2, <2>1 DEF m
  <1>3. CASE m.type \in {"ForfeitMatch", "MatchOver"} /\ MatchOver(i, m)
    <2>1. change_state(i, "Lobby", ghost)
      BY <1>3 DEF MatchOver
    <2> QED BY <1>a, <1>b, <1>3, <2>1 DEF m
  <1>4. CASE \/ m.type = "PlayerView" /\ PlayerView(i)
             \/ m.type = "GameEnded" /\ GameEnded(i)
             \/ m.type = "QueueFailed" /\ QueueFailed(i)
             \/ m.type = "Notice" /\ Notice(i)
             \/ m.type = "Refusal" /\ Refusal(i)
             \/ /\ m.type \in {"List", "FriendAdded", "FriendRemoved",
                               "FriendRequest", "Blocked", "Unblocked"}
                /\ UsersUpdated(i, m)
             \/ m.type = "Malformed" /\ Malformed(i)
    <2>1. UNCHANGED <<state, telling>>
      BY <1>4 DEF PlayerView, GameEnded, QueueFailed, Notice, Refusal,
         UsersUpdated, Malformed, KeepState
    <2>2. m \notin Begins \cup Ends \cup Welcome
      BY <1>a, <1>4
    <2> QED BY <2>1, <2>2 DEF m
  <1> QED BY <1>0, <1>1, <1>2, <1>3, <1>4 DEF on_message

\* The strand as a message leaves it.
LEMMA MessageStrand ==
  ASSUME Typed, Net, NEW i \in Sessions, on_message(i), ~Ended(i)
  PROVE  \/ strand' = strand
         \/ strand' = strand \o <<Fetch("Friends"), Fetch("FriendRequests"),
                                  Fetch("Blocks")>>
  <1>1. CASE Malformed(i)
    BY <1>1, MalformedShape DEF on_message, Net, Sound
  <1>2. CASE ~Malformed(i)
    BY <1>2 DEF on_message, GoodAuth, MatchStarting, MatchInProgress, PlayerView,
       MatchOver, GameEnded, QueueFailed, Notice, Refusal, UsersUpdated
  <1> QED BY <1>1, <1>2

LEMMA ScreenMessage ==
  ASSUME Typed, Net, ScreenOK, NEW i \in Sessions, on_message(i),
         ~ghost'.late, ~ghost'.crossed
  PROVE  ScreenOK'
  <1>0. current' = current /\ UNCHANGED <<screens, shown>>
    BY DEF on_message
  <1>1. CASE Ended(i) /\ Malformed(i)
    <2>1. UNCHANGED <<state, telling>>
      BY <1>1 DEF Malformed, KeepState
    <2> QED BY <1>0, <1>1, <2>1, ScreenEnded
  <1>2. CASE ~Ended(i) /\ Took(i) /\ server' = server
    <2>1. Told'
      <3>1. CASE UNCHANGED <<state, telling>>
        BY <1>0, <3>1, ToldSame DEF ScreenOK
      <3>2. CASE /\ state' \in {"Lobby", "Playing"}
                 /\ change_state(i, state', ghost)
        <4>1. state' \in States /\ i \in Threads /\ ghost \in Races
          BY <3>2 DEF States, Screens, Threads, Typed, TypedState
        <4> QED BY <3>2, <4>1, ToldChange
      <3> QED BY <3>1, <3>2, MessageState
    <2>2. Halves' /\ (First(strand) <=> First(strand'))
      <3>0. /\ strand \in Seq(Calls) /\ Halved(strand)
            /\ \A j \in Sessions : session'[j].reported = session[j].reported
        BY <1>2 DEF Typed, TypedStrand, ScreenOK, Halves, Took, SameBut, Same
      <3>1. CASE strand' = strand
        BY <1>0, <3>0, <3>1, HalvesPost DEF ScreenOK
      <3>2. CASE strand' = strand \o <<Fetch("Friends"), Fetch("FriendRequests"),
                                       Fetch("Blocks")>>
        <4> DEFINE s1 == Append(strand, Fetch("Friends"))
                   s2 == Append(s1, Fetch("FriendRequests"))
                   s3 == Append(s2, Fetch("Blocks"))
        <4>1. strand' = s3
          BY <3>0, <3>2, FetchesAppended
        <4>2. \A t \in ListTypes : Fetch(t) \in Calls /\ Fetch(t).call = "Fetch"
          BY DEF Fetch, Calls
        <4>3. Halved(s1) /\ s1 \in Seq(Calls) /\ (First(s1) <=> First(strand))
          BY <3>0, <4>2, PostHalved DEF ListTypes
        <4> HIDE DEF s1
        <4>4. Halved(s2) /\ s2 \in Seq(Calls) /\ (First(s2) <=> First(s1))
          BY <4>2, <4>3, PostHalved DEF ListTypes
        <4> HIDE DEF s2
        <4>5. Halved(s3) /\ (First(s3) <=> First(s2))
          BY <4>2, <4>4, PostHalved DEF ListTypes
        <4> HIDE DEF s3
        <4> QED BY <1>0, <3>0, <4>1, <4>3, <4>4, <4>5 DEF Halves, ScreenOK
      <3> QED BY <1>2, <3>1, <3>2, MessageStrand
    <2>3. Page'
      BY <1>0, <1>2, <2>2, MessageState, PageTook DEF ScreenOK
    <2> QED BY <2>1, <2>2, <2>3 DEF ScreenOK
  <1>3. Took(i) => ~Ended(i)
    BY DEF Took, Ended
  <1> QED BY <1>1, <1>2, <1>3, MessageShape

\* The server's steps leave the client alone.
LEMMA ScreenServer ==
  ASSUME Typed, ScreenOK, current' = current,
         UNCHANGED <<state, telling, screens, shown, strand>>,
         \A j \in Sessions : session'[j].reported = session[j].reported,
         Page'
  PROVE  ScreenOK'
  BY ToldSame, HalvesPost DEF ScreenOK

LEMMA PlainMessage ==
  /\ \A t \in {"PlayerView", "GameEnded", "QueueFailed", "Notice", "Refusal",
               "Malformed"} :
       Msg(t) \in Messages \ (Begins \cup Ends \cup Welcome)
  /\ \A t \in {"FriendAdded", "FriendRemoved", "FriendRequest", "Blocked",
               "Unblocked"}, u \in Others :
       About(t, u) \in Messages \ (Begins \cup Ends \cup Welcome)
  /\ \A t \in ListTypes, S \in SUBSET Others :
       [type |-> "List", list |-> t, users |-> S]
         \in Messages \ (Begins \cup Ends \cup Welcome)
  /\ Msg("MatchStarting") \in Begins /\ Msg("MatchStarting") \in Messages
  /\ \A t \in {"MatchOver", "ForfeitMatch"} :
       Msg(t) \in Ends /\ Msg(t) \in Messages
  <1>1. \A t \in {"GoodAuth", "MatchStarting", "MatchInProgress", "PlayerView",
            "ForfeitMatch", "MatchOver", "GameEnded", "QueueFailed", "Notice",
            "Refusal", "Malformed"} : Msg(t) \in Messages
    BY PlainMessages DEF Msg
  <1>2. \A t \in {"FriendAdded", "FriendRemoved", "FriendRequest", "Blocked",
                   "Unblocked"} : \A u \in Others : About(t, u) \in Messages
    BY DEF About, Messages
  <1>3. \A t \in ListTypes, S \in SUBSET Others :
          [type |-> "List", list |-> t, users |-> S] \in Messages
    BY DEF Messages
  <1>4. \A t : Msg(t).type = t /\ \A u : About(t, u).type = t
    BY DEF Msg, About
  <1> QED BY <1>1, <1>2, <1>3, <1>4 DEF Begins, Ends, Welcome, OfType

LEMMA PageAnswer ==
  ASSUME Typed, Net, Page, NEW i \in Sessions, Answer(i)
  PROVE  Page'
  <1> DEFINE c == Head(session[i].out)
  <1>0. /\ session[i].stage = "Up" /\ session[i].out # <<>>
        /\ current' = current /\ strand' = strand /\ state' = state
    BY DEF Answer, core
  <1>1. ASSUME Answered(i, <<>>), server'.auth = server.auth,
               server'.match = server.match
        PROVE  Page'
    BY <1>0, <1>1, PagePlain DEF Answered
  <1>2. ASSUME NEW m \in Messages, m \notin Begins \cup Ends \cup Welcome,
               Answered(i, <<m>>), server'.auth = server.auth,
               server'.match = server.match
        PROVE  Page'
    BY <1>0, <1>2, PagePlain DEF Answered
  <1>3. CASE /\ i \notin server.auth
             /\ server'.auth = {i} /\ server'.match = server.match
             /\ \/ server.match /\ Answered(i, <<Msg("GoodAuth"), Msg("MatchInProgress")>>)
                \/ server.match /\ Answered(i, <<Msg("MatchInProgress"), Msg("GoodAuth")>>)
                \/ ~server.match /\ Answered(i, <<Msg("GoodAuth")>>)
    BY <1>0, <1>3, PageLogin DEF Answered
  <1>4. CASE SameAccount /\ \/ Answered(i, <<Msg("Refusal")>>)
                            \/ Answered(i, <<Msg("Notice")>>)
                            \/ Answered(i, <<>>)
    BY <1>1, <1>2, <1>4, PlainMessage DEF SameAccount
  <1>5. CASE /\ SameAccount /\ c.list \in ListTypes
             /\ Answered(i, <<[type |-> "List", list |-> c.list,
                               users |-> Of(c.list)]>>)
    <2> DEFINE m == [type |-> "List", list |-> c.list, users |-> Of(c.list)]
    <2>0. Of(c.list) \in SUBSET Others
      BY DEF Of
    <2>1. /\ m \in Messages /\ m \notin Begins \cup Ends \cup Welcome
          /\ Answered(i, <<m>>)
      BY <1>5, <2>0, PlainMessage
    <2> HIDE DEF m
    <2> QED BY <1>2, <1>5, <2>1 DEF SameAccount
  <1>6. CASE /\ c \in Calls
             /\ c.call \in {"Respond", "Unfriend", "Block", "Unblock"}
             /\ AnswerUser(i, c)
    <2> DEFINE u == c.user
    <2>1. /\ u \in Others /\ server'.auth = server.auth
          /\ server'.match = server.match
          /\ \/ Answered(i, <<>>)
             \/ \E t \in {"FriendAdded", "FriendRemoved", "Blocked", "Unblocked"} :
                   Answered(i, <<About(t, u)>>)
      BY <1>6, UserShape DEF NewRelation, SameAccount
    <2> HIDE DEF u
    <2> QED BY <1>1, <1>2, <2>1, PlainMessage
  <1>7. CASE c \in Calls /\ i \in server.auth /\ AnswerMatch(i, c)
    <2>1. /\ server'.auth = server.auth
          /\ \/ Answered(i, <<>>) /\ server'.match = server.match
             \/ /\ server'.match = server.match
                /\ \E t \in {"QueueFailed", "PlayerView", "GameEnded"} :
                     Answered(i, <<Msg(t)>>)
             \/ server'.match = FALSE /\ Answered(i, <<Msg("ForfeitMatch")>>)
      <3>1. server.match \in BOOLEAN
        BY DEF Typed, TypedServer, Account
      <3> QED BY <1>7, <3>1, MatchShape DEF NewMode, NewMatch, SameAccount
    <2>2. CASE server'.match = FALSE /\ Answered(i, <<Msg("ForfeitMatch")>>)
      BY <1>0, <1>7, <2>1, <2>2, PlainMessage, PageMatch DEF Answered
    <2> QED BY <1>1, <1>2, <2>1, <2>2, PlainMessage
  <1> QED BY <1>3, <1>4, <1>5, <1>6, <1>7, AnswerShape

LEMMA ScreenAnswer ==
  ASSUME Typed, Net, ScreenOK, NEW i \in Sessions, Answer(i)
  PROVE  ScreenOK'
  <1>1. /\ current' = current
        /\ UNCHANGED <<state, telling, screens, shown, strand>>
    BY DEF Answer, core, gui
  <1>2. Page'
    BY PageAnswer DEF ScreenOK
  <1>3. \A j \in Sessions : session'[j].reported = session[j].reported
    <2>1. \E ms : Answered(i, ms)
      BY AnswerShape, UserShape, MatchShape
    <2> QED BY <2>1 DEF Answered, Added, SameBut, Same
  <1> QED BY <1>1, <1>2, <1>3, ScreenServer

LEMMA ScreenUnasked ==
  ASSUME Typed, Net, ScreenOK, NEW i \in Sessions, Unasked(i)
  PROVE  ScreenOK'
  <1>0. /\ session[i].stage = "Up" /\ current' = current
        /\ UNCHANGED <<state, telling, screens, shown, strand>> /\ Page
    BY DEF Unasked, core, gui, ScreenOK
  <1>a. ASSUME NEW ms, Wired(i, ms)
        PROVE  \A j \in Sessions : session'[j].reported = session[j].reported
    BY <1>a DEF Wired, Added, SameBut, Same
  <1>1. ASSUME NEW m \in Messages, m \notin Begins \cup Ends \cup Welcome,
               Wired(i, <<m>>), server'.auth = server.auth,
               server'.match = server.match
        PROVE  ScreenOK'
    <2>1. Page'
      BY <1>0, <1>1, PagePlain DEF Wired
    <2> QED BY <1>0, <1>a, <1>1, <2>1, ScreenServer
  <1>2. CASE i \in server.auth /\ News(i)
    <2>1. /\ server'.auth = server.auth
          /\ \/ /\ server'.match = TRUE
                /\ Wired(i, <<Msg("MatchStarting"), Msg("PlayerView")>>)
             \/ /\ server'.match = FALSE /\ Wired(i, <<Msg("MatchOver")>>)
             \/ /\ server'.match = server.match
                /\ \/ \E t \in {"QueueFailed", "PlayerView"} : Wired(i, <<Msg(t)>>)
                   \/ \E t \in {"FriendAdded", "FriendRemoved", "FriendRequest"},
                         u \in Others : Wired(i, <<About(t, u)>>)
      BY <1>2, NewsShape DEF NewMode, NewMatch, NewRelation, SameAccount
    <2>2. CASE /\ server'.match = TRUE
               /\ Wired(i, <<Msg("MatchStarting"), Msg("PlayerView")>>)
      <3>1. Page'
        BY <1>0, <1>2, <2>1, <2>2, PlainMessage, PageMatch DEF Wired
      <3> QED BY <1>0, <1>a, <2>2, <3>1, ScreenServer
    <2>3. CASE server'.match = FALSE /\ Wired(i, <<Msg("MatchOver")>>)
      <3>1. Page'
        BY <1>0, <1>2, <2>1, <2>3, PlainMessage, PageMatch DEF Wired
      <3> QED BY <1>0, <1>a, <2>3, <3>1, ScreenServer
    <2> QED BY <1>1, <2>1, <2>2, <2>3, PlainMessage
  <1>3. CASE Wire(i, <<[type |-> "Malformed"]>>) /\ UNCHANGED server
    <2>1. Wired(i, <<Msg("Malformed")>>)
      <3>1. <<Msg("Malformed")>> \in Seq(Messages)
        BY PlainMessage
      <3> QED BY <1>3, <3>1, WireShape DEF Msg
    <2> QED BY <1>1, <1>3, <2>1, PlainMessage
  <1>4. CASE session' = [session EXCEPT ![i].peer = FALSE] /\ UNCHANGED server
    <2>1. AllSame
      BY <1>4, PeerShape
    <2>2. Page'
      BY <1>0, <1>4, <2>1, PageSame DEF AllSame, Same
    <2> QED BY <1>0, <2>1, <2>2, ScreenServer DEF AllSame, Same
  <1> QED BY <1>2, <1>3, <1>4 DEF Unasked

\* A step of the strand that does not touch the state or the sessions' ends.
LEMMA ScreenTaken ==
  ASSUME Typed, Net, ScreenOK, strand # <<>>,
         current' = current, server' = server,
         UNCHANGED <<state, telling, screens, shown>>,
         \A j \in Sessions : /\ session'[j].stage = session[j].stage
                             /\ session'[j].reported = session[j].reported
                             /\ Mail(j)' = Mail(j),
         ~First(strand),
         \/ strand' = Tail(strand)
         \/ \E c \in Calls : /\ c.call # "Disconnected"
                             /\ strand' = Append(Tail(strand), c)
  PROVE  ScreenOK'
  <1>1. Halves' /\ ~First(strand')
    BY HalvesTake DEF ScreenOK
  <1>2. Page'
    BY PageSame DEF ScreenOK
  <1> QED BY <1>1, <1>2, ToldSame DEF ScreenOK

LEMMA ScreenConnect ==
  ASSUME Typed, Net, ScreenOK, OneAtATime', OnConnect, strand # <<>>,
         ~First(strand), server' = server, UNCHANGED <<screens, shown>>
  PROVE  ScreenOK'
  <1>0. /\ strand' = Tail(strand)
        /\ UNCHANGED <<state, telling, screens, shown>>
    BY DEF OnConnect, core
  <1>1. CASE AllSame /\ current' = current
    BY <1>0, <1>1, ScreenTaken DEF AllSame, Same
  <1>2. CASE ~(AllSame /\ current' = current)
    <2>1. PICK k \in Sessions : k = current + 1
      BY <1>2, ConnectShape
    <2>2. /\ Idle /\ current' = k
          /\ session[k].stage = "None"
          /\ session'[k].stage = "Resolving"
          /\ session'[k].reported = session[k].reported
      BY <1>2, <2>1, ConnectShape
    <2>3. Halves' /\ ~First(strand')
      BY <1>0, HalvesTake DEF ScreenOK
    <2>4. state = "ConnectScreen"
      <3>1. CASE current = 0
        BY <3>1 DEF ScreenOK, Page
      <3>2. CASE current # 0
        <4>1. PICK i \in Sessions : i = current
          BY <3>2, CurrentSession
        <4>2. PageOf(i) /\ Sound(i)
          BY <4>1 DEF ScreenOK, Page, Net
        <4>3. session[i].stage = "Failed" \/ session[i].reported
          BY <2>2, <3>2, <4>1 DEF Idle
        <4> QED BY <4>2, <4>3 DEF PageOf
      <3> QED BY <3>1, <3>2
    <2>5. ~session[k].reported /\ k \notin server.auth
      BY <2>2 DEF Net, Sound
    <2>6. PageOf(k)'
      BY <1>0, <2>2, <2>4, <2>5 DEF PageOf
    <2>7. Page'
      BY <1>0, <2>2, <2>4, <2>6 DEF Page
    <2> QED BY <1>0, <2>3, <2>7, ToldSame DEF ScreenOK
  <1> QED BY <1>1, <1>2

LEMMA ScreenDisconnect ==
  ASSUME Typed, Net, ScreenOK, strand # <<>>, Head(strand).call = "Disconnect",
         OnDisconnect(Head(strand)), ~exit.asked, ~ghost'.crossed,
         server' = server
  PROVE  ScreenOK'
  <1>0. PICK k \in Sessions : k = current
    BY DisconnectShape
  <1>1. /\ Lost /\ SameBut(k) /\ current' = current
        /\ session'[k].stage = session[k].stage /\ session'[k].reported
        /\ Mail(k)' = Mail(k)
        /\ strand' = <<[call |-> "Disconnected"]>> \o Tail(strand)
    BY <1>0, DisconnectShape
  <1>2. change_state(ClientStrand, "Disconnected", Dropped)
    BY DEF OnDisconnect
  <1>3. Told' /\ state' = "Disconnected"
    <2>1. Dropped \in Races
      BY StrandHistory
    <2>2. ClientStrand \in Threads /\ "Disconnected" \in States
      BY DEF Threads, States
    <2> QED BY <1>2, <2>1, <2>2, ToldChange
  <1>4. Halved(strand') /\ First(strand')
    <2> DEFINE d == [call |-> "Disconnected"]
               e == <<d>>
               r == Tail(strand)
    <2>1. strand \in Seq(Calls) /\ r \in Seq(Calls) /\ d \in Calls
      BY TailType DEF Typed, TypedStrand, Calls
    <2>2. ~Has(r, OfCall({"Disconnected"}))
      BY DEF ScreenOK, Halves, Halved
    <2> HIDE DEF d, r
    <2>3. e \in Seq(Calls) /\ e # <<>> /\ Head(e) = d /\ Tail(e) = <<>>
      BY <2>1
    <2>4. strand' = e \o r
      BY <1>1 DEF d, r
    <2> HIDE DEF e
    <2>5. /\ Tail(e) \o r = Tail(e \o r) /\ e \o r # <<>>
          /\ Head(e) = Head(e \o r)
      BY <2>1, <2>3, TailConcat
    <2>6. Tail(e) \o r = r
      BY <2>1, <2>3, ConcatEmptySeq
    <2>7. Tail(strand') = r /\ Head(strand') = d /\ strand' # <<>>
      BY <2>3, <2>4, <2>5, <2>6
    <2>8. d.call = "Disconnected"
      BY DEF d
    <2> QED BY <2>2, <2>7, <2>8 DEF Halved, First
  <1>5. Halves'
    BY <1>0, <1>1, <1>4 DEF Halves, Lost
  <1>6. PageOf(k)'
    <2>1. session[k].stage = "Closed" /\ k \notin server.auth
      BY <1>0, <1>1 DEF Lost, Net, Sound
    <2> QED BY <1>1, <1>3, <1>4, <2>1 DEF PageOf
  <1>7. Page'
    BY <1>0, <1>1, <1>6 DEF Page, Lost
  <1> QED BY <1>3, <1>5, <1>7 DEF ScreenOK

LEMMA ScreenDisconnected ==
  ASSUME Typed, Net, ScreenOK, strand # <<>>, First(strand),
         OnDisconnected, ~ghost'.crossed, server' = server
  PROVE  ScreenOK'
  <1>1. /\ UNCHANGED <<session, current>> /\ strand' = Tail(strand)
        /\ change_state(ClientStrand, "ConnectScreen", ghost)
    BY DEF OnDisconnected
  <1>2. Told' /\ state' = "ConnectScreen"
    <2>1. /\ ClientStrand \in Threads /\ "ConnectScreen" \in States
          /\ ghost \in Races
      BY DEF Threads, States, Screens, Typed, TypedState
    <2> QED BY <1>1, <2>1, ToldChange
  <1>3. Halves'
    BY <1>1, HalvesTake DEF ScreenOK
  <1>4. ASSUME NEW i \in Sessions, i = current PROVE PageOf(i)'
    <2>1. session[i].reported /\ Sound(i)
      BY <1>4 DEF ScreenOK, Halves, Net
    <2>2. session[i].stage = "Closed" /\ i \notin server.auth
      BY <2>1 DEF Sound
    <2> QED BY <1>1, <1>2, <2>1, <2>2 DEF PageOf
  <1>5. Page'
    BY <1>1, <1>2, <1>4 DEF Page
  <1> QED BY <1>2, <1>3, <1>5 DEF ScreenOK

LEMMA ScreenStrand ==
  ASSUME Typed, Net, ScreenOK, OneAtATime', RunStrand, ~ghost'.crossed
  PROVE  ScreenOK'
  <1> DEFINE c == Head(strand)
  <1>0. /\ strand \in Seq(Calls) /\ strand # <<>> /\ Sole(strand, Due)
        /\ server' = server /\ UNCHANGED <<screens, shown>>
    BY DEF Typed, TypedStrand, Net, RunStrand
  <1>1. c.call # "Shutdown" /\ (First(strand) <=> c.call = "Disconnected")
    BY <1>0, SoleTail, DueReports DEF First
  <1>2. CASE c.call = "Connect" /\ OnConnect
    BY <1>0, <1>1, <1>2, ScreenConnect
  <1>3. CASE /\ c.call \in {"Login", "Register", "Befriend", "Block", "Fetch",
                            "Unfriend", "Unblock", "Command", "Forfeit",
                            "History", "GetReplay", "Send", "Respond", "Queue",
                            "Cancel"}
             /\ Checked(c) \/ JustSend(c) \/ OnRespond(c) \/ OnQueue(c)
    <2>1. /\ strand' = Tail(strand) /\ current' = current
          /\ UNCHANGED <<state, telling>> /\ ~First(strand)
      BY <1>1, <1>3 DEF Checked, JustSend, OnRespond, OnQueue, KeepState
    <2>2. \A j \in Sessions : /\ session'[j].stage = session[j].stage
                              /\ session'[j].reported = session[j].reported
                              /\ Mail(j)' = Mail(j)
      <3>1. CASE Send(c)
        BY <3>1, SendShape DEF Sent
      <3>2. CASE ~Send(c)
        <4>1. UNCHANGED session
          BY <1>3, <3>2 DEF Checked, JustSend, OnRespond, OnQueue
        <4> QED BY <4>1, NothingChanged DEF AllSame, Same
      <3> QED BY <3>1, <3>2
    <2> QED BY <1>0, <2>1, <2>2, ScreenTaken
  <1>4. CASE c.call = "Text" /\ OnText(c)
    <2>1. /\ UNCHANGED <<session, current, state, telling>> /\ ~First(strand)
          /\ \/ strand' = Tail(strand)
             \/ strand' = Append(Tail(strand), [call |-> "Send"])
      BY <1>1, <1>4 DEF OnText, KeepState
    <2>2. [call |-> "Send"] \in Calls /\ [call |-> "Send"].call # "Disconnected"
      BY DEF Calls
    <2> QED BY <1>0, <2>1, <2>2, NothingChanged, ScreenTaken DEF AllSame, Same
  <1>5. CASE c.call = "Disconnect" /\ OnDisconnect(c)
    <2>1. ~exit.asked
      BY <1>5 DEF OnDisconnect, OneAtATime, Typed, TypedStrand
    <2> QED BY <1>0, <1>5, <2>1, ScreenDisconnect
  <1>6. CASE c.call = "Disconnected" /\ OnDisconnected
    BY <1>0, <1>1, <1>6, ScreenDisconnected
  <1> QED BY <1>1, <1>2, <1>3, <1>4, <1>5, <1>6 DEF RunStrand

LEMMA NextScreen == Typed /\ NetInv /\ ScreenInv /\ [Next]_vars => ScreenInv'
  <1> SUFFICES ASSUME Typed, NetInv, ScreenInv, [Next]_vars, OneAtATime',
                      ~ghost'.late, ~ghost'.crossed, ~ghost'.stale
               PROVE  ScreenOK'
    BY DEF ScreenInv
  <1>1. Net /\ ScreenOK
    BY NextGrows DEF NetInv, ScreenInv, OneAtATime, Grows
  <1> QED BY <1>1, ScreenClicks, ScreenGui, ScreenConnecting, ScreenReading,
             ScreenMessage, ScreenAnswer, ScreenUnasked, ScreenStrand DEF Next

LEMMA InitScreen == Init => ScreenOK
  <1> SUFFICES ASSUME Init PROVE ScreenOK
    OBVIOUS
  <1>0. MaxSessions \in Nat \ {0}
    BY ClientBounds
  <1>1. /\ strand = <<>> /\ screens = <<>>
        /\ telling = [t \in Threads |-> "none"]
    BY DEF Init, Common
  <1>a. shown = state
    BY DEF Init, Started, LoggedIn
  <1>2. Told
    BY <1>1, <1>a DEF Told
  <1>3. Halves
    BY <1>1 DEF Halves, Halved, First
  <1>4. Started => Page
    BY <1>0 DEF Started, Page, Sessions
  <1>5. ASSUME NEW mode, NEW match \in BOOLEAN, LoggedIn(mode, match) PROVE Page
    <2>1. /\ current = 1 /\ server.auth = {1} /\ server.match = match
          /\ state = IF match THEN "Playing" ELSE "Lobby"
      BY <1>5 DEF LoggedIn
    <2>2. 1 \in Sessions
      BY <1>0 DEF Sessions
    <2>3. session[1] = [NewSession EXCEPT !.stage = "Up", !.live = TRUE]
      BY <1>5, <2>2 DEF LoggedIn
    <2>4. /\ session[1].stage = "Up" /\ ~session[1].reported
          /\ session[1].posted = <<>> /\ session[1].wire = <<>>
      BY <2>3 DEF NewSession
    <2>5. Mail(1) = <<>>
      <3>1. <<>> \o <<>> = <<>>
        OBVIOUS
      <3> QED BY <2>4, <3>1 DEF Mail
    <2>6. Final(state, {"Playing"}, Mail(1), Begins, Ends) <=> server.match
      BY <2>1, <2>5, EmptyQueue DEF Final
    <2>7. PageOf(1)
      BY <2>1, <2>4, <2>6 DEF PageOf, InGame
    <2> QED BY <2>1, <2>7 DEF Page
  <1>6. Page
    BY <1>4, <1>5 DEF Init
  <1> QED BY <1>2, <1>3, <1>6 DEF ScreenOK

\* What is on the screen is what the server knows, whenever everything is at
\* rest and none of the four races has happened.
THEOREM ScreenIsTrue == Spec => []ScreenFollowsServer
  <1>1. Typed /\ ExitInv /\ NetInv /\ ScreenInv => ScreenFollowsServer
    <2> SUFFICES ASSUME Typed, ExitInv, NetInv, ScreenInv, AtRest, ~exit.asked,
                        ~ghost.late, ~ghost.crossed, ~ghost.doubled, ~ghost.stale
                 PROVE  /\ shown = state
                        /\ state = (IF ~Connected THEN "ConnectScreen"
                             ELSE IF current \notin server.auth THEN "LoginScreen"
                             ELSE IF server.match THEN "Playing"
                             ELSE IF state = "Replaying" THEN "Replaying"
                             ELSE "Lobby")
      BY DEF ScreenFollowsServer
    <2>1. Net /\ Told /\ Page
      BY DEF NetInv, ScreenInv, ScreenOK, OneAtATime
    <2>2. /\ strand = <<>> /\ screens = <<>> /\ \A t \in Threads : telling[t] = "none"
          /\ \A i \in Sessions : Settled(i)
      BY DEF AtRest
    <2>3. shown = state \/ state = "Disconnected"
      BY <2>1, <2>2 DEF Told
    <2>4. CASE current = 0
      BY <2>1, <2>3, <2>4 DEF Page, Connected
    <2>5. CASE current # 0
      <3>1. PICK i \in Sessions : i = current
        BY <2>5, CurrentSession
      <3>2. PageOf(i) /\ Sound(i) /\ Settled(i) /\ session[i].stage # "None"
        BY <2>1, <2>2, <2>5, <3>1 DEF Page, Net
      <3>3. Mail(i) = <<>>
        <4>1. <<>> \o <<>> = <<>>
          OBVIOUS
        <4> QED BY <3>2, <4>1 DEF Settled, Mail
      <3>4. CASE session[i].stage = "Up"
        <4>1. CASE i \in server.auth
          <5>1. state = "Playing" <=> server.match
            BY <3>2, <3>3, <4>1, EmptyQueue DEF PageOf, Final
          <5>2. state \in InGame
            BY <3>2, <3>3, <4>1, EmptyQueue DEF PageOf
          <5> QED BY <2>3, <2>5, <3>1, <3>4, <4>1, <5>1, <5>2 DEF Connected, InGame
        <4>2. CASE i \notin server.auth
          BY <2>3, <2>5, <3>1, <3>2, <3>4, <4>2 DEF Connected, PageOf
        <4> QED BY <4>1, <4>2
      <3>5. CASE session[i].stage = "Failed"
        BY <2>3, <3>1, <3>2, <3>5 DEF Connected, PageOf
      <3>6. CASE session[i].stage = "Closed"
        <4>1. Items(strand) = {}
          BY <2>2 DEF Items
        <4>2. session[i].reported
          BY <3>6, <4>1 DEF ExitInv, ClosedReport
        <4>3. ~First(strand)
          BY <2>2 DEF First
        <4> QED BY <2>3, <3>1, <3>2, <3>6, <4>2, <4>3 DEF Connected, PageOf
      <3> QED BY <3>2, <3>4, <3>5, <3>6 DEF Settled
    <2> QED BY <2>4, <2>5
  <1>2. Init => NetInv /\ ScreenInv
    BY InitNet, InitScreen DEF NetInv, ScreenInv
  <1> QED BY <1>1, <1>2, InitTyped, NextTyped, InitExit, NextExit, NextNet,
             NextScreen, PTL DEF Spec

-----------------------------------------------------------------------------
(* The queue button.                                                       *)

\* What the button shows once it has caught up.
Shows == IF updates = <<>> THEN queued_mode ELSE updates[Len(updates)]

Queues == OfCall({"Queue"})
QueuesFor(x) == {c \in Calls : c.call = "Queue" /\ c.mode = x}
Cancels == OfCall({"Cancel"})
Raises == OfType({"QueueFailed", "MatchStarting"})

\* o are the requests on their way to the server, s its messages on their way
\* back, mode and match what it holds, v what the button shows.
Held(o, s, mode, match, v) ==
  /\ Has(s, Raises) => mode = NO_MODE
  /\ Has(o, Queues) =>
       /\ mode = NO_MODE /\ ~Has(s, Raises)
       /\ match => NoneBefore(o, Queues, Cancels)
       /\ NoneBefore(o, Queues, Queues)
  /\ \A x \in ModeSet : Pending(o, QueuesFor(x), Cancels) => v = x
  /\ ~Pending(o, Queues, Cancels) /\ (Has(o, Queues) \/ Has(o, Cancels))
       => v = NO_MODE
  /\ ~Has(o, Queues) /\ ~Has(o, Cancels) /\ ~Has(s, Raises) => v = mode

Unqueued(o, s) == ~Has(o, Queues) /\ ~Has(s, Raises)

LEMMA QueueCalls ==
  /\ \A c \in Queues : c \in Calls /\ c.mode \in ModeSet /\ c \in QueuesFor(c.mode)
  /\ \A x : QueuesFor(x) \subseteq Queues
  /\ \A c, x : c \in QueuesFor(x) => x = c.mode
  /\ Queues \cap Cancels = {}
  BY DEF Queues, QueuesFor, Cancels, OfCall, Calls

LEMMA PendingSome ==
  ASSUME NEW o, NEW x, NEW R, Pending(o, QueuesFor(x), R)
  PROVE  Has(o, Queues) /\ Pending(o, Queues, R)
  BY QueueCalls DEF Pending, Has

LEMMA HeldStart ==
  ASSUME NEW o, NEW s, NEW b, Unqueued(o, s)
  PROVE  Held(o, s, NO_MODE, b, NO_MODE)
  BY PendingSome DEF Held, Unqueued

LEMMA HeldTook ==
  ASSUME NEW o, NEW s \in Seq(Messages), s # <<>>, NEW x, NEW b, NEW v, NEW w,
         Held(o, s, x, b, v),
         IF Head(s) \in Raises THEN w = NO_MODE ELSE w = v
  PROVE  Held(o, Tail(s), x, b, w)
  <1>1. Has(s, Raises) <=> Head(s) \in Raises \/ Has(Tail(s), Raises)
    BY HasTail
  <1>2. CASE Head(s) \in Raises
    <2>1. ~Has(o, Queues) /\ x = NO_MODE /\ w = NO_MODE
      BY <1>1, <1>2 DEF Held
    <2> QED BY <2>1, PendingSome DEF Held
  <1>3. CASE Head(s) \notin Raises
    BY <1>1, <1>3 DEF Held
  <1> QED BY <1>2, <1>3

LEMMA HeldSend ==
  ASSUME NEW o \in Seq(Calls), NEW s, NEW x, NEW b, NEW v, Held(o, s, x, b, v),
         NEW c, c \notin Queues, c \notin Cancels
  PROVE  Held(Append(o, c), s, x, b, v)
  <1> DEFINE p == Append(o, c)
  <1>1. /\ Has(p, Queues) <=> Has(o, Queues)
        /\ Has(p, Cancels) <=> Has(o, Cancels)
    BY HasAppend
  <1>2. Pending(p, Queues, Cancels) <=> Pending(o, Queues, Cancels)
    BY PendingAppend
  <1>3. ASSUME NEW y
        PROVE  Pending(p, QueuesFor(y), Cancels) <=> Pending(o, QueuesFor(y), Cancels)
    <2>1. c \notin QueuesFor(y)
      BY QueueCalls
    <2> QED BY <2>1, PendingAppend
  <1>4. /\ NoneBefore(o, Queues, Cancels) => NoneBefore(p, Queues, Cancels)
        /\ NoneBefore(o, Queues, Queues) => NoneBefore(p, Queues, Queues)
    BY NoneBeforeAppend
  <1> HIDE DEF p
  <1>5. Held(p, s, x, b, v)
    BY <1>1, <1>2, <1>3, <1>4 DEF Held
  <1> QED BY <1>5 DEF p

LEMMA HeldCancel ==
  ASSUME NEW o \in Seq(Calls), NEW s, NEW x, NEW b, NEW v, Held(o, s, x, b, v),
         NEW c, c \in Cancels
  PROVE  Held(Append(o, c), s, x, b, NO_MODE)
  <1> DEFINE p == Append(o, c)
  <1>0. c \notin Queues
    BY QueueCalls
  <1>1. /\ Has(p, Queues) <=> Has(o, Queues)
        /\ Has(p, Cancels)
    BY <1>0, HasAppend
  <1>3. ASSUME NEW y PROVE ~Pending(p, QueuesFor(y), Cancels)
    <2>1. c \notin QueuesFor(y)
      BY <1>0, QueueCalls
    <2> QED BY <2>1, PendingAppend
  <1>4. /\ NoneBefore(o, Queues, Cancels) => NoneBefore(p, Queues, Cancels)
        /\ NoneBefore(o, Queues, Queues) => NoneBefore(p, Queues, Queues)
    BY <1>0, NoneBeforeAppend
  <1> HIDE DEF p
  <1>5. Held(p, s, x, b, NO_MODE)
    BY <1>1, <1>3, <1>4 DEF Held
  <1> QED BY <1>5 DEF p

LEMMA HeldQueue ==
  ASSUME NEW o \in Seq(Calls), NEW s, NEW b, NEW c, c \in Queues,
         ~Has(o, Queues), ~Has(s, Raises), b => ~Has(o, Cancels)
  PROVE  Held(Append(o, c), s, NO_MODE, b, c.mode)
  <1> DEFINE p == Append(o, c)
  <1>1. /\ Has(p, Queues)
        /\ Has(p, Cancels) <=> Has(o, Cancels)
    BY QueueCalls, HasAppend
  <1>2. Pending(p, Queues, Cancels)
    BY PendingAppend
  <1>3. ASSUME NEW y, Pending(p, QueuesFor(y), Cancels) PROVE c.mode = y
    <2>1. ~Pending(o, QueuesFor(y), Cancels)
      BY PendingSome
    <2>2. c \in QueuesFor(y)
      BY <1>3, <2>1, PendingAppend
    <2> QED BY <2>2, QueueCalls
  <1>4. /\ b => NoneBefore(p, Queues, Cancels)
        /\ NoneBefore(p, Queues, Queues)
    <2>1. NoneBefore(o, Queues, Cancels) /\ NoneBefore(o, Queues, Queues)
      BY NoneBeforeNone
    <2> QED BY <2>1, NoneBeforeAppend
  <1> HIDE DEF p
  <1>5. Held(p, s, NO_MODE, b, c.mode)
    BY <1>1, <1>2, <1>3, <1>4 DEF Held
  <1> QED BY <1>5 DEF p

LEMMA HeldMail ==
  ASSUME NEW o, NEW s \in Seq(Messages), NEW x, NEW b, NEW v,
         Held(o, s, x, b, v), NEW m, m \notin Raises
  PROVE  Held(o, Append(s, m), x, b, v)
  <1>1. Has(Append(s, m), Raises) <=> Has(s, Raises)
    BY HasAppend
  <1> QED BY <1>1 DEF Held

LEMMA HeldRaise ==
  ASSUME NEW o, NEW s \in Seq(Messages), NEW x, x # NO_MODE, NEW a, NEW b, NEW v,
         Held(o, s, x, a, v), NEW m, m \in Raises
  PROVE  Held(o, Append(s, m), NO_MODE, b, v)
  <1>1. Has(Append(s, m), Raises)
    BY HasAppend
  <1> QED BY <1>1 DEF Held

LEMMA HeldOver ==
  ASSUME NEW o, NEW s, NEW x, NEW b, NEW v, Held(o, s, x, b, v)
  PROVE  Held(o, s, x, FALSE, v)
  BY DEF Held

LEMMA HeldAnswer ==
  ASSUME NEW o \in Seq(Calls), o # <<>>, NEW s, NEW x, NEW b, NEW v,
         Held(o, s, x, b, v), Head(o) \notin Queues, Head(o) \notin Cancels
  PROVE  Held(Tail(o), s, x, b, v)
  <1> DEFINE p == Tail(o)
  <1>1. /\ Has(p, Queues) <=> Has(o, Queues)
        /\ Has(p, Cancels) <=> Has(o, Cancels)
    BY HasTail
  <1>2. Pending(p, Queues, Cancels) <=> Pending(o, Queues, Cancels)
    BY PendingTail
  <1>3. ASSUME NEW y
        PROVE  Pending(p, QueuesFor(y), Cancels) <=> Pending(o, QueuesFor(y), Cancels)
    <2>1. Head(o) \notin QueuesFor(y)
      BY QueueCalls
    <2> QED BY <2>1, PendingTail
  <1>4. /\ NoneBefore(o, Queues, Cancels) => NoneBefore(p, Queues, Cancels)
        /\ NoneBefore(o, Queues, Queues) => NoneBefore(p, Queues, Queues)
    BY NoneBeforeTail
  <1> HIDE DEF p
  <1>5. Held(p, s, x, b, v)
    BY <1>1, <1>2, <1>3, <1>4 DEF Held
  <1> QED BY <1>5 DEF p

\* A request to queue is answered.
LEMMA HeldQueued ==
  ASSUME NEW o \in Seq(Calls), o # <<>>, NEW s \in Seq(Messages), NEW x, NEW b,
         NEW v, Held(o, s, x, b, v), Head(o) \in Queues
  PROVE  /\ Held(Tail(o), s, Head(o).mode, b, v)
         /\ \A m \in Raises : Held(Tail(o), Append(s, m), x, b, v)
  <1> DEFINE p == Tail(o)
             c == Head(o)
  <1>0. /\ c \in Queues /\ c \notin Cancels /\ Has(o, Queues)
        /\ c \in QueuesFor(c.mode) /\ c.mode \in ModeSet
    BY QueueCalls, HasTail
  <1>1. x = NO_MODE /\ ~Has(s, Raises) /\ NoneBefore(o, Queues, Queues)
    BY <1>0 DEF Held
  <1>2. ~Has(p, Queues)
    BY <1>0, <1>1, NoneBeforeTail
  <1>3. ASSUME NEW y PROVE ~Pending(p, QueuesFor(y), Cancels)
    BY <1>2, PendingSome
  <1>4. Has(p, Cancels) => v = NO_MODE
    <2>1. ASSUME Has(p, Cancels) PROVE ~Pending(o, Queues, Cancels)
      BY <1>2, <2>1, PendingTail, PendingHas
    <2> QED BY <1>0, <2>1 DEF Held
  <1>5. ~Has(p, Cancels) => v = c.mode
    <2>1. ~Has(p, Cancels) => Pending(o, QueuesFor(c.mode), Cancels)
      BY <1>0, PendingTail
    <2> HIDE DEF c, p
    <2> QED BY <1>0, <2>1 DEF Held
  <1> HIDE DEF p, c
  <1>6. Held(p, s, c.mode, b, v)
    BY <1>1, <1>2, <1>3, <1>4, <1>5 DEF Held
  <1>7. ASSUME NEW m \in Raises PROVE Held(p, Append(s, m), x, b, v)
    <2>1. Has(Append(s, m), Raises)
      BY HasAppend
    <2> QED BY <1>1, <1>2, <1>3, <1>4, <2>1 DEF Held
  <1> QED BY <1>6, <1>7 DEF p, c

\* A request to leave the queue is answered.
LEMMA HeldCancelled ==
  ASSUME NEW o \in Seq(Calls), o # <<>>, NEW s \in Seq(Messages), NEW x, NEW b,
         NEW v, Held(o, s, x, b, v), Head(o) \in Cancels
  PROVE  /\ ~b => Held(Tail(o), s, NO_MODE, b, v)
         /\ b => \A m \in Raises : Held(Tail(o), Append(s, m), NO_MODE, b, v)
  <1> DEFINE p == Tail(o)
             c == Head(o)
  <1>0. c \in Cancels /\ c \notin Queues /\ Has(o, Cancels)
    BY QueueCalls, HasTail
  <1>1. Has(p, Queues) <=> Has(o, Queues)
    BY <1>0, HasTail
  <1>2. Pending(p, Queues, Cancels) <=> Pending(o, Queues, Cancels)
    BY <1>0, PendingTail
  <1>3. ASSUME NEW y
        PROVE  Pending(p, QueuesFor(y), Cancels) <=> Pending(o, QueuesFor(y), Cancels)
    <2>1. c \notin QueuesFor(y)
      BY <1>0, QueueCalls
    <2> QED BY <2>1, PendingTail
  <1>4. /\ NoneBefore(o, Queues, Queues) => NoneBefore(p, Queues, Queues)
        /\ NoneBefore(o, Queues, Cancels) => ~Has(p, Queues)
    BY <1>0, NoneBeforeTail
  <1>5. ~Pending(p, Queues, Cancels) => v = NO_MODE
    BY <1>0, <1>2 DEF Held
  <1>6. Pending(p, Queues, Cancels) => Has(p, Queues)
    BY PendingHas
  <1> HIDE DEF p, c
  <1>7. ~b => Held(p, s, NO_MODE, b, v)
    BY <1>1, <1>2, <1>3, <1>4, <1>5, <1>6 DEF Held
  <1>8. ASSUME NEW m \in Raises, b PROVE Held(p, Append(s, m), NO_MODE, b, v)
    <2>1. Has(Append(s, m), Raises)
      BY HasAppend
    <2>2. ~Has(p, Queues)
      BY <1>1, <1>4, <1>8 DEF Held
    <2> QED BY <1>3, <1>5, <1>6, <2>1, <2>2, PendingSome DEF Held
  <1> QED BY <1>7, <1>8 DEF p

\* The button while i is the session in use.
ButtonOf(i) ==
  /\ session[i].stage = "Up" /\ i \notin server.auth =>
       Unqueued(session[i].out, Mail(i))
  /\ i \in server.auth =>
       Held(session[i].out, Mail(i), server.mode, server.match, Shows)

Button ==
  /\ server.auth = {} => server.mode = NO_MODE
  /\ current \notin server.auth /\ ~Lost => Shows = NO_MODE
  /\ \A i \in Sessions : i = current => ButtonOf(i)

ButtonInv ==
  OneAtATime /\ ~ghost.late /\ ~ghost.requeued /\ ~ghost.kept => Button

LEMMA ShowsAppend ==
  ASSUME Typed, NEW x \in ModeSet, updates' = Append(updates, x)
  PROVE  Shows' = x
  <1>1. updates \in Seq(ModeSet)
    BY DEF Typed, TypedGui
  <1> QED BY <1>1 DEF Shows

LEMMA ShowsUpdate ==
  ASSUME Typed, UpdateButton
  PROVE  Shows' = Shows
  <1> DEFINE q == Tail(updates)
  <1>1. /\ updates \in Seq(ModeSet) /\ updates # <<>>
        /\ updates' = q /\ queued_mode' = Head(updates)
    BY DEF Typed, TypedGui, UpdateButton
  <1>2. /\ Len(q) = Len(updates) - 1 /\ Len(updates) \in Nat /\ Len(updates) > 0
        /\ Head(updates) = updates[1]
        /\ q # <<>> => q[Len(q)] = updates[Len(updates)] /\ Len(q) # 0
    BY <1>1
  <1> HIDE DEF q
  <1>3. CASE q = <<>>
    <2>1. Len(q) = 0
      BY <1>3
    <2>2. Len(updates) = 1
      BY <1>2, <2>1
    <2> QED BY <1>1, <1>2, <1>3, <2>2 DEF Shows
  <1>4. CASE q # <<>>
    BY <1>1, <1>2, <1>4 DEF Shows
  <1> QED BY <1>3, <1>4

LEMMA SameLost ==
  ASSUME Typed, current' = current,
         \A j \in Sessions : /\ session'[j].stage = session[j].stage
                             /\ session'[j].reported = session[j].reported
  PROVE  Lost' <=> Lost
  <1>1. current # 0 => current \in Sessions
    BY CurrentSession
  <1> QED BY <1>1 DEF Lost

LEMMA ButtonSame ==
  ASSUME Typed, Button, current' = current, server' = server, Shows' = Shows,
         \A j \in Sessions : /\ session'[j].stage = session[j].stage
                             /\ session'[j].reported = session[j].reported
                             /\ session'[j].out = session[j].out
                             /\ Mail(j)' = Mail(j)
  PROVE  Button'
  <1>1. Lost' <=> Lost
    BY SameLost
  <1>2. ASSUME NEW i \in Sessions, i = current PROVE ButtonOf(i)'
    <2>1. ButtonOf(i)
      BY <1>2 DEF Button
    <2> QED BY <2>1 DEF ButtonOf
  <1> QED BY <1>1, <1>2 DEF Button

\* Something happens on the open session in use.
LEMMA ButtonOne ==
  ASSUME NEW i \in Sessions, i = current, current' = current,
         server'.auth = {} => server'.mode = NO_MODE,
         i \notin server'.auth =>
           Shows' = NO_MODE /\ Unqueued(session'[i].out, Mail(i)'),
         i \in server'.auth =>
           Held(session'[i].out, Mail(i)', server'.mode, server'.match, Shows')
  PROVE  Button'
  <1>1. ButtonOf(i)'
    BY DEF ButtonOf
  <1> QED BY <1>1 DEF Button

LEMMA OpenButton ==
  ASSUME Typed, Net, Button, NEW i \in Sessions, session[i].stage = "Up"
  PROVE  /\ i = current
         /\ i \notin server.auth =>
              /\ server.auth = {} /\ server.mode = NO_MODE /\ Shows = NO_MODE
              /\ Unqueued(session[i].out, Mail(i))
         /\ i \in server.auth =>
              /\ server.auth # {}
              /\ Held(session[i].out, Mail(i), server.mode, server.match, Shows)
  <1>1. i = current
    BY OnlyCurrent
  <1>2. ButtonOf(i) /\ ~Lost
    BY <1>1 DEF Button, Lost
  <1>3. i \notin server.auth => server.auth = {}
    <2>1. server.auth \subseteq Sessions
      BY DEF Typed, TypedServer, Account
    <2>2. \A j \in server.auth : j = current
      BY <2>1, OnlyCurrent
    <2> QED BY <1>1, <2>2
  <1> QED BY <1>1, <1>2, <1>3 DEF ButtonOf, Button

LEMMA ButtonClicks ==
  ASSUME Typed, Net, Button, Clicks, OneAtATime'
  PROVE  Button'
  <1>1. ~shutdown
    BY DEF shutdown, OneAtATime, Typed, TypedStrand
  <1>2. AllSame /\ current' = current /\ server' = server
        /\ UNCHANGED <<updates, queued_mode>>
    <2>1. ASSUME NEW c, Posted(c) PROVE <1>2!:
      BY <2>1, NothingChanged DEF Posted, gui
    <2>2. CASE ClosePopup \/ start_replay \/ close_replay
      BY <2>2, NothingChanged DEF ClosePopup, start_replay, close_replay, gui
    <2> QED BY <1>1, <2>1, <2>2, ClickShape
  <1>3. Shows' = Shows
    BY <1>2 DEF Shows
  <1> QED BY <1>2, <1>3, ButtonSame DEF AllSame, Same

LEMMA ButtonGui ==
  ASSUME Typed, Net, Button,
         \/ ShowScreen \/ UpdateButton \/ ShowPopup \/ UNCHANGED vars
         \/ \E t \in Threads : Tell(t)
  PROVE  Button'
  <1>1. AllSame /\ current' = current /\ server' = server
    BY NothingChanged DEF ShowScreen, UpdateButton, ShowPopup, vars, Tell
  <1>2. Shows' = Shows
    <2>1. CASE ~UpdateButton
      <3>1. UNCHANGED <<updates, queued_mode>>
        BY <2>1 DEF ShowScreen, ShowPopup, vars, Tell, gui
      <3> QED BY <3>1 DEF Shows
    <2> QED BY <2>1, ShowsUpdate
  <1> QED BY <1>1, <1>2, ButtonSame DEF AllSame, Same

LEMMA ButtonConnecting ==
  ASSUME Typed, Net, Button, NEW i \in Sessions,
         \/ on_resolve(i) \/ TimerExpires(i) \/ on_connect_timeout(i)
         \/ on_connect(i) \/ Verified(i)
  PROVE  Button'
  <1>1. /\ Stepped(i) /\ current' = current /\ server' = server
        /\ UNCHANGED <<updates, queued_mode>>
        /\ \/ session'[i].stage = session[i].stage
           \/ session[i].stage \in {"Resolving", "Connecting", "Handshake"}
    <2>1. CASE \/ on_resolve(i) \/ TimerExpires(i) \/ on_connect_timeout(i)
               \/ on_connect(i)
      BY <2>1, ConnectingShape DEF Quiet, gui
    <2>2. CASE Verified(i)
      BY <2>2, VerifiedShape DEF Verified, gui
    <2> QED BY <2>1, <2>2
  <1>2. Shows' = Shows
    BY <1>1 DEF Shows
  <1>3. CASE session'[i].stage = session[i].stage
    BY <1>1, <1>2, <1>3, ButtonSame DEF Stepped, SameBut, Same
  <1>4. CASE session'[i].stage # session[i].stage
    <2>1. i = current
      BY <1>1, <1>4, OnlyCurrent
    <2>2. Sound(i)
      BY DEF Net
    <2>3. i \notin server.auth /\ Mail(i) = <<>> /\ session[i].out = <<>>
      BY <1>1, <1>4, <2>2 DEF Sound
    <2>4. Shows = NO_MODE
      BY <1>1, <1>4, <2>1, <2>3 DEF Button, Lost
    <2>5. Unqueued(session'[i].out, Mail(i)')
      BY <1>1, <2>3, EmptyQueue DEF Unqueued, Stepped
    <2> QED BY <1>1, <1>2, <2>1, <2>3, <2>4, <2>5, ButtonOne DEF Button
  <1> QED BY <1>3, <1>4

LEMMA ButtonEnded ==
  ASSUME Typed, Net, Button, NEW i \in Sessions, Ended(i), current' = current
  PROVE  Button'
  <1>1. i = current /\ current # 0
    BY OnlyCurrent DEF Ended
  <1>2. ~session[i].reported
    BY DEF Net, Sound, Ended
  <1>3. Lost'
    BY <1>1, <1>2 DEF Lost, Ended
  <1>4. server'.mode = NO_MODE
    <2>1. CASE i \in server.auth
      BY <2>1 DEF Ended
    <2>2. CASE i \notin server.auth
      <3>1. server.auth \subseteq Sessions
        BY DEF Typed, TypedServer, Account
      <3>2. server.auth = {}
        BY <1>1, <2>2, <3>1, OnlyCurrent
      <3> QED BY <2>2, <3>2 DEF Ended, Button
    <2> QED BY <2>1, <2>2
  <1>5. ButtonOf(i)'
    BY DEF ButtonOf, Ended
  <1> QED BY <1>1, <1>3, <1>4, <1>5 DEF Button

LEMMA ButtonReading ==
  ASSUME Typed, Net, Button, NEW i \in Sessions,
         \/ BadTLS(i) \/ Read(i) \/ handle_read_error(i)
         \/ force_close_session(i)
  PROVE  Button'
  <1>1. current' = current /\ UNCHANGED <<updates, queued_mode>>
    BY DEF BadTLS, Read, Quiet, handle_read_error, force_close_session, gui
  <1>2. CASE Read(i)
    <2>1. AllSame /\ server' = server
      BY <1>2, ReadShape DEF Read, Quiet
    <2>2. Shows' = Shows
      BY <1>1 DEF Shows
    <2> QED BY <1>1, <2>1, <2>2, ButtonSame DEF AllSame, Same
  <1>3. CASE Ended(i)
    BY <1>1, <1>3, ButtonEnded
  <1> QED BY <1>2, <1>3, NetReading

\* What a message does to the button.
LEMMA MessageButton ==
  ASSUME Typed, Net, NEW i \in Sessions, on_message(i), ~ghost'.late
  PROVE  LET m == Head(Mail(i)) IN
         /\ m \in Raises => ~session[i].reported /\ Shows' = NO_MODE
         /\ m \notin Raises => Shows' = Shows
  <1> DEFINE m == Head(Mail(i))
  <1>0. /\ m = Head(session[i].posted) /\ m \in Messages /\ ghost \in Races
        /\ NO_MODE \in ModeSet
    BY MessageShape DEF Typed, TypedState, ModeSet
  <1>a. m \in Raises <=> m.type \in {"QueueFailed", "MatchStarting"}
    BY <1>0 DEF Raises, OfType
  <1>b. queued_mode' = queued_mode
    BY DEF on_message
  <1> HIDE DEF m
  <1>1. CASE m.type = "QueueFailed" /\ QueueFailed(i)
    <2>1. Tardy(i) /\ updates' = Append(updates, NO_MODE)
      BY <1>1 DEF QueueFailed
    <2>2. ~session[i].reported /\ Shows' = NO_MODE
      BY <1>0, <2>1, TardyGrows, ShowsAppend
    <2> QED BY <1>1, <1>a, <2>2 DEF m
  <1>2. CASE m.type = "MatchStarting" /\ MatchStarting(i)
    <2>1. change_state(i, "Playing", ghost) /\ updates' = Append(updates, NO_MODE)
      BY <1>2 DEF MatchStarting
    <2>2. ~session[i].reported /\ Shows' = NO_MODE
      BY <1>0, <2>1, ChangeStateGrows, ShowsAppend
    <2> QED BY <1>2, <1>a, <2>2 DEF m
  <1>3. CASE \/ m.type = "GoodAuth" /\ GoodAuth(i)
             \/ m.type = "MatchInProgress" /\ MatchInProgress(i)
             \/ m.type = "PlayerView" /\ PlayerView(i)
             \/ m.type \in {"ForfeitMatch", "MatchOver"} /\ MatchOver(i, m)
             \/ m.type = "GameEnded" /\ GameEnded(i)
             \/ m.type = "Notice" /\ Notice(i)
             \/ m.type = "Refusal" /\ Refusal(i)
             \/ /\ m.type \in {"List", "FriendAdded", "FriendRemoved",
                               "FriendRequest", "Blocked", "Unblocked"}
                /\ UsersUpdated(i, m)
             \/ m.type = "Malformed" /\ Malformed(i)
    <2>1. updates' = updates
      BY <1>3 DEF GoodAuth, MatchInProgress, PlayerView, MatchOver, GameEnded,
         Notice, Refusal, UsersUpdated, Malformed
    <2>2. m \notin Raises /\ Shows' = Shows
      BY <1>a, <1>b, <1>3, <2>1 DEF Shows
    <2> QED BY <2>2 DEF m
  <1> QED BY <1>0, <1>1, <1>2, <1>3 DEF on_message

LEMMA ButtonMessage ==
  ASSUME Typed, Net, Button, NEW i \in Sessions, on_message(i), ~ghost'.late
  PROVE  Button'
  <1>0. current' = current
    BY DEF on_message
  <1>1. CASE Ended(i)
    BY <1>0, <1>1, ButtonEnded
  <1>2. CASE Took(i) /\ server' = server
    <2> DEFINE m == Head(Mail(i))
    <2>1. /\ m \in Raises => ~session[i].reported /\ Shows' = NO_MODE
          /\ m \notin Raises => Shows' = Shows
      BY MessageButton
    <2>2. Mail(i) \in Seq(Messages) /\ Mail(i) # <<>> /\ Mail(i)' = Tail(Mail(i))
      BY <1>2, MailType DEF Took
    <2>3. session[i].stage \in {"Up", "Closed"} /\ Sound(i)
      BY <2>2 DEF Net, Sound
    <2> HIDE DEF m
    <2>4. Lost' <=> Lost
      BY <1>0, <1>2, SameLost DEF Took, SameBut, Same
    <2>5. i # current => Shows' = Shows
      BY <2>1, <2>3, OnlyCurrent
    <2>6. ASSUME NEW j \in Sessions, j = current PROVE ButtonOf(j)'
      <3>0. ButtonOf(j)
        BY <2>6 DEF Button
      <3>1. CASE j # i
        <4>1. Same(j)
          BY <1>2, <3>1 DEF Took, SameBut
        <4> QED BY <1>2, <2>5, <2>6, <3>0, <3>1, <4>1 DEF ButtonOf, Same
      <3>2. CASE j = i
        <4>1. /\ session'[i].out = session[i].out
              /\ session'[i].stage = session[i].stage
          BY <1>2 DEF Took
        <4>2. session[i].stage = "Up" /\ i \notin server.auth =>
                Unqueued(session[i].out, Tail(Mail(i)))
          BY <2>2, <3>0, <3>2, HasTail DEF ButtonOf, Unqueued
        <4>3. i \in server.auth => Held(session[i].out, Tail(Mail(i)), server.mode,
                                        server.match, Shows')
          <5>1. IF m \in Raises THEN Shows' = NO_MODE ELSE Shows' = Shows
            BY <2>1
          <5> QED BY <2>2, <3>0, <3>2, <5>1, HeldTook DEF ButtonOf, m
        <4> QED BY <1>2, <2>2, <3>2, <4>1, <4>2, <4>3 DEF ButtonOf
      <3> QED BY <3>1, <3>2
    <2>7. current \notin server.auth /\ ~Lost => Shows' = NO_MODE
      <3> SUFFICES ASSUME current \notin server.auth, ~Lost PROVE Shows' = NO_MODE
        OBVIOUS
      <3>1. Shows = NO_MODE
        BY DEF Button
      <3> QED BY <2>1, <3>1
    <2> QED BY <1>0, <1>2, <2>4, <2>6, <2>7 DEF Button
  <1> QED BY <1>1, <1>2, MessageShape

LEMMA RangeItems ==
  ASSUME NEW S, NEW s \in Seq(S)
  PROVE  Range(s) = Items(s)
  BY DEF Range, Items

\* What the history looks at is all that is on its way.
LEMMA OnTheWay ==
  ASSUME Typed, NEW i \in Sessions, NEW X
  PROVE  /\ Has(session[i].out, X) => \E r \in Requests : r \in X
         /\ Has(Mail(i), X) => \E m \in InFlight : m \in X
  <1>0. /\ session[i].posted \in Seq(Messages) /\ session[i].wire \in Seq(Messages)
        /\ session[i].out \in Seq(Calls)
    BY MailType
  <1> DEFINE p == session[i].posted
             w == session[i].wire
             o == session[i].out
  <1> HIDE DEF p, w, o
  <1>1. Range(o) = Items(o)
    BY <1>0, RangeItems DEF o
  <1>2. /\ w \o p \in Seq(Messages)
        /\ Items(w \o p) = Items(w) \cup Items(p)
        /\ Items(p \o w) = Items(p) \cup Items(w)
    BY <1>0, ItemsConcat, ConcatType DEF p, w
  <1>3. Range(w \o p) = Items(p \o w)
    <2> DEFINE wp == w \o p
    <2>1. wp \in Seq(Messages)
      BY <1>2
    <2> HIDE DEF wp
    <2>2. Range(wp) = Items(wp)
      BY <2>1, RangeItems
    <2> QED BY <1>2, <2>2 DEF wp
  <1>4. Range(o) \subseteq Requests
    BY DEF Requests, o
  <1>5. Range(w \o p) \subseteq InFlight
    BY DEF InFlight, w, p
  <1>6. Has(o, X) => \E r \in Requests : r \in X
    BY <1>1, <1>4, HasItems
  <1>7. Has(p \o w, X) => \E m \in InFlight : m \in X
    BY <1>3, <1>5, HasItems
  <1> QED BY <1>6, <1>7 DEF o, p, w, Mail

LEMMA ButtonQueue ==
  ASSUME Typed, Net, Button, NEW c \in Calls, c.call \in {"Queue", "Cancel"},
         OnQueue(c), ~ghost'.requeued, ~ghost'.kept, server' = server,
         queued_mode' = queued_mode
  PROVE  Button'
  <1>0. /\ current' = current /\ Send(c) /\ c.mode \in ModeSet
        /\ updates' = Append(updates, IF c.call = "Queue" THEN c.mode ELSE NO_MODE)
    BY DEF OnQueue, Calls
  <1>1. Sent(c)
    BY <1>0, SendShape
  <1>2. CASE c.call = "Cancel"
    <2>1. Shows' = NO_MODE /\ c \in Cancels /\ c \notin Queues
      BY <1>0, <1>2, ShowsAppend DEF Cancels, Queues, OfCall, ModeSet
    <2>2. ASSUME NEW i \in Sessions, i = current PROVE ButtonOf(i)'
      <3>0. ButtonOf(i) /\ session[i].out \in Seq(Calls)
        BY <2>2, MailType DEF Button
      <3>1. /\ session'[i].stage = session[i].stage /\ Mail(i)' = Mail(i)
            /\ IF session[i].stage = "Up" /\ ~session[i].jammed
               THEN session'[i].out = Append(session[i].out, c)
               ELSE session'[i].out = session[i].out
        BY <1>1, <2>2 DEF Sent
      <3>2. session[i].stage = "Up" /\ i \notin server.auth =>
              Unqueued(session'[i].out, Mail(i))
        <4>1. Has(Append(session[i].out, c), Queues) <=> Has(session[i].out, Queues)
          BY <2>1, <3>0, HasAppend
        <4> QED BY <3>0, <3>1, <4>1 DEF ButtonOf, Unqueued
      <3>3. i \in server.auth => Held(session'[i].out, Mail(i), server.mode,
                                      server.match, NO_MODE)
        <4>1. i \in server.auth => session[i].stage = "Up" /\ ~session[i].jammed
          BY DEF Net, Sound
        <4> QED BY <2>1, <3>0, <3>1, <4>1, HeldCancel DEF ButtonOf
      <3> QED BY <2>1, <3>1, <3>2, <3>3 DEF ButtonOf
    <2> QED BY <1>0, <2>1, <2>2 DEF Button
  <1>3. CASE c.call = "Queue"
    <2>1. Shows' = c.mode /\ c \in Queues
      BY <1>0, <1>3, ShowsAppend DEF Queues, OfCall
    <2>2. current \in server.auth /\ ~Requeues
      BY <1>3, StrandHistory
    <2>3. PICK i \in Sessions : i = current
      BY <2>2, CurrentSession, ClientBounds DEF Typed, TypedServer, Account, Sessions
    <2>4. /\ server.mode = NO_MODE
          /\ \A r \in Requests : /\ r.call # "Queue"
                                 /\ r.call = "Cancel" => ~server.match
          /\ \A m \in InFlight : m.type \notin {"QueueFailed", "MatchStarting"}
      BY <2>2 DEF Requeues
    <2>5. ~Has(session[i].out, Queues)
      BY <2>4, OnTheWay DEF Queues, OfCall
    <2>6. server.match => ~Has(session[i].out, Cancels)
      BY <2>4, OnTheWay DEF Cancels, OfCall
    <2>7. ~Has(Mail(i), Raises)
      BY <2>4, OnTheWay DEF Raises, OfType
    <2>8. session[i].stage = "Up" /\ ~session[i].jammed
      BY <2>2, <2>3 DEF Net, Sound
    <2>9. session'[i].out = Append(session[i].out, c) /\ Mail(i)' = Mail(i)
      BY <1>1, <2>3, <2>8 DEF Sent
    <2>10. Held(Append(session[i].out, c), Mail(i), NO_MODE, server.match, c.mode)
      BY <2>1, <2>5, <2>6, <2>7, MailType, HeldQueue
    <2> QED BY <1>0, <2>1, <2>2, <2>3, <2>4, <2>9, <2>10, ButtonOne
  <1> QED BY <1>2, <1>3

LEMMA ButtonSent ==
  ASSUME Typed, Net, Button, NEW c, c \notin Queues, c \notin Cancels, Sent(c),
         current' = current, server' = server, Shows' = Shows
  PROVE  Button'
  <1>1. Lost' <=> Lost
    BY SameLost DEF Sent
  <1>2. ASSUME NEW i \in Sessions, i = current PROVE ButtonOf(i)'
    <2>0. ButtonOf(i) /\ session[i].out \in Seq(Calls)
      BY <1>2, MailType DEF Button
    <2>1. /\ session'[i].stage = session[i].stage /\ Mail(i)' = Mail(i)
          /\ \/ session'[i].out = Append(session[i].out, c)
             \/ session'[i].out = session[i].out
      BY <1>2 DEF Sent
    <2>2. session[i].stage = "Up" /\ i \notin server.auth =>
            Unqueued(session'[i].out, Mail(i))
      <3>1. Has(Append(session[i].out, c), Queues) <=> Has(session[i].out, Queues)
        BY <2>0, HasAppend
      <3> QED BY <2>0, <2>1, <3>1 DEF ButtonOf, Unqueued
    <2>3. i \in server.auth => Held(session'[i].out, Mail(i), server.mode,
                                    server.match, Shows)
      BY <2>0, <2>1, HeldSend DEF ButtonOf
    <2> QED BY <2>1, <2>2, <2>3 DEF ButtonOf
  <1> QED BY <1>1, <1>2 DEF Button

LEMMA ButtonStrand ==
  ASSUME Typed, Net, Button, OneAtATime', RunStrand, ~ghost'.requeued,
         ~ghost'.kept
  PROVE  Button'
  <1> DEFINE c == Head(strand)
  <1>0. /\ strand \in Seq(Calls) /\ strand # <<>> /\ Sole(strand, Due)
        /\ server' = server /\ queued_mode' = queued_mode /\ c \in Calls
    BY DEF Typed, TypedStrand, Net, RunStrand
  <1>1. c.call # "Shutdown"
    BY <1>0, SoleTail, DueReports
  <1>a. updates' = updates => Shows' = Shows
    BY <1>0 DEF Shows
  <1>2. CASE c.call = "Connect" /\ OnConnect
    <2>0. Shows' = Shows
      BY <1>a, <1>2 DEF OnConnect
    <2>1. CASE AllSame /\ current' = current
      BY <1>0, <2>0, <2>1, ButtonSame DEF AllSame, Same
    <2>2. CASE ~(AllSame /\ current' = current)
      <3>1. PICK k \in Sessions : k = current + 1
        BY <1>2, <2>2, ConnectShape
      <3>2. /\ Idle /\ current' = k
            /\ session[k].stage = "None" /\ session'[k].stage = "Resolving"
        BY <1>2, <2>2, <3>1, ConnectShape
      <3>3. k \notin server.auth
        BY <3>2 DEF Net, Sound
      <3>4. current \notin server.auth /\ ~Lost
        <4>1. CASE current = 0
          BY <4>1, ClientBounds DEF Lost, Typed, TypedServer, Account, Sessions
        <4>2. CASE current # 0
          <5>1. Sound(current)
            BY <4>2, CurrentSession DEF Net
          <5> QED BY <3>2, <4>2, <5>1 DEF Idle, Sound, Lost
        <4> QED BY <4>1, <4>2
      <3>5. Shows' = NO_MODE
        BY <2>0, <3>4 DEF Button
      <3>6. ButtonOf(k)'
        BY <1>0, <3>2, <3>3 DEF ButtonOf
      <3> QED BY <1>0, <3>2, <3>5, <3>6 DEF Button
    <2> QED BY <2>1, <2>2
  <1>3. CASE /\ c.call \in {"Login", "Register", "Befriend", "Block", "Fetch",
                            "Unfriend", "Unblock", "Command", "Forfeit",
                            "History", "GetReplay", "Send", "Respond"}
             /\ Checked(c) \/ JustSend(c) \/ OnRespond(c)
    <2>1. current' = current /\ Shows' = Shows
      BY <1>a, <1>3 DEF Checked, JustSend, OnRespond
    <2>2. CASE Send(c)
      <3>1. c \notin Queues /\ c \notin Cancels
        BY <1>3 DEF Queues, Cancels, OfCall
      <3> QED BY <1>0, <2>1, <2>2, <3>1, SendShape, ButtonSent
    <2>3. CASE ~Send(c)
      <3>1. UNCHANGED session
        BY <1>3, <2>3 DEF Checked, JustSend, OnRespond
      <3> QED BY <1>0, <2>1, <3>1, NothingChanged, ButtonSame DEF AllSame, Same
    <2> QED BY <2>2, <2>3
  <1>4. CASE c.call \in {"Queue", "Cancel"} /\ OnQueue(c)
    BY <1>0, <1>4, ButtonQueue
  <1>5. CASE OnText(c) \/ OnDisconnected
    <2>1. UNCHANGED <<session, current>> /\ Shows' = Shows
      BY <1>a, <1>5 DEF OnText, OnDisconnected
    <2> QED BY <1>0, <2>1, NothingChanged, ButtonSame DEF AllSame, Same
  <1>6. CASE c.call = "Disconnect" /\ OnDisconnect(c)
    <2>0. ~exit.asked
      BY <1>6 DEF OnDisconnect, OneAtATime, Typed, TypedStrand
    <2>1. PICK k \in Sessions : k = current
      BY <1>0, <1>6, <2>0, DisconnectShape
    <2>2. Lost /\ current' = current /\ session'[k].stage = session[k].stage
      BY <1>0, <1>6, <2>0, <2>1, DisconnectShape
    <2>3. change_state(ClientStrand, "Disconnected", Dropped) /\ updates' = updates
      BY <1>6, <2>0 DEF OnDisconnect
    <2>4. Dropped \in Races /\ ghost'.kept = Dropped.kept
      BY <2>3, StrandHistory, ChangeStateGrows
    <2>5. queued_mode = NO_MODE /\ updates = <<>>
      BY <2>4, StrandHistory
    <2>6. Shows' = NO_MODE
      BY <1>0, <2>3, <2>5 DEF Shows
    <2>7. k \notin server.auth /\ session[k].stage = "Closed"
      BY <2>1, <2>2 DEF Lost, Net, Sound
    <2>8. ButtonOf(k)'
      BY <1>0, <2>2, <2>7 DEF ButtonOf
    <2> QED BY <1>0, <2>1, <2>2, <2>6, <2>8 DEF Button
  <1> QED BY <1>1, <1>2, <1>3, <1>4, <1>5, <1>6 DEF RunStrand

\* The button as the server adds nothing, one message, or two.
LEMMA AddedMail ==
  ASSUME Typed, NEW i \in Sessions, NEW a \in Messages, NEW b \in Messages
  PROVE  /\ Added(i, <<>>) => Mail(i)' = Mail(i)
         /\ Added(i, <<a>>) => Mail(i)' = Append(Mail(i), a)
         /\ Added(i, <<a, b>>) => Mail(i)' = Append(Append(Mail(i), a), b)
         /\ Append(Mail(i), a) \in Seq(Messages)
  <1> DEFINE M == Mail(i)
  <1>1. M \in Seq(Messages)
    BY MailType
  <1> HIDE DEF M
  <1>2. /\ M \o <<>> = M /\ M \o <<a>> = Append(M, a)
        /\ M \o <<a, b>> = Append(Append(M, a), b)
        /\ Append(M, a) \in Seq(Messages)
    BY <1>1, ConcatFew, AppendType
  <1> QED BY <1>2 DEF Added, M

\* A message that says nothing of the queue, or none.
LEMMA ButtonPlain ==
  ASSUME Typed, Net, Button, NEW i \in Sessions, session[i].stage = "Up",
         current' = current, Shows' = Shows,
         server'.auth = server.auth, server'.mode = server.mode,
         server'.match = server.match \/ server'.match = FALSE,
         \/ session'[i].out = session[i].out
         \/ /\ session[i].out # <<>>
            /\ session'[i].out = Tail(session[i].out)
            /\ i \in server.auth => /\ Head(session[i].out) \notin Queues
                                    /\ Head(session[i].out) \notin Cancels,
         \/ Added(i, <<>>)
         \/ \E m \in Messages : Added(i, <<m>>) /\ m \notin Raises
  PROVE  Button'
  <1> DEFINE o == session[i].out
             M == Mail(i)
  <1>0. /\ i = current
        /\ i \notin server.auth =>
              /\ server.auth = {} /\ server.mode = NO_MODE /\ Shows = NO_MODE
              /\ Unqueued(o, M)
        /\ i \in server.auth =>
              /\ server.auth # {}
              /\ Held(o, M, server.mode, server.match, Shows)
    BY OpenButton
  <1>1. o \in Seq(Calls) /\ M \in Seq(Messages)
    BY MailType
  <1>2. \/ Mail(i)' = M
        \/ \E m \in Messages : Mail(i)' = Append(M, m) /\ m \notin Raises
    <2>1. Msg("Notice") \in Messages
      BY PlainMessage
    <2>2. CASE Added(i, <<>>)
      BY <2>1, <2>2, AddedMail
    <2>3. ASSUME NEW m \in Messages, Added(i, <<m>>), m \notin Raises
          PROVE  <1>2!:
      BY <2>3, AddedMail
    <2> QED BY <2>2, <2>3
  <1> HIDE DEF M
  <1>3. i \notin server.auth => Unqueued(session'[i].out, Mail(i)')
    <2>1. Has(session'[i].out, Queues) => Has(o, Queues)
      BY <1>1, HasTail
    <2>2. Has(Mail(i)', Raises) => Has(M, Raises)
      <3>1. \A m : Has(Append(M, m), Raises) <=> Has(M, Raises) \/ m \in Raises
        BY <1>1, HasAppend
      <3> QED BY <1>2, <3>1
    <2> QED BY <1>0, <2>1, <2>2 DEF Unqueued
  <1>4. i \in server.auth =>
          Held(session'[i].out, Mail(i)', server'.mode, server'.match, Shows')
    <2> SUFFICES ASSUME i \in server.auth
                 PROVE Held(session'[i].out, Mail(i)', server'.mode, server'.match, Shows')
      OBVIOUS
    <2> DEFINE p == session'[i].out
    <2>1. Held(p, M, server.mode, server.match, Shows)
      BY <1>0, <1>1, HeldAnswer
    <2> HIDE DEF p
    <2>2. Held(p, Mail(i)', server.mode, server.match, Shows)
      BY <1>1, <1>2, <2>1, HeldMail
    <2>3. Held(p, Mail(i)', server.mode, server'.match, Shows)
      BY <2>2, HeldOver
    <2> QED BY <2>3 DEF p
  <1> QED BY <1>0, <1>3, <1>4, ButtonOne

\* Messages that do not raise the button.
LEMMA Unraised ==
  /\ \A t \in {"PlayerView", "GameEnded", "Notice", "Refusal", "Malformed",
               "GoodAuth", "MatchInProgress", "MatchOver", "ForfeitMatch"} :
       Msg(t) \in Messages \ Raises
  /\ \A t \in {"FriendAdded", "FriendRemoved", "FriendRequest", "Blocked",
               "Unblocked"}, u \in Others : About(t, u) \in Messages \ Raises
  /\ \A t \in ListTypes, S \in SUBSET Others :
       [type |-> "List", list |-> t, users |-> S] \in Messages \ Raises
  /\ \A t \in {"QueueFailed", "MatchStarting"} : Msg(t) \in Raises \cap Messages
  <1>1. \A t \in {"GoodAuth", "MatchStarting", "MatchInProgress", "PlayerView",
            "ForfeitMatch", "MatchOver", "GameEnded", "QueueFailed", "Notice",
            "Refusal", "Malformed"} : Msg(t) \in Messages
    BY PlainMessages DEF Msg
  <1>2. \A t \in {"FriendAdded", "FriendRemoved", "FriendRequest", "Blocked",
                   "Unblocked"} : \A u \in Others : About(t, u) \in Messages
    BY DEF About, Messages
  <1>3. \A t \in ListTypes, S \in SUBSET Others :
          [type |-> "List", list |-> t, users |-> S] \in Messages
    BY DEF Messages
  <1>4. \A t : Msg(t).type = t /\ \A u : About(t, u).type = t
    BY DEF Msg, About
  <1> QED BY <1>1, <1>2, <1>3, <1>4 DEF Raises, OfType

LEMMA ButtonLogin ==
  ASSUME Typed, Net, Button, NEW i \in Sessions, session[i].stage = "Up",
         i \notin server.auth, current' = current, Shows' = Shows,
         server'.auth = {i},
         server'.mode = IF server.auth = {} THEN server.mode ELSE NO_MODE,
         session[i].out # <<>>, session'[i].out = Tail(session[i].out),
         \/ Added(i, <<Msg("GoodAuth"), Msg("MatchInProgress")>>)
         \/ Added(i, <<Msg("MatchInProgress"), Msg("GoodAuth")>>)
         \/ Added(i, <<Msg("GoodAuth")>>)
  PROVE  Button'
  <1> DEFINE g == Msg("GoodAuth")
             p == Msg("MatchInProgress")
             M == Mail(i)
             o == session[i].out
  <1>0. /\ i = current /\ server.mode = NO_MODE /\ server.auth = {}
        /\ Shows = NO_MODE /\ Unqueued(o, M)
    BY OpenButton
  <1>1. /\ g \in Messages /\ p \in Messages /\ g \notin Raises /\ p \notin Raises
    BY Unraised
  <1>2. o \in Seq(Calls) /\ M \in Seq(Messages)
    BY MailType
  <1> HIDE DEF g, p
  <1>3. /\ \/ Mail(i)' = Append(Append(M, g), p)
           \/ Mail(i)' = Append(Append(M, p), g)
           \/ Mail(i)' = Append(M, g)
        /\ Append(M, g) \in Seq(Messages) /\ Append(M, p) \in Seq(Messages)
    BY <1>1, AddedMail DEF g, p
  <1> HIDE DEF M, o
  <1>4. ~Has(Mail(i)', Raises)
    <2> DEFINE N1 == Append(M, g)
               N2 == Append(M, p)
    <2>1. ~Has(N1, Raises) /\ ~Has(N2, Raises)
      BY <1>0, <1>1, <1>2, HasAppend DEF Unqueued
    <2>2. N1 \in Seq(Messages) /\ N2 \in Seq(Messages)
      BY <1>3
    <2>3. \/ Mail(i)' = Append(N1, p) \/ Mail(i)' = Append(N2, g)
          \/ Mail(i)' = N1
      BY <1>3
    <2> HIDE DEF N1, N2
    <2>4. ~Has(Append(N1, p), Raises) /\ ~Has(Append(N2, g), Raises)
      BY <1>1, <2>1, <2>2, HasAppend
    <2> QED BY <2>1, <2>3, <2>4
  <1>5. ~Has(session'[i].out, Queues)
    BY <1>0, <1>2, HasTail DEF Unqueued, o
  <1>6. Held(session'[i].out, Mail(i)', NO_MODE, server'.match, NO_MODE)
    BY <1>4, <1>5, HeldStart DEF Unqueued
  <1> QED BY <1>0, <1>6, ButtonOne

LEMMA ButtonAnswer ==
  ASSUME Typed, Net, Button, NEW i \in Sessions, Answer(i)
  PROVE  Button'
  <1> DEFINE c == Head(session[i].out)
             o == session[i].out
             M == Mail(i)
  <1>0. /\ session[i].stage = "Up" /\ o # <<>> /\ current' = current
        /\ UNCHANGED <<updates, queued_mode>>
    BY DEF Answer, gui
  <1>a. Shows' = Shows
    BY <1>0 DEF Shows
  <1>b. c \in Calls
    BY AnswerShape
  <1>c. /\ c \in Queues <=> c.call = "Queue"
        /\ c \in Cancels <=> c.call = "Cancel"
    BY <1>b DEF Queues, Cancels, OfCall
  <1>1. ASSUME \/ Answered(i, <<>>)
               \/ \E m \in Messages : Answered(i, <<m>>) /\ m \notin Raises,
               server'.auth = server.auth, server'.mode = server.mode,
               server'.match = server.match \/ server'.match = FALSE,
               i \in server.auth => c.call \notin {"Queue", "Cancel"}
        PROVE  Button'
    BY <1>0, <1>a, <1>c, <1>1, ButtonPlain DEF Answered
  <1>2. CASE /\ i \notin server.auth /\ server'.auth = {i}
             /\ server'.mode = IF server.auth = {} THEN server.mode ELSE NO_MODE
             /\ \/ Answered(i, <<Msg("GoodAuth"), Msg("MatchInProgress")>>)
                \/ Answered(i, <<Msg("MatchInProgress"), Msg("GoodAuth")>>)
                \/ Answered(i, <<Msg("GoodAuth")>>)
    BY <1>0, <1>a, <1>2, ButtonLogin DEF Answered
  <1>3. CASE /\ c.call \in {"Login", "Register"} \/ i \notin server.auth
             /\ SameAccount
             /\ \/ Answered(i, <<Msg("Refusal")>>)
                \/ Answered(i, <<Msg("Notice")>>)
    BY <1>1, <1>3, Unraised DEF SameAccount
  <1>4. CASE /\ c.call = "Fetch" /\ c.list \in ListTypes /\ SameAccount
             /\ Answered(i, <<[type |-> "List", list |-> c.list,
                               users |-> Of(c.list)]>>)
    <2> DEFINE m == [type |-> "List", list |-> c.list, users |-> Of(c.list)]
    <2>0. Of(c.list) \in SUBSET Others
      BY DEF Of
    <2>1. m \in Messages /\ m \notin Raises /\ Answered(i, <<m>>)
      BY <1>4, <2>0, Unraised
    <2> HIDE DEF m
    <2> QED BY <1>1, <1>4, <2>1 DEF SameAccount
  <1>5. CASE /\ c.call \in {"Respond", "Unfriend", "Block", "Unblock"}
             /\ AnswerUser(i, c)
    <2> DEFINE u == c.user
    <2>1. /\ u \in Others /\ server'.auth = server.auth
          /\ server'.match = server.match /\ server'.mode = server.mode
          /\ \/ Answered(i, <<>>)
             \/ \E t \in {"FriendAdded", "FriendRemoved", "Blocked", "Unblocked"} :
                   Answered(i, <<About(t, u)>>)
      BY <1>b, <1>5, UserShape DEF NewRelation, SameAccount
    <2> HIDE DEF u
    <2> QED BY <1>1, <1>5, <2>1, Unraised
  <1>6. CASE /\ c.call \in {"Befriend", "Send", "History", "GetReplay"}
             /\ SameAccount /\ Answered(i, <<>>)
    BY <1>1, <1>6 DEF SameAccount
  <1>7. CASE i \in server.auth /\ AnswerMatch(i, c)
    <2> DEFINE f == Msg("QueueFailed")
    <2>0. /\ i = current /\ server.auth # {} /\ f \in Raises /\ f \in Messages
          /\ Held(o, M, server.mode, server.match, Shows)
          /\ o \in Seq(Calls) /\ M \in Seq(Messages)
      BY <1>0, <1>7, OpenButton, MailType, Unraised
    <2> HIDE DEF f
    <2>a. /\ Answered(i, <<>>) => Mail(i)' = M /\ session'[i].out = Tail(o)
          /\ Answered(i, <<f>>) => Mail(i)' = Append(M, f) /\ session'[i].out = Tail(o)
      BY <2>0, AddedMail DEF Answered
    <2>b. ASSUME server'.auth = server.auth,
                 Held(session'[i].out, Mail(i)', server'.mode, server'.match, Shows)
          PROVE  Button'
      BY <1>0, <1>a, <1>7, <2>0, <2>b, ButtonOne
    <2> HIDE DEF M, o
    <2>1. CASE /\ c.call = "Queue" /\ SameAccount /\ Answered(i, <<f>>)
      <3>1. c \in Queues
        BY <1>c, <2>1
      <3>2. Held(Tail(o), Append(M, f), server.mode, server.match, Shows)
        BY <1>0, <2>0, <3>1, HeldQueued DEF o
      <3> QED BY <2>1, <2>a, <2>b, <3>2 DEF SameAccount
    <2>2. CASE c.call = "Queue" /\ NewMode(c.mode) /\ Answered(i, <<>>)
      <3>1. c \in Queues
        BY <1>c, <2>2
      <3>2. Held(Tail(o), M, c.mode, server.match, Shows)
        BY <1>0, <2>0, <3>1, HeldQueued DEF o
      <3> QED BY <2>2, <2>a, <2>b, <3>2 DEF NewMode
    <2>3. CASE c.call = "Cancel" /\ server.match /\ NewMode(NO_MODE) /\ Answered(i, <<f>>)
      <3>1. c \in Cancels
        BY <1>c, <2>3
      <3>2. Held(Tail(o), Append(M, f), NO_MODE, server.match, Shows)
        BY <1>0, <2>0, <2>3, <3>1, HeldCancelled DEF o
      <3> QED BY <2>3, <2>a, <2>b, <3>2 DEF NewMode
    <2>4. CASE c.call = "Cancel" /\ ~server.match /\ NewMode(NO_MODE) /\ Answered(i, <<>>)
      <3>1. c \in Cancels
        BY <1>c, <2>4
      <3>2. Held(Tail(o), M, NO_MODE, server.match, Shows)
        BY <1>0, <2>0, <2>4, <3>1, HeldCancelled DEF o
      <3> QED BY <2>4, <2>a, <2>b, <3>2 DEF NewMode
    <2>5. CASE /\ c.call \in {"Command", "Forfeit"}
               /\ SameAccount \/ NewMatch(server.mode, FALSE)
               /\ \/ Answered(i, <<>>)
                  \/ \E t \in {"PlayerView", "GameEnded", "ForfeitMatch"} :
                       Answered(i, <<Msg(t)>>)
      BY <1>1, <2>5, Unraised DEF SameAccount, NewMatch
    <2> QED BY <1>b, <1>7, <2>1, <2>2, <2>3, <2>4, <2>5, MatchShape DEF f
  <1> QED BY <1>2, <1>3, <1>4, <1>5, <1>6, <1>7, AnswerShape

LEMMA ButtonUnasked ==
  ASSUME Typed, Net, Button, NEW i \in Sessions, Unasked(i)
  PROVE  Button'
  <1> DEFINE o == session[i].out
             M == Mail(i)
  <1>0. /\ session[i].stage = "Up" /\ current' = current
        /\ UNCHANGED <<updates, queued_mode>>
    BY DEF Unasked, gui
  <1>a. Shows' = Shows
    BY <1>0 DEF Shows
  <1>1. ASSUME NEW m \in Messages, Wired(i, <<m>>), m \notin Raises,
               server'.auth = server.auth, server'.mode = server.mode,
               server'.match = server.match \/ server'.match = FALSE
        PROVE  Button'
    BY <1>0, <1>a, <1>1, ButtonPlain DEF Wired
  <1>2. CASE i \in server.auth /\ News(i)
    <2> DEFINE f == Msg("QueueFailed")
               g == Msg("MatchStarting")
               p == Msg("PlayerView")
    <2>0. /\ i = current /\ server.auth # {}
          /\ Held(o, M, server.mode, server.match, Shows)
          /\ M \in Seq(Messages)
      BY <1>0, <1>2, OpenButton, MailType
    <2>1. /\ f \in Raises /\ f \in Messages /\ g \in Raises /\ g \in Messages
          /\ p \in Messages /\ p \notin Raises
      BY Unraised
    <2> HIDE DEF f, g, p
    <2>a. /\ Wired(i, <<f>>) => Mail(i)' = Append(M, f) /\ session'[i].out = o
          /\ Wired(i, <<g, p>>) => /\ Mail(i)' = Append(Append(M, g), p)
                                   /\ session'[i].out = o
          /\ Append(M, g) \in Seq(Messages)
      BY <2>1, AddedMail DEF Wired
    <2>b. ASSUME server'.auth = server.auth,
                 Held(session'[i].out, Mail(i)', server'.mode, server'.match, Shows)
          PROVE  Button'
      BY <1>0, <1>a, <1>2, <2>0, <2>b, ButtonOne
    <2> HIDE DEF M, o
    <2>2. CASE server.mode # NO_MODE /\ NewMatch(NO_MODE, TRUE) /\ Wired(i, <<g, p>>)
      <3> DEFINE N == Append(M, g)
      <3>1. N \in Seq(Messages) /\ Held(o, N, NO_MODE, TRUE, Shows)
        BY <2>0, <2>1, <2>2, <2>a, HeldRaise
      <3> HIDE DEF N
      <3>2. Held(o, Append(N, p), NO_MODE, TRUE, Shows)
        BY <2>1, <3>1, HeldMail
      <3> QED BY <2>2, <2>a, <2>b, <3>2 DEF NewMatch, N
    <2>3. CASE server.mode # NO_MODE /\ NewMode(NO_MODE) /\ Wired(i, <<f>>)
      <3>1. Held(o, Append(M, f), NO_MODE, server.match, Shows)
        BY <2>0, <2>1, <2>3, HeldRaise
      <3> QED BY <2>3, <2>a, <2>b, <3>1 DEF NewMode
    <2>4. CASE SameAccount /\ Wired(i, <<p>>)
      BY <1>1, <2>1, <2>4 DEF SameAccount
    <2>5. CASE NewMatch(server.mode, FALSE) /\ Wired(i, <<Msg("MatchOver")>>)
      BY <1>1, <2>5, Unraised DEF NewMatch
    <2>6. ASSUME NEW u \in Others, NEW r, NewRelation(u, r),
                 NEW t \in {"FriendAdded", "FriendRemoved", "FriendRequest"},
                 Wired(i, <<About(t, u)>>)
          PROVE  Button'
      BY <1>1, <2>6, Unraised DEF NewRelation
    <2> QED BY <1>2, <2>2, <2>3, <2>4, <2>5, <2>6, NewsShape DEF f, g, p
  <1>3. CASE Wire(i, <<[type |-> "Malformed"]>>) /\ UNCHANGED server
    <2>1. Wired(i, <<Msg("Malformed")>>)
      <3>1. <<Msg("Malformed")>> \in Seq(Messages)
        BY PlainMessage
      <3> QED BY <1>3, <3>1, WireShape DEF Msg
    <2> QED BY <1>1, <1>3, <2>1, Unraised
  <1>4. CASE session' = [session EXCEPT ![i].peer = FALSE] /\ UNCHANGED server
    <2>1. AllSame
      BY <1>4, PeerShape
    <2> QED BY <1>0, <1>a, <1>4, <2>1, ButtonSame DEF AllSame, Same
  <1> QED BY <1>2, <1>3, <1>4 DEF Unasked

LEMMA NextButton == Typed /\ NetInv /\ ButtonInv /\ [Next]_vars => ButtonInv'
  <1> SUFFICES ASSUME Typed, NetInv, ButtonInv, [Next]_vars, OneAtATime',
                      ~ghost'.late, ~ghost'.requeued, ~ghost'.kept
               PROVE  Button'
    BY DEF ButtonInv
  <1>1. Net /\ Button
    BY NextGrows DEF NetInv, ButtonInv, OneAtATime, Grows
  <1> QED BY <1>1, ButtonClicks, ButtonGui, ButtonConnecting, ButtonReading,
             ButtonMessage, ButtonAnswer, ButtonUnasked, ButtonStrand DEF Next

LEMMA InitButton == Init => Button
  <1> SUFFICES ASSUME Init PROVE Button
    OBVIOUS
  <1>0. MaxSessions \in Nat \ {0}
    BY ClientBounds
  <1>1. updates = <<>> /\ Shows = queued_mode
    BY DEF Init, Common, Shows
  <1>2. Started => Button
    BY <1>0, <1>1 DEF Started, Button, Sessions
  <1>3. ASSUME NEW mode, NEW match, LoggedIn(mode, match) PROVE Button
    <2>1. /\ current = 1 /\ server.auth = {1} /\ server.match = match
          /\ server.mode = mode /\ queued_mode = mode
      BY <1>3 DEF LoggedIn
    <2>2. 1 \in Sessions
      BY <1>0 DEF Sessions
    <2>3. session[1] = [NewSession EXCEPT !.stage = "Up", !.live = TRUE]
      BY <1>3, <2>2 DEF LoggedIn
    <2>4. /\ session[1].out = <<>>
          /\ session[1].posted = <<>> /\ session[1].wire = <<>>
      BY <2>3 DEF NewSession
    <2>5. Mail(1) = <<>>
      <3>1. <<>> \o <<>> = <<>>
        OBVIOUS
      <3> QED BY <2>4, <3>1 DEF Mail
    <2>6. Held(<<>>, <<>>, mode, match, mode)
      BY EmptyQueue DEF Held
    <2>7. ButtonOf(1)
      BY <1>1, <2>1, <2>4, <2>5, <2>6 DEF ButtonOf
    <2> QED BY <2>1, <2>7 DEF Button
  <1> QED BY <1>2, <1>3 DEF Init

\* The queue button shows the queue the server has the user in.
THEOREM ButtonIsTrue == Spec => []ButtonFollowsServer
  <1>1. Typed /\ NetInv /\ ButtonInv => ButtonFollowsServer
    <2> SUFFICES ASSUME Typed, NetInv, ButtonInv, AtRest, ~exit.asked,
                        ~ghost.late, ~ghost.doubled, ~ghost.requeued,
                        ~ghost.kept, Connected, current \in server.auth
                 PROVE  queued_mode = server.mode
      BY DEF ButtonFollowsServer
    <2>1. Button
      BY DEF ButtonInv, OneAtATime
    <2>2. PICK i \in Sessions : i = current
      BY CurrentSession DEF Connected
    <2>3. Settled(i) /\ updates = <<>>
      BY DEF AtRest
    <2>4. Mail(i) = <<>> /\ session[i].out = <<>>
      <3>1. <<>> \o <<>> = <<>>
        OBVIOUS
      <3> QED BY <2>3, <3>1 DEF Settled, Mail
    <2>5. Held(<<>>, <<>>, server.mode, server.match, Shows)
      BY <2>1, <2>2, <2>4 DEF Button, ButtonOf
    <2>6. Shows = server.mode
      BY <2>5, EmptyQueue DEF Held
    <2> QED BY <2>3, <2>6 DEF Shows
  <1>2. Init => NetInv /\ ButtonInv
    BY InitNet, InitButton DEF NetInv, ButtonInv
  <1> QED BY <1>1, <1>2, InitTyped, NextTyped, NextNet, NextButton, PTL DEF Spec

-----------------------------------------------------------------------------
(* The lists of users.                                                     *)

\* The messages that put user u on list t, and the ones that take it off.
Adds(t, u) ==
  {m \in Messages :
     \/ m.type = "List" /\ m.list = t /\ u \in m.users
     \/ t = "Friends" /\ m.type = "FriendAdded" /\ m.user = u
     \/ t = "FriendRequests" /\ m.type = "FriendRequest" /\ m.user = u
     \/ t = "Blocks" /\ m.type = "Blocked" /\ m.user = u}
Removes(t, u) ==
  {m \in Messages :
     \/ t = "Friends" /\ m.type \in {"FriendRemoved", "Blocked"} /\ m.user = u
     \/ t = "FriendRequests" /\ m.type = "Blocked" /\ m.user = u
     \/ t = "Blocks" /\ m.type = "Unblocked" /\ m.user = u}
Listings == OfType({"List", "FriendAdded", "FriendRemoved", "FriendRequest",
                    "Blocked", "Unblocked"})

\* The answers to the request of user u, and what must not come before one:
\* what brings the request back, and another answer.
Replies(u) == {c \in Calls : c.call = "Respond" /\ c.user = u}
Bars(u) == {c \in Calls : \/ c = Fetch("FriendRequests")
                          \/ c.call \in {"Respond", "Unblock"} /\ c.user = u}

\* Whether u is on list t once the messages s are handled.
Listing(t, u, L, s) == Final(u, L[t], s, Adds(t, u), Removes(t, u))

\* The lists L agree with what the server holds about u, r, once the messages
\* s are handled: but for the lists of T, which are still to come, and a
\* request whose answer is among the requests o.
Synced(u, r, L, s, o, T) ==
  /\ \A t \in ListTypes :
       /\ r = t /\ t \notin T /\ ~(t = "FriendRequests" /\ Has(o, Replies(u)))
            => Listing(t, u, L, s)
       /\ r # t => ~Listing(t, u, L, s)
  /\ Has(o, Replies(u)) =>
       /\ r \in {"FriendRequests", "Blocks"}
       /\ ~Listing("FriendRequests", u, L, s)
       /\ NoneBefore(o, Replies(u), Bars(u))

LEMMA SyncedMore ==
  ASSUME NEW u, NEW r, NEW L, NEW s, NEW o, NEW T, Synced(u, r, L, s, o, T),
         NEW V, T \subseteq V
  PROVE  Synced(u, r, L, s, o, V)
  BY DEF Synced

LEMMA SyncedLists ==
  ASSUME NEW u, NEW r, NEW L, NEW s, NEW o, NEW T, Synced(u, r, L, s, o, T),
         NEW K, \A t \in ListTypes : u \in K[t] <=> u \in L[t]
  PROVE  Synced(u, r, K, s, o, T)
  <1>1. \A t \in ListTypes : Listing(t, u, K, s) <=> Listing(t, u, L, s)
    BY DEF Listing, Final
  <1>2. "FriendRequests" \in ListTypes
    BY DEF ListTypes
  <1> QED BY <1>1, <1>2 DEF Synced

LEMMA SyncedTook ==
  ASSUME NEW u, NEW r, NEW L, NEW s \in Seq(Messages), NEW o, NEW T,
         Synced(u, r, L, s, o, T), s # <<>>, NEW K,
         \A t \in ListTypes : u \in K[t] <=> \/ Head(s) \in Adds(t, u)
                                             \/ /\ u \in L[t]
                                                /\ Head(s) \notin Removes(t, u)
  PROVE  Synced(u, r, K, Tail(s), o, T)
  <1>1. ASSUME NEW t \in ListTypes
        PROVE  Listing(t, u, K, Tail(s)) <=> Listing(t, u, L, s)
    BY FinalTail DEF Listing
  <1>2. "FriendRequests" \in ListTypes
    BY DEF ListTypes
  <1> QED BY <1>1, <1>2 DEF Synced

LEMMA SyncedSend ==
  ASSUME NEW u, NEW r, NEW L, NEW s, NEW o \in Seq(Calls), NEW T,
         Synced(u, r, L, s, o, T), NEW c, c \notin Replies(u)
  PROVE  Synced(u, r, L, s, Append(o, c), T)
  <1> DEFINE p == Append(o, c)
  <1>1. Has(p, Replies(u)) <=> Has(o, Replies(u))
    BY HasAppend
  <1>2. NoneBefore(o, Replies(u), Bars(u)) => NoneBefore(p, Replies(u), Bars(u))
    BY NoneBeforeAppend
  <1> HIDE DEF p
  <1>3. Synced(u, r, L, s, p, T)
    BY <1>1, <1>2 DEF Synced
  <1> QED BY <1>3 DEF p

LEMMA SyncedReply ==
  ASSUME NEW u, NEW r, NEW L, NEW s, NEW o \in Seq(Calls), NEW T,
         Synced(u, r, L, s, o, T), NEW c, c \in Replies(u),
         u \in L["FriendRequests"],
         ~Has(s, Adds("FriendRequests", u)), ~Has(s, Removes("FriendRequests", u)),
         \A x \in Bars(u) \ Replies(u) : ~Has(o, {x}),
         NEW K, u \notin K["FriendRequests"],
         \A t \in ListTypes \ {"FriendRequests"} : K[t] = L[t]
  PROVE  Synced(u, r, K, s, Append(o, c), T)
  <1> DEFINE p == Append(o, c)
             f == "FriendRequests"
  <1>0. f \in ListTypes
    BY DEF ListTypes
  <1>1. Listing(f, u, L, s)
    BY DEF Listing, Final
  <1>2. r = f /\ ~Has(o, Replies(u))
    BY <1>0, <1>1 DEF Synced
  <1>3. ~Listing(f, u, K, s)
    BY PendingHas DEF Listing, Final
  <1>4. \A t \in ListTypes \ {f} : Listing(t, u, K, s) <=> Listing(t, u, L, s)
    BY DEF Listing
  <1>5. Has(p, Replies(u))
    BY HasAppend
  <1>6. ~Has(o, Bars(u))
    BY <1>2 DEF Has
  <1>7. NoneBefore(p, Replies(u), Bars(u))
    <2>1. NoneBefore(o, Replies(u), Bars(u))
      BY <1>2, NoneBeforeNone
    <2> QED BY <1>6, <2>1, NoneBeforeAppend
  <1> HIDE DEF p
  <1>8. Synced(u, r, K, s, p, T)
    BY <1>0, <1>2, <1>3, <1>4, <1>5, <1>7 DEF Synced
  <1> QED BY <1>8 DEF p

LEMMA SyncedAnswer ==
  ASSUME NEW u, NEW r, NEW L, NEW s, NEW o \in Seq(Calls), o # <<>>, NEW T,
         Synced(u, r, L, s, o, T), Head(o) \notin Replies(u)
  PROVE  /\ Synced(u, r, L, s, Tail(o), T)
         /\ Has(Tail(o), Replies(u)) <=> Has(o, Replies(u))
         /\ Head(o) \in Bars(u) => ~Has(o, Replies(u))
  <1> DEFINE p == Tail(o)
  <1>1. Has(p, Replies(u)) <=> Has(o, Replies(u))
    BY HasTail
  <1>2. /\ NoneBefore(o, Replies(u), Bars(u)) => NoneBefore(p, Replies(u), Bars(u))
        /\ NoneBefore(o, Replies(u), Bars(u)) /\ Head(o) \in Bars(u)
             => ~Has(p, Replies(u))
    BY NoneBeforeTail
  <1> HIDE DEF p
  <1>3. Synced(u, r, L, s, p, T)
    BY <1>1, <1>2 DEF Synced
  <1>4. Head(o) \in Bars(u) => ~Has(o, Replies(u))
    BY <1>1, <1>2 DEF Synced
  <1> QED BY <1>1, <1>3, <1>4 DEF p

LEMMA SyncedMail ==
  ASSUME NEW u, NEW r, NEW L, NEW s \in Seq(Messages), NEW o, NEW T,
         Synced(u, r, L, s, o, T), NEW m,
         \A t \in ListTypes : m \notin Adds(t, u) /\ m \notin Removes(t, u)
  PROVE  Synced(u, r, L, Append(s, m), o, T)
  <1>1. ASSUME NEW t \in ListTypes
        PROVE  Listing(t, u, L, Append(s, m)) <=> Listing(t, u, L, s)
    BY FinalAppend DEF Listing
  <1>2. "FriendRequests" \in ListTypes
    BY DEF ListTypes
  <1> QED BY <1>1, <1>2 DEF Synced

\* A list arrives.
LEMMA SyncedList ==
  ASSUME NEW u, NEW r, NEW L, NEW s \in Seq(Messages), NEW o \in Seq(Calls),
         o # <<>>, NEW T, Synced(u, r, L, s, o, T), NEW k \in ListTypes,
         Head(o) = Fetch(k), NEW m,
         m \in Adds(k, u) <=> r = k,
         \A t \in ListTypes \ {k} : m \notin Adds(t, u),
         \A t \in ListTypes : m \notin Removes(t, u)
  PROVE  Synced(u, r, L, Append(s, m), Tail(o), T \ {k})
  <1> DEFINE f == "FriendRequests"
             p == Tail(o)
             n == Append(s, m)
  <1>0. f \in ListTypes /\ Head(o) \in Calls
    BY HeadTailProperties DEF ListTypes
  <1>1. Head(o) \notin Replies(u)
    BY DEF Fetch, Replies
  <1>2. /\ Synced(u, r, L, s, p, T)
        /\ Has(p, Replies(u)) <=> Has(o, Replies(u))
        /\ Head(o) \in Bars(u) => ~Has(o, Replies(u))
    BY <1>1, SyncedAnswer
  <1>3. k = f => ~Has(o, Replies(u))
    BY <1>0, <1>2 DEF Bars
  <1>4. ASSUME NEW t \in ListTypes
        PROVE  Listing(t, u, L, n) <=> m \in Adds(t, u) \/ Listing(t, u, L, s)
    BY FinalAppend DEF Listing
  <1> HIDE DEF p, n
  <1>5. Synced(u, r, L, n, p, T \ {k})
    BY <1>0, <1>2, <1>3, <1>4 DEF Synced
  <1> QED BY <1>5 DEF p, n

\* What the server holds about u changes, and m says so.
LEMMA SyncedChange ==
  ASSUME NEW u, NEW r, NEW L, NEW s \in Seq(Messages), NEW o, NEW T,
         Synced(u, r, L, s, o, T), NEW q, NEW m,
         \A t \in ListTypes : /\ m \in Adds(t, u) <=> q = t
                              /\ r = t /\ q # t => m \in Removes(t, u),
         Has(o, Replies(u)) => q = "Blocks"
  PROVE  Synced(u, q, L, Append(s, m), o, T)
  <1> DEFINE n == Append(s, m)
  <1>1. ASSUME NEW t \in ListTypes
        PROVE  Listing(t, u, L, n) <=>
                 m \in Adds(t, u) \/ (Listing(t, u, L, s) /\ m \notin Removes(t, u))
    BY FinalAppend DEF Listing
  <1>2. "FriendRequests" \in ListTypes
    BY DEF ListTypes
  <1> HIDE DEF n
  <1>3. \A t \in ListTypes : IF q = t THEN Listing(t, u, L, n) ELSE ~Listing(t, u, L, n)
    BY <1>1 DEF Synced
  <1>4. Synced(u, q, L, n, o, T)
    BY <1>2, <1>3 DEF Synced
  <1> QED BY <1>4 DEF n

\* The answer to a request arrives at the server.
LEMMA SyncedReplied ==
  ASSUME NEW u, NEW r, NEW L, NEW s \in Seq(Messages), NEW o \in Seq(Calls),
         o # <<>>, NEW T, Synced(u, r, L, s, o, T), Head(o) \in Replies(u)
  PROVE  /\ r # "FriendRequests" => Synced(u, r, L, s, Tail(o), T)
         /\ Synced(u, "none", L, s, Tail(o), T) \/ r # "FriendRequests"
         /\ ~Has(Tail(o), Replies(u))
  <1> DEFINE f == "FriendRequests"
             p == Tail(o)
  <1>0. /\ f \in ListTypes /\ "none" \notin ListTypes /\ Head(o) \in Bars(u)
    BY DEF ListTypes, Replies, Bars
  <1>1. Has(o, Replies(u))
    BY HasTail
  <1>2. ~Listing(f, u, L, s) /\ NoneBefore(o, Replies(u), Bars(u))
    BY <1>1 DEF Synced
  <1>3. ~Has(p, Replies(u))
    BY <1>0, <1>2, NoneBeforeTail
  <1> HIDE DEF p
  <1>4. r # f => Synced(u, r, L, s, p, T)
    BY <1>0, <1>2, <1>3 DEF Synced
  <1>5. r = f => Synced(u, "none", L, s, p, T)
    BY <1>0, <1>2, <1>3 DEF Synced
  <1> QED BY <1>3, <1>4, <1>5 DEF p

\* The lists that are still to come: the login has yet to be handled, or the
\* request for them is on the strand or on its way.
Coming(i) ==
  {t \in ListTypes : \/ Has(Mail(i), Welcome)
                     \/ Has(strand, {Fetch(t)})
                     \/ Has(session[i].out, {Fetch(t)})}

\* Before the login: nothing about users on its way, either way.
Unlisted(o, s) == ~Has(s, Listings) /\ ~Has(o, OfCall({"Respond"}))

\* The lists while i is the session in use.
ListOf(i) ==
  /\ session[i].stage = "Up" /\ i \notin server.auth =>
       Unlisted(session[i].out, Mail(i))
  /\ i \in server.auth => \A u \in Others :
       Synced(u, server.rel[u], lists, Mail(i), session[i].out, Coming(i))

ListOK ==
  /\ current \notin server.auth /\ ~Lost => \A t \in ListTypes : lists[t] = {}
  /\ \A i \in Sessions : i = current => ListOf(i)

ListInv == OneAtATime /\ ~ghost.late /\ ~ghost.overtaken => ListOK

\* No request for a list is lost from the strand.
KeepsFetches ==
  \A t \in ListTypes : Has(strand, {Fetch(t)}) => Has(strand', {Fetch(t)})

LEMMA SyncedStart ==
  ASSUME NEW u \in Others, NEW r, NEW L, NEW s, NEW o, Unlisted(o, s),
         \A t \in ListTypes : L[t] = {}
  PROVE  Synced(u, r, L, s, o, ListTypes)
  <1>1. ASSUME NEW t \in ListTypes PROVE ~Listing(t, u, L, s)
    <2>1. Adds(t, u) \subseteq Listings
      BY DEF Adds, Listings, OfType
    <2>2. ~Has(s, Adds(t, u))
      BY <2>1 DEF Unlisted, Has
    <2>3. ~Pending(s, Adds(t, u), Removes(t, u))
      BY <2>2, PendingHas
    <2> QED BY <2>3 DEF Listing, Final
  <1>2. ~Has(o, Replies(u))
    <2>1. Replies(u) \subseteq OfCall({"Respond"})
      BY DEF Replies, OfCall
    <2> QED BY <2>1 DEF Unlisted, Has
  <1> QED BY <1>1, <1>2 DEF Synced

LEMMA ListSame ==
  ASSUME Typed, ListOK, current' = current, lists' = lists,
         server'.auth = server.auth, server'.rel = server.rel,
         \A j \in Sessions : /\ session'[j].stage = session[j].stage
                             /\ session'[j].reported = session[j].reported
                             /\ session'[j].out = session[j].out
                             /\ Mail(j)' = Mail(j),
         KeepsFetches
  PROVE  ListOK'
  <1>1. Lost' <=> Lost
    BY SameLost
  <1>2. ASSUME NEW i \in Sessions, i = current PROVE ListOf(i)'
    <2>1. ListOf(i)
      BY <1>2 DEF ListOK
    <2>2. Coming(i) \subseteq Coming(i)'
      BY DEF Coming, KeepsFetches
    <2>3. i \in server.auth => \A u \in Others :
            Synced(u, server.rel[u], lists, Mail(i), session[i].out, Coming(i)')
      BY <2>1, <2>2, SyncedMore DEF ListOf
    <2> QED BY <2>1, <2>3 DEF ListOf
  <1> QED BY <1>1, <1>2 DEF ListOK

\* Something happens on the open session in use.
LEMMA ListOne ==
  ASSUME NEW i \in Sessions, i = current, current' = current,
         i \notin server'.auth =>
           /\ \A t \in ListTypes : lists'[t] = {}
           /\ Unlisted(session'[i].out, Mail(i)'),
         i \in server'.auth => \A u \in Others :
           Synced(u, server'.rel[u], lists', Mail(i)', session'[i].out, Coming(i)')
  PROVE  ListOK'
  <1>1. ListOf(i)'
    BY DEF ListOf
  <1> QED BY <1>1 DEF ListOK

LEMMA OpenLists ==
  ASSUME Typed, Net, ListOK, NEW i \in Sessions, session[i].stage = "Up"
  PROVE  /\ i = current
         /\ i \notin server.auth =>
              /\ \A t \in ListTypes : lists[t] = {}
              /\ Unlisted(session[i].out, Mail(i))
         /\ i \in server.auth => \A u \in Others :
              Synced(u, server.rel[u], lists, Mail(i), session[i].out, Coming(i))
  <1>1. i = current
    BY OnlyCurrent
  <1>2. ListOf(i) /\ ~Lost
    BY <1>1 DEF ListOK, Lost
  <1> QED BY <1>1, <1>2 DEF ListOf, ListOK

LEMMA PostKeeps ==
  ASSUME Typed, NEW c, strand' = Append(strand, c)
  PROVE  KeepsFetches
  <1>1. strand \in Seq(Calls)
    BY DEF Typed, TypedStrand
  <1> QED BY <1>1, HasAppend DEF KeepsFetches

LEMMA ListClicks ==
  ASSUME Typed, Net, ListOK, Clicks, OneAtATime'
  PROVE  ListOK'
  <1>1. ~shutdown
    BY DEF shutdown, OneAtATime, Typed, TypedStrand
  <1>2. /\ AllSame /\ current' = current /\ server' = server /\ lists' = lists
        /\ KeepsFetches
    <2>1. ASSUME NEW c, Posted(c) PROVE <1>2!:
      BY <2>1, NothingChanged, PostKeeps DEF Posted, Post, core
    <2>2. CASE ClosePopup \/ start_replay \/ close_replay
      BY <2>2, NothingChanged DEF ClosePopup, start_replay, close_replay, core,
         KeepsFetches
    <2> QED BY <1>1, <2>1, <2>2, ClickShape
  <1> QED BY <1>2, ListSame DEF AllSame, Same

LEMMA ListGui ==
  ASSUME Typed, Net, ListOK,
         \/ ShowScreen \/ UpdateButton \/ ShowPopup \/ UNCHANGED vars
         \/ \E t \in Threads : Tell(t)
  PROVE  ListOK'
  <1>1. AllSame /\ current' = current /\ server' = server /\ lists' = lists
        /\ KeepsFetches
    BY NothingChanged DEF ShowScreen, UpdateButton, ShowPopup, vars, core, Tell,
       KeepsFetches
  <1> QED BY <1>1, ListSame DEF AllSame, Same

LEMMA ListConnecting ==
  ASSUME Typed, Net, ListOK, NEW i \in Sessions,
         \/ on_resolve(i) \/ TimerExpires(i) \/ on_connect_timeout(i)
         \/ on_connect(i) \/ Verified(i)
  PROVE  ListOK'
  <1>1. /\ Stepped(i) /\ current' = current /\ server' = server
        /\ lists' = lists /\ KeepsFetches
        /\ \/ session'[i].stage = session[i].stage
           \/ session[i].stage \in {"Resolving", "Connecting", "Handshake"}
    <2>1. CASE \/ on_resolve(i) \/ TimerExpires(i) \/ on_connect_timeout(i)
               \/ on_connect(i)
      BY <2>1, ConnectingShape DEF Quiet, core, KeepsFetches
    <2>2. CASE Verified(i)
      BY <2>2, VerifiedShape DEF Verified, KeepsFetches
    <2> QED BY <2>1, <2>2
  <1>3. CASE session'[i].stage = session[i].stage
    BY <1>1, <1>3, ListSame DEF Stepped, SameBut, Same
  <1>4. CASE session'[i].stage # session[i].stage
    <2>1. i = current
      BY <1>1, <1>4, OnlyCurrent
    <2>2. Sound(i)
      BY DEF Net
    <2>3. i \notin server.auth /\ Mail(i) = <<>> /\ session[i].out = <<>>
      BY <1>1, <1>4, <2>2 DEF Sound
    <2>4. \A t \in ListTypes : lists[t] = {}
      BY <1>1, <1>4, <2>1, <2>3 DEF ListOK, Lost
    <2>5. Unlisted(session'[i].out, Mail(i)')
      BY <1>1, <2>3, EmptyQueue DEF Unlisted, Stepped
    <2> QED BY <1>1, <2>1, <2>3, <2>4, <2>5, ListOne
  <1> QED BY <1>3, <1>4

LEMMA ListEnded ==
  ASSUME Typed, Net, NEW i \in Sessions, Ended(i), current' = current
  PROVE  ListOK'
  <1>1. i = current /\ current # 0
    BY OnlyCurrent DEF Ended
  <1>2. ~session[i].reported
    BY DEF Net, Sound, Ended
  <1>3. Lost'
    BY <1>1, <1>2 DEF Lost, Ended
  <1>5. ListOf(i)'
    BY DEF ListOf, Ended
  <1> QED BY <1>1, <1>3, <1>5 DEF ListOK

LEMMA ListReading ==
  ASSUME Typed, Net, ListOK, NEW i \in Sessions,
         \/ BadTLS(i) \/ Read(i) \/ handle_read_error(i)
         \/ force_close_session(i)
  PROVE  ListOK'
  <1>1. current' = current
    BY DEF BadTLS, Read, Quiet, handle_read_error, force_close_session
  <1>2. CASE Read(i)
    <2>1. AllSame /\ server' = server /\ lists' = lists /\ KeepsFetches
      BY <1>2, ReadShape DEF Read, Quiet, core, KeepsFetches
    <2> QED BY <1>1, <2>1, ListSame DEF AllSame, Same
  <1>3. CASE Ended(i)
    BY <1>1, <1>3, ListEnded
  <1> QED BY <1>2, <1>3, NetReading

\* What a message does to the lists.
LEMMA ListedUsers ==
  ASSUME Typed, NEW m \in Listings, NEW t \in ListTypes, NEW u \in Others
  PROVE  u \in Listed(m)[t] <=> \/ m \in Adds(t, u)
                                \/ u \in lists[t] /\ m \notin Removes(t, u)
  <1>0. lists \in [ListTypes -> SUBSET Others] /\ m \in Messages
    BY DEF Typed, TypedData, Listings, OfType
  <1>1. CASE m.type = "List"
    <2>1. Listed(m) = [lists EXCEPT ![m.list] = @ \cup m.users] /\ m.list \in ListTypes
      BY <1>0, <1>1 DEF Listed, load_user_list, Messages
    <2> QED BY <1>0, <1>1, <2>1 DEF Adds, Removes
  <1>2. CASE m.type = "FriendAdded"
    <2>1. Listed(m) = [lists EXCEPT !["Friends"] = @ \cup {m.user}]
      BY <1>2 DEF Listed
    <2> QED BY <1>0, <1>2, <2>1 DEF Adds, Removes
  <1>3. CASE m.type = "FriendRemoved"
    <2>1. Listed(m) = [lists EXCEPT !["Friends"] = @ \ {m.user}]
      BY <1>3 DEF Listed
    <2> QED BY <1>0, <1>3, <2>1 DEF Adds, Removes
  <1>4. CASE m.type = "FriendRequest"
    <2>1. Listed(m) = [lists EXCEPT !["FriendRequests"] = @ \cup {m.user}]
      BY <1>4 DEF Listed
    <2> QED BY <1>0, <1>4, <2>1 DEF Adds, Removes
  <1>5. CASE m.type = "Blocked"
    <2>1. Listed(m) = [lists EXCEPT !["Blocks"] = @ \cup {m.user},
                                    !["Friends"] = @ \ {m.user},
                                    !["FriendRequests"] = @ \ {m.user}]
      BY <1>5 DEF Listed, NotifyBlocked
    <2>2. /\ Listed(m)["Blocks"] = lists["Blocks"] \cup {m.user}
          /\ Listed(m)["Friends"] = lists["Friends"] \ {m.user}
          /\ Listed(m)["FriendRequests"] = lists["FriendRequests"] \ {m.user}
      BY <1>0, <2>1 DEF ListTypes
    <2> QED BY <1>0, <1>5, <2>2 DEF Adds, Removes, ListTypes
  <1>6. CASE m.type = "Unblocked"
    <2>1. Listed(m) = [lists EXCEPT !["Blocks"] = @ \ {m.user}]
      BY <1>6 DEF Listed
    <2> QED BY <1>0, <1>6, <2>1 DEF Adds, Removes
  <1> QED BY <1>0, <1>1, <1>2, <1>3, <1>4, <1>5, <1>6 DEF Listings, OfType

LEMMA UnlistedMessage ==
  ASSUME NEW m, m \notin Listings, NEW t, NEW u
  PROVE  m \notin Adds(t, u) /\ m \notin Removes(t, u)
  BY DEF Listings, OfType, Adds, Removes

LEMMA MessageLists ==
  ASSUME Typed, Net, NEW i \in Sessions, on_message(i), ~ghost'.late
  PROVE  LET m == Head(Mail(i)) IN
         /\ m \in Listings => ~session[i].reported /\ lists' = Listed(m)
         /\ m \notin Listings => lists' = lists
  <1> DEFINE m == Head(Mail(i))
  <1>0. m = Head(session[i].posted) /\ m \in Messages /\ ghost \in Races
    BY MessageShape DEF Typed, TypedState
  <1>a. m \in Listings <=> m.type \in {"List", "FriendAdded", "FriendRemoved",
                                       "FriendRequest", "Blocked", "Unblocked"}
    BY <1>0 DEF Listings, OfType
  <1> HIDE DEF m
  <1>1. CASE m \in Listings /\ UsersUpdated(i, m)
    <2>1. Tardy(i) /\ lists' = Listed(m)
      BY <1>1 DEF UsersUpdated
    <2>2. ~session[i].reported
      BY <1>0, <2>1, TardyGrows
    <2> QED BY <1>1, <2>1, <2>2 DEF m
  <1>2. CASE \/ m.type = "GoodAuth" /\ GoodAuth(i)
             \/ m.type = "MatchStarting" /\ MatchStarting(i)
             \/ m.type = "MatchInProgress" /\ MatchInProgress(i)
             \/ m.type = "PlayerView" /\ PlayerView(i)
             \/ m.type \in {"ForfeitMatch", "MatchOver"} /\ MatchOver(i, m)
             \/ m.type = "GameEnded" /\ GameEnded(i)
             \/ m.type = "QueueFailed" /\ QueueFailed(i)
             \/ m.type = "Notice" /\ Notice(i)
             \/ m.type = "Refusal" /\ Refusal(i)
             \/ m.type = "Malformed" /\ Malformed(i)
    <2>1. lists' = lists
      BY <1>2 DEF GoodAuth, MatchStarting, MatchInProgress, PlayerView, MatchOver,
         GameEnded, QueueFailed, Notice, Refusal, Malformed
    <2>2. m \notin Listings
      BY <1>a, <1>2
    <2> QED BY <2>1, <2>2 DEF m
  <1> QED BY <1>0, <1>a, <1>1, <1>2 DEF on_message

\* The login asks for the lists.
LEMMA MessageFetches ==
  ASSUME Typed, Net, NEW i \in Sessions, on_message(i), ~Ended(i)
  PROVE  /\ KeepsFetches
         /\ Head(Mail(i)) \in Welcome =>
              \A t \in ListTypes : Has(strand', {Fetch(t)})
  <1>0. strand \in Seq(Calls)
    BY DEF Typed, TypedStrand
  <1>1. strand' = strand \o <<Fetch("Friends"), Fetch("FriendRequests"),
                              Fetch("Blocks")>>
        => /\ KeepsFetches
           /\ \A t \in ListTypes : Has(strand', {Fetch(t)})
    <2> DEFINE s1 == Append(strand, Fetch("Friends"))
               s2 == Append(s1, Fetch("FriendRequests"))
               s3 == Append(s2, Fetch("Blocks"))
    <2> SUFFICES ASSUME strand' = s3
                 PROVE  /\ KeepsFetches
                        /\ \A t \in ListTypes : Has(strand', {Fetch(t)})
      BY <1>0, FetchesAppended
    <2>1. \A t \in ListTypes : Fetch(t) \in Calls
      BY DEF Fetch, Calls
    <2>2. \A t \in ListTypes :
            Has(s1, {Fetch(t)}) <=> Has(strand, {Fetch(t)}) \/ Fetch("Friends") \in {Fetch(t)}
      BY <1>0, HasAppend
    <2>3. s1 \in Seq(Calls)
      BY <1>0, <2>1, AppendType DEF ListTypes
    <2> HIDE DEF s1
    <2>4. \A t \in ListTypes :
            Has(s2, {Fetch(t)}) <=> Has(s1, {Fetch(t)}) \/ Fetch("FriendRequests") \in {Fetch(t)}
      BY <2>3, HasAppend
    <2>5. s2 \in Seq(Calls)
      BY <2>1, <2>3, AppendType DEF ListTypes
    <2> HIDE DEF s2
    <2>6. \A t \in ListTypes :
            Has(s3, {Fetch(t)}) <=> Has(s2, {Fetch(t)}) \/ Fetch("Blocks") \in {Fetch(t)}
      BY <2>5, HasAppend
    <2> HIDE DEF s3
    <2> QED BY <2>2, <2>4, <2>6 DEF KeepsFetches, ListTypes
  <1>2. strand' = strand => KeepsFetches
    BY DEF KeepsFetches
  <1>3. CASE Head(Mail(i)) \in Welcome
    <2>1. Head(session[i].posted).type = "GoodAuth"
      BY <1>3, MessageShape DEF Welcome, OfType
    <2>2. GoodAuth(i)
      BY <2>1 DEF on_message
    <2> QED BY <1>1, <2>2 DEF GoodAuth
  <1>4. CASE Head(Mail(i)) \notin Welcome
    BY <1>1, <1>2, <1>4, MessageStrand
  <1> QED BY <1>3, <1>4

LEMMA ListMessage ==
  ASSUME Typed, Net, ListOK, NEW i \in Sessions, on_message(i), ~ghost'.late
  PROVE  ListOK'
  <1>0. current' = current
    BY DEF on_message
  <1>1. CASE Ended(i)
    BY <1>0, <1>1, ListEnded
  <1>2. CASE Took(i) /\ server' = server
    <2> DEFINE m == Head(Mail(i))
    <2>1. /\ m \in Listings => ~session[i].reported /\ lists' = Listed(m)
          /\ m \notin Listings => lists' = lists
      BY MessageLists
    <2>2. /\ Mail(i) \in Seq(Messages) /\ Mail(i) # <<>>
          /\ Mail(i)' = Tail(Mail(i)) /\ m \in Messages
      BY <1>2, MailType, MessageShape DEF Took
    <2>3. session[i].stage \in {"Up", "Closed"} /\ Sound(i)
      BY <2>2 DEF Net, Sound
    <2>a. ~Ended(i)
      BY <1>2 DEF Took, Ended
    <2>b. KeepsFetches /\ (m \in Welcome => \A t \in ListTypes : Has(strand', {Fetch(t)}))
      BY <2>a, MessageFetches
    <2> HIDE DEF m
    <2>4. Lost' <=> Lost
      BY <1>0, <1>2, SameLost DEF Took, SameBut, Same
    <2>5. m \in Listings => i = current /\ (i \in server.auth \/ Lost)
      <3> SUFFICES ASSUME m \in Listings
                   PROVE  i = current /\ (i \in server.auth \/ Lost)
        OBVIOUS
      <3>1. i = current /\ current # 0
        BY <2>1, <2>3, OnlyCurrent
      <3>2. CASE session[i].stage = "Up"
        <4>1. Has(Mail(i), Listings)
          BY <2>2, HasTail DEF m
        <4> QED BY <3>1, <3>2, <4>1, OpenLists DEF Unlisted
      <3>3. CASE session[i].stage = "Closed"
        BY <2>1, <3>1, <3>3 DEF Lost
      <3> QED BY <2>3, <3>2, <3>3
    <2>6. ASSUME NEW j \in Sessions, j = current PROVE ListOf(j)'
      <3>0. ListOf(j)
        BY <2>6 DEF ListOK
      <3>1. CASE j # i
        <4>1. Same(j) /\ lists' = lists
          BY <1>2, <2>1, <2>5, <2>6, <3>1 DEF Took, SameBut
        <4>2. Coming(j) \subseteq Coming(j)'
          BY <2>b, <4>1 DEF Coming, KeepsFetches, Same
        <4>3. j \in server.auth => \A u \in Others :
                Synced(u, server.rel[u], lists, Mail(j), session[j].out, Coming(j)')
          BY <3>0, <4>2, SyncedMore DEF ListOf
        <4> QED BY <1>2, <3>0, <4>1, <4>3 DEF ListOf, Same
      <3>2. CASE j = i
        <4>1. /\ session'[i].out = session[i].out
              /\ session'[i].stage = session[i].stage
          BY <1>2 DEF Took
        <4>2. session[i].stage = "Up" /\ i \notin server.auth =>
                Unlisted(session[i].out, Tail(Mail(i)))
          BY <2>2, <3>0, <3>2, HasTail DEF ListOf, Unlisted
        <4>3. Coming(i) \subseteq Coming(i)'
          <5>1. Has(Mail(i), Welcome) <=> m \in Welcome \/ Has(Tail(Mail(i)), Welcome)
            BY <2>2, HasTail DEF m
          <5> QED BY <2>2, <2>b, <4>1, <5>1 DEF Coming, KeepsFetches
        <4>4. ASSUME i \in server.auth, NEW u \in Others
              PROVE  Synced(u, server.rel[u], lists', Tail(Mail(i)), session[i].out,
                            Coming(i)')
          <5>1. Synced(u, server.rel[u], lists, Mail(i), session[i].out, Coming(i))
            BY <3>0, <3>2, <4>4 DEF ListOf
          <5>2. \A t \in ListTypes : u \in lists'[t] <=>
                  m \in Adds(t, u) \/ (u \in lists[t] /\ m \notin Removes(t, u))
            BY <2>1, ListedUsers, UnlistedMessage
          <5>3. Synced(u, server.rel[u], lists', Tail(Mail(i)), session[i].out, Coming(i))
            BY <2>2, <5>1, <5>2, SyncedTook DEF m
          <5> QED BY <4>3, <5>3, SyncedMore
        <4> QED BY <1>2, <2>2, <3>2, <4>1, <4>2, <4>4 DEF ListOf
      <3> QED BY <3>1, <3>2
    <2>7. current \notin server.auth /\ ~Lost => lists' = lists
      BY <2>1, <2>5
    <2> QED BY <1>0, <1>2, <2>4, <2>6, <2>7 DEF ListOK
  <1> QED BY <1>1, <1>2, MessageShape

\* The strand loses its first call, which is sent when it asks for a list.
LEMMA ListSent ==
  ASSUME Typed, Net, ListOK, NEW c \in Calls, strand # <<>>, c = Head(strand),
         c.call # "Respond", Sent(c), strand' = Tail(strand),
         current' = current, server' = server, lists' = lists
  PROVE  ListOK'
  <1>1. Lost' <=> Lost
    BY SameLost DEF Sent
  <1>0. strand \in Seq(Calls)
    BY DEF Typed, TypedStrand
  <1>2. ASSUME NEW i \in Sessions, i = current PROVE ListOf(i)'
    <2> DEFINE o == session[i].out
               p == Append(o, c)
    <2>0. ListOf(i) /\ o \in Seq(Calls)
      BY <1>2, MailType DEF ListOK
    <2>1. /\ session'[i].stage = session[i].stage /\ Mail(i)' = Mail(i)
          /\ session'[i].out = p \/ session'[i].out = o
          /\ session[i].stage = "Up" /\ ~session[i].jammed => session'[i].out = p
      BY <1>2 DEF Sent
    <2>2. session[i].stage = "Up" /\ i \notin server.auth =>
            Unlisted(session'[i].out, Mail(i))
      <3>1. Has(p, OfCall({"Respond"})) <=> Has(o, OfCall({"Respond"}))
        BY <2>0, HasAppend DEF OfCall
      <3> QED BY <2>0, <2>1, <3>1 DEF ListOf, Unlisted
    <2>3. ASSUME i \in server.auth, NEW u \in Others
          PROVE  Synced(u, server.rel[u], lists, Mail(i), session'[i].out, Coming(i)')
      <3>1. session'[i].out = p
        BY <2>1, <2>3 DEF Net, Sound
      <3>2. Synced(u, server.rel[u], lists, Mail(i), o, Coming(i))
        BY <2>0, <2>3 DEF ListOf
      <3>3. Synced(u, server.rel[u], lists, Mail(i), p, Coming(i))
        BY <2>0, <3>2, SyncedSend DEF Replies
      <3>4. Coming(i) \subseteq Coming(i)'
        <4>1. \A t \in ListTypes : Has(strand, {Fetch(t)})
                <=> c \in {Fetch(t)} \/ Has(Tail(strand), {Fetch(t)})
          BY <1>0, HasTail
        <4>2. \A t \in ListTypes : Has(p, {Fetch(t)})
                <=> Has(o, {Fetch(t)}) \/ c \in {Fetch(t)}
          BY <2>0, HasAppend
        <4> HIDE DEF p
        <4> QED BY <2>1, <3>1, <4>1, <4>2 DEF Coming
      <3> QED BY <3>1, <3>3, <3>4, SyncedMore
    <2> QED BY <2>1, <2>2, <2>3 DEF ListOf
  <1> QED BY <1>1, <1>2 DEF ListOK

\* The strand without its first call, which asks for no list.
LEMMA TakeKeeps ==
  ASSUME Typed, strand # <<>>, Head(strand).call # "Fetch",
         \/ strand' = Tail(strand)
         \/ \E c : strand' = Append(Tail(strand), c)
  PROVE  KeepsFetches
  <1> DEFINE s == Tail(strand)
  <1>0. strand \in Seq(Calls)
    BY DEF Typed, TypedStrand
  <1>1. s \in Seq(Calls)
    BY <1>0
  <1>2. \A t \in ListTypes : Head(strand) \notin {Fetch(t)}
    BY DEF Fetch
  <1>3. \A t \in ListTypes : Has(strand, {Fetch(t)}) => Has(s, {Fetch(t)})
    BY <1>0, <1>2, HasTail
  <1>4. strand' = s \/ \E c : strand' = Append(s, c)
    OBVIOUS
  <1> HIDE DEF s
  <1>5. \A t \in ListTypes : \A c : Has(s, {Fetch(t)}) => Has(Append(s, c), {Fetch(t)})
    BY <1>1, HasAppend
  <1> QED BY <1>3, <1>4, <1>5 DEF KeepsFetches

\* An answer to a request, which nothing on its way brings back.
LEMMA ListRespond ==
  ASSUME Typed, Net, ListOK, NEW c \in Calls, strand # <<>>, c = Head(strand),
         c.call = "Respond", OnRespond(c), ~ghost'.overtaken, server' = server
  PROVE  ListOK'
  <1> DEFINE f == "FriendRequests"
             v == c.user
  <1>0. /\ current' = current /\ Send(c) /\ strand' = Tail(strand)
        /\ lists' = [lists EXCEPT ![f] = @ \ {v}] /\ ~Overtakes(c) /\ v \in Others
    BY StrandHistory DEF OnRespond, Calls
  <1>1. Sent(c)
    BY <1>0, SendShape
  <1>2. Lost' <=> Lost
    BY <1>0, <1>1, SameLost DEF Sent
  <1>3. lists \in [ListTypes -> SUBSET Others] /\ f \in ListTypes /\ v \in lists[f]
    BY <1>0 DEF Typed, TypedData, Overtakes, ListTypes
  <1>4. /\ \A t \in ListTypes \ {f} : lists'[t] = lists[t]
        /\ lists'[f] = lists[f] \ {v}
    BY <1>0, <1>3
  <1>5. KeepsFetches
    BY <1>0, TakeKeeps
  <1>6. ASSUME NEW i \in Sessions, i = current PROVE ListOf(i)'
    <2> DEFINE o == session[i].out
               p == Append(o, c)
    <2>0. ListOf(i) /\ o \in Seq(Calls)
      BY <1>6, MailType DEF ListOK
    <2>1. /\ session'[i].stage = session[i].stage /\ Mail(i)' = Mail(i)
          /\ session[i].stage = "Up" /\ ~session[i].jammed => session'[i].out = p
      BY <1>1, <1>6 DEF Sent
    <2>2. session[i].stage = "Up" => i \in server.auth
      BY <1>3, OpenLists
    <2>3. ASSUME i \in server.auth, NEW u \in Others
          PROVE  Synced(u, server.rel[u], lists', Mail(i), session'[i].out, Coming(i)')
      <3>1. session'[i].out = p
        BY <2>1, <2>3 DEF Net, Sound
      <3>2. Synced(u, server.rel[u], lists, Mail(i), o, Coming(i))
        BY <2>0, <2>3 DEF ListOf
      <3>3. Coming(i) \subseteq Coming(i)'
        <4>1. \A t \in ListTypes : Has(p, {Fetch(t)})
                <=> Has(o, {Fetch(t)}) \/ c \in {Fetch(t)}
          BY <2>0, HasAppend
        <4> HIDE DEF p
        <4> QED BY <1>5, <2>1, <3>1, <4>1 DEF Coming, KeepsFetches
      <3>4. CASE u # v
        <4>1. c \notin Replies(u)
          BY <3>4 DEF Replies
        <4>2. Synced(u, server.rel[u], lists, Mail(i), p, Coming(i))
          BY <2>0, <3>2, <4>1, SyncedSend
        <4>3. \A t \in ListTypes : u \in lists'[t] <=> u \in lists[t]
          BY <1>4, <3>4
        <4> HIDE DEF p
        <4>4. Synced(u, server.rel[u], lists', Mail(i), p, Coming(i))
          BY <4>2, <4>3, SyncedLists
        <4> QED BY <3>1, <3>3, <4>4, SyncedMore
      <3>5. CASE u = v
        <4>1. c \in Replies(u)
          BY <3>5 DEF Replies
        <4>2. ~Has(Mail(i), Adds(f, u)) /\ ~Has(Mail(i), Removes(f, u))
          <5>1. \A m \in InFlight : m \notin Adds(f, u) /\ m \notin Removes(f, u)
            BY <1>0, <3>5 DEF Overtakes, Adds, Removes
          <5> QED BY <5>1, OnTheWay
        <4>3. ASSUME NEW x \in Bars(u) \ Replies(u) PROVE ~Has(o, {x})
          <5>1. x = Fetch(f) \/ (x.call = "Unblock" /\ x.user = u)
            BY <4>3 DEF Bars, Replies
          <5>2. x \notin Requests
            BY <1>0, <3>5, <5>1 DEF Overtakes
          <5> QED BY <5>2, OnTheWay
        <4>4. u \in lists[f] /\ u \notin lists'[f]
          BY <1>3, <1>4, <3>5
        <4>5. Synced(u, server.rel[u], lists', Mail(i), p, Coming(i))
          BY <1>4, <2>0, <3>2, <4>1, <4>2, <4>3, <4>4, SyncedReply
        <4> HIDE DEF p
        <4> QED BY <3>1, <3>3, <4>5, SyncedMore
      <3> QED BY <3>4, <3>5
    <2> QED BY <1>0, <2>1, <2>2, <2>3 DEF ListOf
  <1>7. current \notin server.auth => Lost
    BY <1>3 DEF ListOK
  <1> QED BY <1>0, <1>2, <1>6, <1>7 DEF ListOK

LEMMA ListStrand ==
  ASSUME Typed, Net, ListOK, OneAtATime', RunStrand, ~ghost'.overtaken
  PROVE  ListOK'
  <1> DEFINE c == Head(strand)
  <1>0. /\ strand \in Seq(Calls) /\ strand # <<>> /\ Sole(strand, Due)
        /\ server' = server /\ c \in Calls
    BY DEF Typed, TypedStrand, Net, RunStrand
  <1>1. c.call # "Shutdown"
    BY <1>0, SoleTail, DueReports
  <1>a. ASSUME AllSame, current' = current, lists' = lists, c.call # "Fetch",
               \/ strand' = Tail(strand)
               \/ \E x : strand' = Append(Tail(strand), x)
        PROVE  ListOK'
    BY <1>0, <1>a, TakeKeeps, ListSame DEF AllSame, Same
  <1>2. CASE c.call = "Connect" /\ OnConnect
    <2>0. lists' = lists /\ strand' = Tail(strand)
      BY <1>2 DEF OnConnect, core
    <2>1. CASE AllSame /\ current' = current
      BY <1>a, <1>2, <2>0, <2>1
    <2>2. CASE ~(AllSame /\ current' = current)
      <3>1. PICK k \in Sessions : k = current + 1
        BY <1>2, <2>2, ConnectShape
      <3>2. /\ Idle /\ current' = k
            /\ session[k].stage = "None" /\ session'[k].stage = "Resolving"
        BY <1>2, <2>2, <3>1, ConnectShape
      <3>3. k \notin server.auth
        BY <3>2 DEF Net, Sound
      <3>4. current \notin server.auth /\ ~Lost
        <4>1. CASE current = 0
          BY <4>1, ClientBounds DEF Lost, Typed, TypedServer, Account, Sessions
        <4>2. CASE current # 0
          <5>1. Sound(current)
            BY <4>2, CurrentSession DEF Net
          <5> QED BY <3>2, <4>2, <5>1 DEF Idle, Sound, Lost
        <4> QED BY <4>1, <4>2
      <3>5. \A t \in ListTypes : lists'[t] = {}
        BY <2>0, <3>4 DEF ListOK
      <3>6. ListOf(k)'
        BY <1>0, <3>2, <3>3 DEF ListOf
      <3> QED BY <1>0, <3>2, <3>5, <3>6 DEF ListOK
    <2> QED BY <2>1, <2>2
  <1>3. CASE /\ c.call \in {"Login", "Register", "Befriend", "Block", "Fetch",
                            "Unfriend", "Unblock", "Command", "Forfeit",
                            "History", "GetReplay", "Send", "Queue", "Cancel"}
             /\ Checked(c) \/ JustSend(c) \/ OnQueue(c)
             /\ c.call = "Fetch" => JustSend(c)
    <2>1. current' = current /\ lists' = lists /\ strand' = Tail(strand)
      BY <1>3 DEF Checked, JustSend, OnQueue
    <2>2. CASE Send(c)
      BY <1>0, <1>3, <2>1, <2>2, SendShape, ListSent
    <2>3. CASE ~Send(c)
      <3>1. UNCHANGED session /\ c.call # "Fetch"
        BY <1>3, <2>3 DEF Checked, JustSend, OnQueue
      <3> QED BY <1>a, <2>1, <3>1, NothingChanged
    <2> QED BY <2>2, <2>3
  <1>4. CASE c.call = "Respond" /\ OnRespond(c)
    BY <1>0, <1>4, ListRespond
  <1>5. CASE \/ c.call = "Text" /\ OnText(c)
             \/ c.call = "Disconnected" /\ OnDisconnected
    <2>1. /\ UNCHANGED <<session, current, lists>> /\ c.call # "Fetch"
          /\ strand' = Tail(strand) \/ \E x : strand' = Append(Tail(strand), x)
      BY <1>5 DEF OnText, OnDisconnected
    <2> QED BY <1>a, <2>1, NothingChanged
  <1>6. CASE c.call = "Disconnect" /\ OnDisconnect(c)
    <2>0. ~exit.asked
      BY <1>6 DEF OnDisconnect, OneAtATime, Typed, TypedStrand
    <2>1. PICK k \in Sessions : k = current
      BY <1>0, <1>6, <2>0, DisconnectShape
    <2>2. Lost /\ current' = current /\ session'[k].stage = session[k].stage
      BY <1>0, <1>6, <2>0, <2>1, DisconnectShape
    <2>3. \A t \in ListTypes : lists'[t] = {}
      BY <1>6, <2>0 DEF OnDisconnect
    <2>7. k \notin server.auth /\ session[k].stage = "Closed"
      BY <2>1, <2>2 DEF Lost, Net, Sound
    <2>8. ListOf(k)'
      BY <1>0, <2>2, <2>7 DEF ListOf
    <2> QED BY <1>0, <2>1, <2>2, <2>3, <2>8 DEF ListOK
  <1> QED BY <1>1, <1>2, <1>3, <1>4, <1>5, <1>6 DEF RunStrand

\* The server takes a request or not, and sends messages that say nothing
\* about users or none; nothing else it holds about them changes.
LEMMA ListPlain ==
  ASSUME Typed, Net, ListOK, NEW i \in Sessions, session[i].stage = "Up",
         current' = current, UNCHANGED <<strand, lists>>,
         server'.auth = server.auth, server'.rel = server.rel,
         \/ session'[i].out = session[i].out
         \/ /\ session[i].out # <<>>
            /\ session'[i].out = Tail(session[i].out)
            /\ i \in server.auth =>
                 Head(session[i].out).call \notin {"Fetch", "Respond"},
         NEW a \in Messages \ Listings, NEW b \in Messages \ Listings,
         \/ Added(i, <<>>) \/ Added(i, <<a>>) \/ Added(i, <<a, b>>)
  PROVE  ListOK'
  <1> DEFINE M == Mail(i)
             o == session[i].out
             N == Append(M, a)
  <1>0. /\ i = current
        /\ i \notin server.auth =>
             (\A t \in ListTypes : lists[t] = {}) /\ Unlisted(o, M)
        /\ i \in server.auth => \A u \in Others :
             Synced(u, server.rel[u], lists, M, o, Coming(i))
    BY OpenLists
  <1>1. o \in Seq(Calls) /\ M \in Seq(Messages)
    BY MailType
  <1>2. /\ N \in Seq(Messages)
        /\ Mail(i)' = M \/ Mail(i)' = N \/ Mail(i)' = Append(N, b)
    BY AddedMail
  <1>3. \A X : /\ Has(N, X) <=> Has(M, X) \/ a \in X
               /\ Has(Tail(o), X) => o = <<>> \/ Has(o, X)
    BY <1>1, HasAppend, HasTail
  <1> HIDE DEF N
  <1>4. \A X : Has(Append(N, b), X) <=> Has(N, X) \/ b \in X
    BY <1>2, HasAppend
  <1> HIDE DEF M
  <1>5. Unlisted(o, M) => Unlisted(session'[i].out, Mail(i)')
    BY <1>2, <1>3, <1>4 DEF Unlisted, o
  <1>6. ASSUME i \in server.auth, NEW u \in Others
        PROVE  Synced(u, server.rel[u], lists, Mail(i)', session'[i].out, Coming(i)')
    <2>1. Synced(u, server.rel[u], lists, M, o, Coming(i))
      BY <1>0, <1>6
    <2>2. Synced(u, server.rel[u], lists, M, session'[i].out, Coming(i))
      <3>1. CASE session'[i].out = o
        BY <2>1, <3>1
      <3>2. CASE session'[i].out # o
        <4>1. /\ o # <<>> /\ session'[i].out = Tail(o) /\ Head(o) \notin Replies(u)
          BY <1>6, <3>2 DEF Replies
        <4> HIDE DEF o
        <4> QED BY <1>1, <2>1, <4>1, SyncedAnswer
      <3> QED BY <3>1, <3>2
    <2>3. \A t \in ListTypes : /\ a \notin Adds(t, u) /\ a \notin Removes(t, u)
                               /\ b \notin Adds(t, u) /\ b \notin Removes(t, u)
      BY UnlistedMessage
    <2>4. Synced(u, server.rel[u], lists, N, session'[i].out, Coming(i))
      BY <1>1, <2>2, <2>3, SyncedMail DEF N
    <2>5. Synced(u, server.rel[u], lists, Append(N, b), session'[i].out, Coming(i))
      BY <1>2, <2>3, <2>4, SyncedMail
    <2>6. Synced(u, server.rel[u], lists, Mail(i)', session'[i].out, Coming(i))
      BY <1>2, <2>2, <2>4, <2>5
    <2>7. Coming(i) \subseteq Coming(i)'
      <3>1. Has(M, Welcome) => Has(Mail(i)', Welcome)
        BY <1>2, <1>3, <1>4
      <3>2. \A t \in ListTypes : Has(o, {Fetch(t)}) => Has(session'[i].out, {Fetch(t)})
        <4>1. CASE session'[i].out = o
          BY <4>1
        <4>2. CASE session'[i].out # o
          <5>1. o # <<>> /\ session'[i].out = Tail(o) /\ Head(o).call # "Fetch"
            BY <1>6, <4>2
          <5>2. \A t \in ListTypes : Head(o) \notin {Fetch(t)}
            BY <5>1 DEF Fetch
          <5> HIDE DEF o
          <5>3. \A t \in ListTypes :
                  Has(o, {Fetch(t)}) <=> Head(o) \in {Fetch(t)} \/ Has(Tail(o), {Fetch(t)})
            BY <1>1, <5>1, HasTail
          <5> QED BY <5>1, <5>2, <5>3
        <4> QED BY <4>1, <4>2
      <3> QED BY <3>1, <3>2 DEF Coming, M
    <2> QED BY <2>6, <2>7, SyncedMore
  <1> QED BY <1>0, <1>5, <1>6, ListOne

\* Messages that say nothing about users.
LEMMA PlainListings ==
  /\ \A t \in {"GoodAuth", "MatchStarting", "MatchInProgress", "PlayerView",
            "ForfeitMatch", "MatchOver", "GameEnded", "QueueFailed", "Notice",
            "Refusal", "Malformed"} : Msg(t) \in Messages \ Listings
  /\ Msg("GoodAuth") \in Welcome
  <1>1. \A t \in {"GoodAuth", "MatchStarting", "MatchInProgress", "PlayerView",
            "ForfeitMatch", "MatchOver", "GameEnded", "QueueFailed", "Notice",
            "Refusal", "Malformed"} : Msg(t) \in Messages
    BY PlainMessages DEF Msg
  <1>2. \A t : Msg(t).type = t
    BY DEF Msg
  <1> QED BY <1>1, <1>2 DEF Listings, Welcome, OfType

\* The login: the lists are empty, and all of them are to come.
LEMMA ListLogin ==
  ASSUME Typed, Net, ListOK, NEW i \in Sessions, session[i].stage = "Up",
         i \notin server.auth, current' = current, UNCHANGED <<strand, lists>>,
         server'.auth = {i}, server'.rel = server.rel,
         session[i].out # <<>>, session'[i].out = Tail(session[i].out),
         \/ Added(i, <<Msg("GoodAuth"), Msg("MatchInProgress")>>)
         \/ Added(i, <<Msg("MatchInProgress"), Msg("GoodAuth")>>)
         \/ Added(i, <<Msg("GoodAuth")>>)
  PROVE  ListOK'
  <1> DEFINE g == Msg("GoodAuth")
             p == Msg("MatchInProgress")
             M == Mail(i)
             o == session[i].out
             N1 == Append(M, g)
             N2 == Append(M, p)
  <1>0. /\ i = current /\ (\A t \in ListTypes : lists[t] = {}) /\ Unlisted(o, M)
    BY OpenLists
  <1>1. /\ g \in Messages \ Listings /\ p \in Messages \ Listings /\ g \in Welcome
    BY PlainListings
  <1>2. o \in Seq(Calls) /\ M \in Seq(Messages)
    BY MailType
  <1> HIDE DEF g, p
  <1>3. /\ \/ Mail(i)' = Append(N1, p)
           \/ Mail(i)' = Append(N2, g)
           \/ Mail(i)' = N1
        /\ N1 \in Seq(Messages) /\ N2 \in Seq(Messages)
    BY <1>1, AddedMail DEF g, p
  <1>4. \A X : /\ Has(N1, X) <=> Has(M, X) \/ g \in X
               /\ Has(N2, X) <=> Has(M, X) \/ p \in X
               /\ Has(Tail(o), X) => Has(o, X)
    BY <1>2, HasAppend, HasTail
  <1> HIDE DEF M, N1, N2
  <1>5. \A X : /\ Has(Append(N1, p), X) <=> Has(N1, X) \/ p \in X
               /\ Has(Append(N2, g), X) <=> Has(N2, X) \/ g \in X
    BY <1>3, HasAppend
  <1>6. Unlisted(Tail(o), Mail(i)') /\ Has(Mail(i)', Welcome)
    BY <1>0, <1>1, <1>3, <1>4, <1>5 DEF Unlisted
  <1>7. Coming(i)' = ListTypes
    BY <1>6 DEF Coming
  <1>8. \A u \in Others :
          Synced(u, server.rel[u], lists, Mail(i)', session'[i].out, ListTypes)
    BY <1>0, <1>6, SyncedStart
  <1> QED BY <1>0, <1>7, <1>8, ListOne

\* The server sends a list.
LEMMA ListFetched ==
  ASSUME Typed, Net, ListOK, NEW i \in Sessions, session[i].stage = "Up",
         i \in server.auth, current' = current, UNCHANGED <<strand, lists, server>>,
         session[i].out # <<>>, NEW k \in ListTypes, Head(session[i].out) = Fetch(k),
         Answered(i, <<[type |-> "List", list |-> k, users |-> Of(k)]>>)
  PROVE  ListOK'
  <1> DEFINE M == Mail(i)
             o == session[i].out
             m == [type |-> "List", list |-> k, users |-> Of(k)]
  <1>0. i = current /\ \A u \in Others :
             Synced(u, server.rel[u], lists, M, o, Coming(i))
    BY OpenLists
  <1>1. o \in Seq(Calls) /\ M \in Seq(Messages)
    BY MailType
  <1>2. m \in Messages
    BY Unraised DEF Of
  <1>3. \A u \in Others :
          /\ m \in Adds(k, u) <=> server.rel[u] = k
          /\ \A t \in ListTypes \ {k} : m \notin Adds(t, u)
          /\ \A t \in ListTypes : m \notin Removes(t, u)
    <2>1. m.type = "List" /\ m.list = k /\ m.users = Of(k)
      OBVIOUS
    <2> HIDE DEF m
    <2> QED BY <1>2, <2>1 DEF Adds, Removes, Of
  <1>4. m \notin Welcome
    BY DEF Welcome, OfType
  <1> HIDE DEF m
  <1>5. Mail(i)' = Append(M, m) /\ session'[i].out = Tail(o)
    BY <1>2, AddedMail DEF Answered, m
  <1>6. Coming(i) \ {k} \subseteq Coming(i)'
    <2>1. Has(M, Welcome) => Has(Mail(i)', Welcome)
      BY <1>1, <1>5, HasAppend
    <2>2. \A t \in ListTypes \ {k} : Head(o) \notin {Fetch(t)}
      BY DEF Fetch
    <2>3. \A t \in ListTypes :
            Has(o, {Fetch(t)}) <=> Head(o) \in {Fetch(t)} \/ Has(Tail(o), {Fetch(t)})
      BY <1>1, HasTail
    <2> QED BY <1>5, <2>1, <2>2, <2>3 DEF Coming
  <1>7. ASSUME NEW u \in Others
        PROVE  Synced(u, server.rel[u], lists, Mail(i)', session'[i].out, Coming(i)')
    <2>1. Synced(u, server.rel[u], lists, M, o, Coming(i))
      BY <1>0
    <2> HIDE DEF M, o
    <2>2. Synced(u, server.rel[u], lists, Append(M, m), Tail(o), Coming(i) \ {k})
      BY <1>1, <1>3, <2>1, SyncedList DEF o
    <2> QED BY <1>5, <1>6, <2>2, SyncedMore
  <1> QED BY <1>0, <1>7, ListOne

\* The messages about one user.
UserNews == {"FriendAdded", "FriendRemoved", "FriendRequest", "Blocked", "Unblocked"}

LEMMA AboutUsers ==
  ASSUME NEW v \in Others, NEW k \in UserNews
  PROVE  LET m == About(k, v) IN
         /\ m \in Messages
         /\ \A t \in ListTypes, u \in Others \ {v} :
              m \notin Adds(t, u) /\ m \notin Removes(t, u)
         /\ \A t \in ListTypes :
              /\ m \in Adds(t, v) <=>
                   \/ k = "FriendAdded" /\ t = "Friends"
                   \/ k = "FriendRequest" /\ t = "FriendRequests"
                   \/ k = "Blocked" /\ t = "Blocks"
              /\ m \in Removes(t, v) <=>
                   \/ k \in {"FriendRemoved", "Blocked"} /\ t = "Friends"
                   \/ k = "Blocked" /\ t = "FriendRequests"
                   \/ k = "Unblocked" /\ t = "Blocks"
  <1> DEFINE m == About(k, v)
  <1>1. m.type = k /\ m.user = v /\ m \in Messages
    BY DEF About, Messages, UserNews
  <1> HIDE DEF m
  <1>2. \A u \in Others \ {v} : \A t \in ListTypes :
          m \notin Adds(t, u) /\ m \notin Removes(t, u)
    BY <1>1 DEF Adds, Removes, UserNews
  <1>3. ASSUME NEW t \in ListTypes
        PROVE  /\ m \in Adds(t, v) <=>
                   \/ k = "FriendAdded" /\ t = "Friends"
                   \/ k = "FriendRequest" /\ t = "FriendRequests"
                   \/ k = "Blocked" /\ t = "Blocks"
               /\ m \in Removes(t, v) <=>
                   \/ k \in {"FriendRemoved", "Blocked"} /\ t = "Friends"
                   \/ k = "Blocked" /\ t = "FriendRequests"
                   \/ k = "Unblocked" /\ t = "Blocks"
    BY <1>1 DEF Adds, Removes, UserNews
  <1> QED BY <1>1, <1>2, <1>3 DEF m

\* What the server holds about v changes, or an answer about v is taken.
LEMMA ListUser ==
  ASSUME Typed, Net, ListOK, NEW i \in Sessions, session[i].stage = "Up",
         i \in server.auth, current' = current, UNCHANGED <<strand, lists>>,
         NEW v \in Others, server'.auth = server.auth,
         \A u \in Others \ {v} : server'.rel[u] = server.rel[u],
         \/ session'[i].out = session[i].out
         \/ /\ session[i].out # <<>>
            /\ session'[i].out = Tail(session[i].out)
            /\ Head(session[i].out).call # "Fetch"
            /\ \A u \in Others \ {v} : Head(session[i].out) \notin Replies(u),
         \/ Added(i, <<>>)
         \/ \E k \in UserNews : Added(i, <<About(k, v)>>),
         Synced(v, server'.rel[v], lists, Mail(i)', session'[i].out, Coming(i))
  PROVE  ListOK'
  <1> DEFINE M == Mail(i)
             o == session[i].out
  <1>0. i = current /\ \A u \in Others :
             Synced(u, server.rel[u], lists, M, o, Coming(i))
    BY OpenLists
  <1>1. o \in Seq(Calls) /\ M \in Seq(Messages)
    BY MailType
  <1>2. \/ Mail(i)' = M
        \/ \E k \in UserNews : Mail(i)' = Append(M, About(k, v))
    <2>1. \A m \in Messages : Added(i, <<m>>) => Mail(i)' = Append(M, m)
      BY AddedMail
    <2>2. Added(i, <<>>) => Mail(i)' = M
      BY PlainMessage, AddedMail
    <2>3. \A k \in UserNews : About(k, v) \in Messages
      BY AboutUsers
    <2> QED BY <2>1, <2>2, <2>3
  <1> HIDE DEF M
  <1>3. Coming(i) \subseteq Coming(i)'
    <2>1. Has(M, Welcome) => Has(Mail(i)', Welcome)
      <3>1. \A m : Has(M, Welcome) => Has(Append(M, m), Welcome)
        BY <1>1, HasAppend
      <3> QED BY <1>2, <3>1
    <2>2. \A t \in ListTypes : Has(o, {Fetch(t)}) => Has(session'[i].out, {Fetch(t)})
      <3>1. CASE session'[i].out = o
        BY <3>1
      <3>2. CASE session'[i].out # o
        <4>1. o # <<>> /\ session'[i].out = Tail(o) /\ Head(o).call # "Fetch"
          BY <3>2
        <4>2. \A t \in ListTypes : Head(o) \notin {Fetch(t)}
          BY <4>1 DEF Fetch
        <4> HIDE DEF o
        <4>3. \A t \in ListTypes :
                Has(o, {Fetch(t)}) <=> Head(o) \in {Fetch(t)} \/ Has(Tail(o), {Fetch(t)})
          BY <1>1, <4>1, HasTail
        <4> QED BY <4>1, <4>2, <4>3
      <3> QED BY <3>1, <3>2
    <2> QED BY <2>1, <2>2 DEF Coming, M
  <1>4. ASSUME NEW u \in Others
        PROVE  Synced(u, server'.rel[u], lists, Mail(i)', session'[i].out, Coming(i)')
    <2>1. CASE u = v
      BY <1>3, <2>1, SyncedMore
    <2>2. CASE u # v
      <3>1. Synced(u, server.rel[u], lists, M, o, Coming(i))
        BY <1>0
      <3>2. Synced(u, server.rel[u], lists, M, session'[i].out, Coming(i))
        <4>1. CASE session'[i].out = o
          BY <3>1, <4>1
        <4>2. CASE session'[i].out # o
          <5>1. /\ o # <<>> /\ session'[i].out = Tail(o) /\ Head(o) \notin Replies(u)
            BY <2>2, <4>2
          <5> HIDE DEF o
          <5> QED BY <1>1, <3>1, <5>1, SyncedAnswer
        <4> QED BY <4>1, <4>2
      <3>3. Synced(u, server.rel[u], lists, Mail(i)', session'[i].out, Coming(i))
        <4>1. CASE Mail(i)' = M
          BY <3>2, <4>1
        <4>2. ASSUME NEW k \in UserNews, Mail(i)' = Append(M, About(k, v))
              PROVE  <3>3!:
          <5>1. \A t \in ListTypes :
                  About(k, v) \notin Adds(t, u) /\ About(k, v) \notin Removes(t, u)
            BY <2>2, AboutUsers
          <5> QED BY <1>1, <3>2, <4>2, <5>1, SyncedMail
        <4> QED BY <1>2, <4>1, <4>2
      <3> QED BY <1>3, <2>2, <3>3, SyncedMore
    <2> QED BY <2>1, <2>2
  <1> QED BY <1>0, <1>4, ListOne

LEMMA ListAnswerUser ==
  ASSUME Typed, Net, ListOK, NEW i \in Sessions, session[i].stage = "Up",
         i \in server.auth, current' = current, UNCHANGED <<strand, lists>>,
         session[i].out # <<>>, NEW c \in Calls, c = Head(session[i].out),
         c.call \in {"Respond", "Unfriend", "Block", "Unblock"}, AnswerUser(i, c)
  PROVE  ListOK'
  <1> DEFINE M == Mail(i)
             o == session[i].out
             v == c.user
             L == lists
             T == Coming(i)
             r == server.rel[v]
             p == Tail(o)
  <1>0. v \in Others /\ Synced(v, r, L, M, o, T)
    BY OpenLists, UserShape
  <1>1. o \in Seq(Calls) /\ M \in Seq(Messages)
    BY MailType
  <1>2. server.rel \in [Others -> Relations]
    BY DEF Typed, TypedServer, Account
  <1>3. /\ \A q : NewRelation(v, q) =>
             /\ server'.auth = server.auth /\ server'.rel[v] = q
             /\ \A u \in Others \ {v} : server'.rel[u] = server.rel[u]
        /\ SameAccount => /\ server'.auth = server.auth /\ server'.rel[v] = r
                          /\ \A u \in Others \ {v} : server'.rel[u] = server.rel[u]
    BY <1>0, <1>2 DEF NewRelation, SameAccount
  <1>4. /\ Answered(i, <<>>) => Mail(i)' = M /\ session'[i].out = p /\ Added(i, <<>>)
        /\ \A k \in UserNews : Answered(i, <<About(k, v)>>) =>
             /\ Mail(i)' = Append(M, About(k, v)) /\ session'[i].out = p
             /\ Added(i, <<About(k, v)>>)
    <2>1. \A m \in Messages : Added(i, <<m>>) => Mail(i)' = Append(M, m)
      BY AddedMail
    <2>2. Added(i, <<>>) => Mail(i)' = M
      BY PlainMessage, AddedMail
    <2>3. \A k \in UserNews : About(k, v) \in Messages
      BY <1>0, AboutUsers
    <2> QED BY <2>1, <2>2, <2>3 DEF Answered
  <1>5. c.call # "Fetch" /\ \A u \in Others \ {v} : c \notin Replies(u)
    BY DEF Replies
  <1>6. ASSUME NEW q, NewRelation(v, q) \/ (SameAccount /\ q = r),
               \/ Answered(i, <<>>) /\ Synced(v, q, L, M, p, T)
               \/ \E k \in UserNews : /\ Answered(i, <<About(k, v)>>)
                                      /\ Synced(v, q, L, Append(M, About(k, v)), p, T)
        PROVE  ListOK'
    <2>1. /\ server'.auth = server.auth /\ server'.rel[v] = q
          /\ \A u \in Others \ {v} : server'.rel[u] = server.rel[u]
      BY <1>3, <1>6
    <2>2. /\ session'[i].out = p /\ Synced(v, q, L, Mail(i)', session'[i].out, T)
          /\ Added(i, <<>>) \/ \E k \in UserNews : Added(i, <<About(k, v)>>)
      BY <1>4, <1>6
    <2> QED BY <1>0, <1>5, <2>1, <2>2, ListUser
  <1>7. c.call = "Respond" => /\ r # "FriendRequests" => Synced(v, r, L, M, p, T)
                              /\ Synced(v, "none", L, M, p, T) \/ r # "FriendRequests"
                              /\ ~Has(p, Replies(v))
    <2>1. c.call = "Respond" => c \in Replies(v)
      BY DEF Replies
    <2> HIDE DEF o
    <2> QED BY <1>0, <1>1, <2>1, SyncedReplied DEF o
  <1>8. c.call # "Respond" => /\ Synced(v, r, L, M, p, T)
                              /\ Has(p, Replies(v)) <=> Has(o, Replies(v))
                              /\ c \in Bars(v) => ~Has(o, Replies(v))
    <2>1. c.call # "Respond" => c \notin Replies(v)
      BY DEF Replies
    <2> HIDE DEF o
    <2> QED BY <1>0, <1>1, <2>1, SyncedAnswer DEF o
  <1>9. Has(o, Replies(v)) => r \in {"FriendRequests", "Blocks"}
    BY <1>0 DEF Synced
  <1>10. c.call = "Unblock" => c \in Bars(v)
    BY DEF Bars
  <1> HIDE DEF M, o, v, L, T, r, p
  <1>a. ASSUME NEW k \in UserNews, NEW q, NEW s, Synced(v, s, L, M, p, T),
               \A t \in ListTypes : /\ About(k, v) \in Adds(t, v) <=> q = t
                                    /\ s = t /\ q # t => About(k, v) \in Removes(t, v),
               Has(p, Replies(v)) => q = "Blocks"
        PROVE  Synced(v, q, L, Append(M, About(k, v)), p, T)
    BY <1>1, <1>a, SyncedChange
  <1>11. CASE /\ c.call = "Respond" /\ r = "FriendRequests"
              /\ NewRelation(v, "Friends")
              /\ Answered(i, <<About("FriendAdded", v)>>)
    <2>1. Synced(v, "Friends", L, Append(M, About("FriendAdded", v)), p, T)
      BY <1>0, <1>7, <1>11, <1>a, AboutUsers DEF ListTypes, UserNews
    <2> QED BY <1>6, <1>11, <2>1 DEF UserNews
  <1>12. CASE /\ c.call = "Respond" /\ r = "FriendRequests"
              /\ NewRelation(v, "none") /\ Answered(i, <<>>)
    BY <1>6, <1>7, <1>12
  <1>13. CASE /\ c.call = "Unfriend" /\ r = "Friends"
              /\ NewRelation(v, "none")
              /\ Answered(i, <<About("FriendRemoved", v)>>)
    <2>1. Synced(v, "none", L, Append(M, About("FriendRemoved", v)), p, T)
      BY <1>0, <1>8, <1>9, <1>13, <1>a, AboutUsers DEF ListTypes, UserNews
    <2> QED BY <1>6, <1>13, <2>1 DEF UserNews
  <1>14. CASE /\ c.call = "Block" /\ r # "Blocks"
              /\ NewRelation(v, "Blocks")
              /\ Answered(i, <<About("Blocked", v)>>)
    <2>1. Synced(v, "Blocks", L, Append(M, About("Blocked", v)), p, T)
      BY <1>0, <1>8, <1>14, <1>a, AboutUsers DEF ListTypes, UserNews
    <2> QED BY <1>6, <1>14, <2>1 DEF UserNews
  <1>15. CASE /\ c.call = "Unblock" /\ r = "Blocks"
              /\ NewRelation(v, "none")
              /\ Answered(i, <<About("Unblocked", v)>>)
    <2>1. Synced(v, "none", L, Append(M, About("Unblocked", v)), p, T)
      BY <1>0, <1>8, <1>10, <1>15, <1>a, AboutUsers DEF ListTypes, UserNews
    <2> QED BY <1>6, <1>15, <2>1 DEF UserNews
  <1>16. CASE /\ c.call = "Respond" => r # "FriendRequests"
              /\ SameAccount /\ Answered(i, <<>>)
    BY <1>6, <1>7, <1>8, <1>16
  <1> QED BY <1>11, <1>12, <1>13, <1>14, <1>15, <1>16, UserShape DEF r, v

LEMMA ListAnswer ==
  ASSUME Typed, Net, ListOK, NEW i \in Sessions, Answer(i)
  PROVE  ListOK'
  <1> DEFINE c == Head(session[i].out)
             o == session[i].out
  <1>0. /\ session[i].stage = "Up" /\ o # <<>> /\ current' = current
        /\ UNCHANGED <<strand, lists>>
    BY DEF Answer, core
  <1>b. c \in Calls
    BY AnswerShape
  <1>1. ASSUME \/ Answered(i, <<>>)
               \/ \E m \in Messages \ Listings : Answered(i, <<m>>),
               server'.auth = server.auth, server'.rel = server.rel,
               i \in server.auth => c.call \notin {"Fetch", "Respond"}
        PROVE  ListOK'
    <2>1. session'[i].out = Tail(o)
      BY <1>1 DEF Answered
    <2>2. \E m \in Messages \ Listings : Added(i, <<>>) \/ Added(i, <<m>>)
      BY <1>1, PlainListings DEF Answered
    <2> QED BY <1>0, <1>1, <2>1, <2>2, ListPlain
  <1>2. CASE /\ i \notin server.auth /\ server'.auth = {i} /\ server'.rel = server.rel
             /\ \/ Answered(i, <<Msg("GoodAuth"), Msg("MatchInProgress")>>)
                \/ Answered(i, <<Msg("MatchInProgress"), Msg("GoodAuth")>>)
                \/ Answered(i, <<Msg("GoodAuth")>>)
    BY <1>0, <1>2, ListLogin DEF Answered
  <1>3. CASE /\ c.call \in {"Login", "Register"} \/ i \notin server.auth
             /\ SameAccount
             /\ \/ Answered(i, <<Msg("Refusal")>>)
                \/ Answered(i, <<Msg("Notice")>>)
    BY <1>1, <1>3, PlainListings DEF SameAccount
  <1>4. CASE /\ c.call = "Fetch" /\ c.list \in ListTypes /\ SameAccount
             /\ i \in server.auth
             /\ Answered(i, <<[type |-> "List", list |-> c.list,
                               users |-> Of(c.list)]>>)
    <2>1. c = Fetch(c.list)
      BY <1>b, <1>4 DEF Fetch, Calls
    <2> QED BY <1>0, <1>4, <2>1, ListFetched DEF SameAccount
  <1>5. CASE /\ c.call \in {"Respond", "Unfriend", "Block", "Unblock"}
             /\ i \in server.auth /\ AnswerUser(i, c)
    BY <1>0, <1>b, <1>5, ListAnswerUser
  <1>6. CASE /\ c.call \in {"Befriend", "Send", "History", "GetReplay"}
             /\ SameAccount /\ Answered(i, <<>>)
    BY <1>1, <1>6 DEF SameAccount
  <1>7. CASE i \in server.auth /\ AnswerMatch(i, c)
    <2>1. /\ c.call \in {"Queue", "Cancel", "Command", "Forfeit"}
          /\ server'.auth = server.auth /\ server'.rel = server.rel
          /\ \/ Answered(i, <<>>)
             \/ \E t \in {"QueueFailed", "PlayerView", "GameEnded", "ForfeitMatch"} :
                  Answered(i, <<Msg(t)>>)
      BY <1>b, <1>7, MatchShape DEF SameAccount, NewMode, NewMatch
    <2> QED BY <1>1, <2>1, PlainListings
  <1> QED BY <1>2, <1>3, <1>4, <1>5, <1>6, <1>7, AnswerShape

LEMMA ListUnasked ==
  ASSUME Typed, Net, ListOK, NEW i \in Sessions, Unasked(i)
  PROVE  ListOK'
  <1> DEFINE M == Mail(i)
             o == session[i].out
  <1>0. /\ session[i].stage = "Up" /\ current' = current
        /\ UNCHANGED <<strand, lists>>
    BY DEF Unasked, core
  <1>1. ASSUME NEW a \in Messages \ Listings, NEW b \in Messages \ Listings,
               Wired(i, <<a>>) \/ Wired(i, <<a, b>>),
               server'.auth = server.auth, server'.rel = server.rel
        PROVE  ListOK'
    BY <1>0, <1>1, ListPlain DEF Wired
  <1>2. CASE i \in server.auth /\ News(i)
    <2>1. ASSUME NEW v \in Others, NEW k \in UserNews, NEW q,
                 NewRelation(v, q), Wired(i, <<About(k, v)>>),
                 server.rel[v] \notin {"FriendRequests", "Blocks"},
                 \A t \in ListTypes :
                   /\ About(k, v) \in Adds(t, v) <=> q = t
                   /\ server.rel[v] = t /\ q # t => About(k, v) \in Removes(t, v)
          PROVE  ListOK'
      <3>1. Synced(v, server.rel[v], lists, M, o, Coming(i))
        BY <1>0, <1>2, OpenLists
      <3>2. ~Has(o, Replies(v))
        BY <2>1, <3>1 DEF Synced
      <3>3. M \in Seq(Messages)
        BY MailType
      <3>4. About(k, v) \in Messages
        BY AboutUsers
      <3>5. /\ Mail(i)' = Append(M, About(k, v)) /\ session'[i].out = o
            /\ Added(i, <<About(k, v)>>)
        BY <2>1, <3>4, AddedMail DEF Wired
      <3> HIDE DEF M, o
      <3>6. Synced(v, q, lists, Append(M, About(k, v)), o, Coming(i))
        BY <2>1, <3>1, <3>2, <3>3, SyncedChange
      <3>7. /\ server'.auth = server.auth /\ server'.rel[v] = q
            /\ \A u \in Others \ {v} : server'.rel[u] = server.rel[u]
        <4>1. server.rel \in [Others -> Relations]
          BY DEF Typed, TypedServer, Account
        <4> QED BY <2>1, <4>1 DEF NewRelation
      <3> QED BY <1>0, <1>2, <3>5, <3>6, <3>7, ListUser DEF o
    <2>2. ASSUME NEW v \in Others, server.rel[v] = "none",
                 NewRelation(v, "FriendRequests"),
                 Wired(i, <<About("FriendRequest", v)>>)
          PROVE  ListOK'
      BY <2>1, <2>2, AboutUsers DEF UserNews, ListTypes
    <2>3. ASSUME NEW v \in Others, server.rel[v] = "none", NewRelation(v, "Friends"),
                 Wired(i, <<About("FriendAdded", v)>>)
          PROVE  ListOK'
      BY <2>1, <2>3, AboutUsers DEF UserNews, ListTypes
    <2>4. ASSUME NEW v \in Others, server.rel[v] = "Friends", NewRelation(v, "none"),
                 Wired(i, <<About("FriendRemoved", v)>>)
          PROVE  ListOK'
      BY <2>1, <2>4, AboutUsers DEF UserNews, ListTypes
    <2>5. CASE /\ server'.auth = server.auth /\ server'.rel = server.rel
               /\ \/ Wired(i, <<Msg("MatchStarting"), Msg("PlayerView")>>)
                  \/ \E t \in {"QueueFailed", "PlayerView", "MatchOver"} :
                       Wired(i, <<Msg(t)>>)
      BY <1>1, <2>5, PlainListings
    <2> QED BY <1>2, <2>2, <2>3, <2>4, <2>5, NewsShape
            DEF SameAccount, NewMode, NewMatch
  <1>3. CASE Wire(i, <<[type |-> "Malformed"]>>) /\ UNCHANGED server
    <2>1. Wired(i, <<Msg("Malformed")>>)
      <3>1. <<Msg("Malformed")>> \in Seq(Messages)
        BY PlainMessage
      <3> QED BY <1>3, <3>1, WireShape DEF Msg
    <2> QED BY <1>1, <1>3, <2>1, PlainListings
  <1>4. CASE session' = [session EXCEPT ![i].peer = FALSE] /\ UNCHANGED server
    <2>1. AllSame /\ KeepsFetches
      BY <1>0, <1>4, PeerShape DEF KeepsFetches
    <2> QED BY <1>0, <1>4, <2>1, ListSame DEF AllSame, Same
  <1> QED BY <1>2, <1>3, <1>4 DEF Unasked

LEMMA NextList == Typed /\ NetInv /\ ListInv /\ [Next]_vars => ListInv'
  <1> SUFFICES ASSUME Typed, NetInv, ListInv, [Next]_vars, OneAtATime',
                      ~ghost'.late, ~ghost'.overtaken
               PROVE  ListOK'
    BY DEF ListInv
  <1>1. Net /\ ListOK
    BY NextGrows DEF NetInv, ListInv, OneAtATime, Grows
  <1> QED BY <1>1, ListClicks, ListGui, ListConnecting, ListReading,
             ListMessage, ListAnswer, ListUnasked, ListStrand DEF Next

LEMMA InitList == Init => ListOK
  <1> SUFFICES ASSUME Init PROVE ListOK
    OBVIOUS
  <1>0. MaxSessions \in Nat \ {0}
    BY ClientBounds
  <1>1. Started => ListOK
    BY <1>0 DEF Started, ListOK, Sessions
  <1>2. ASSUME NEW mode, NEW match, LoggedIn(mode, match) PROVE ListOK
    <2>1. current = 1 /\ server.auth = {1}
          /\ lists = [t \in ListTypes |-> {u \in Others : server.rel[u] = t}]
      BY <1>2 DEF LoggedIn
    <2>2. 1 \in Sessions
      BY <1>0 DEF Sessions
    <2>3. session[1] = [NewSession EXCEPT !.stage = "Up", !.live = TRUE]
      BY <1>2, <2>2 DEF LoggedIn
    <2>4. /\ session[1].out = <<>>
          /\ session[1].posted = <<>> /\ session[1].wire = <<>>
      BY <2>3 DEF NewSession
    <2>5. Mail(1) = <<>>
      <3>1. <<>> \o <<>> = <<>>
        OBVIOUS
      <3> QED BY <2>4, <3>1 DEF Mail
    <2>6. \A u \in Others : \A T : Synced(u, server.rel[u], lists, <<>>, <<>>, T)
      BY <2>1, EmptyQueue DEF Synced, Listing, Final
    <2>7. ListOf(1)
      BY <2>1, <2>4, <2>5, <2>6 DEF ListOf
    <2> QED BY <2>1, <2>7 DEF ListOK
  <1> QED BY <1>1, <1>2 DEF Init

\* The lists of friends, requests and blocked users are the server's while
\* logged in, and empty without a connection.
THEOREM ListsAreTrue == Spec => []ListsFollowServer
  <1>1. Typed /\ ExitInv /\ NetInv /\ ListInv => ListsFollowServer
    <2> SUFFICES ASSUME Typed, ExitInv, NetInv, ListInv, AtRest, ~exit.asked,
                        ~ghost.late, ~ghost.doubled, ~ghost.overtaken,
                        NEW t \in ListTypes
                 PROVE  lists[t] = IF Connected /\ current \in server.auth
                                   THEN {u \in Others : server.rel[u] = t} ELSE {}
      BY DEF ListsFollowServer
    <2>1. Net /\ ListOK
      BY DEF NetInv, ListInv, OneAtATime
    <2>2. strand = <<>> /\ \A i \in Sessions : Settled(i)
      BY DEF AtRest
    <2>3. CASE current \in server.auth
      <3>1. PICK i \in Sessions : i = current
        BY <2>3 DEF Typed, TypedServer, Account
      <3>2. Settled(i) /\ ListOf(i) /\ session[i].stage = "Up" /\ Connected
        BY <2>1, <2>2, <2>3, <3>1, OnlyCurrent DEF ListOK, Connected
      <3>3. Mail(i) = <<>> /\ session[i].out = <<>>
        <4>1. <<>> \o <<>> = <<>>
          OBVIOUS
        <4> QED BY <3>2, <4>1 DEF Settled, Mail
      <3>4. Coming(i) = {}
        BY <2>2, <3>3, EmptyQueue DEF Coming
      <3>5. \A u \in Others : Synced(u, server.rel[u], lists, <<>>, <<>>, {})
        BY <2>3, <3>1, <3>2, <3>3, <3>4 DEF ListOf
      <3>6. \A u \in Others : u \in lists[t] <=> server.rel[u] = t
        BY <3>5, EmptyQueue DEF Synced, Listing, Final
      <3>7. lists[t] \subseteq Others
        BY DEF Typed, TypedData
      <3> QED BY <2>3, <3>2, <3>6, <3>7
    <2>4. CASE current \notin server.auth
      <3>1. ~Lost
        <4> SUFFICES ASSUME Lost PROVE FALSE
          OBVIOUS
        <4>1. PICK i \in Sessions : i = current
          BY CurrentSession DEF Lost
        <4>2. session[i].stage = "Closed" /\ ~session[i].reported
          BY <4>1 DEF Lost
        <4>3. Items(strand) = {}
          BY <2>2 DEF Items
        <4> QED BY <4>2, <4>3 DEF ExitInv, ClosedReport
      <3> QED BY <2>1, <2>4, <3>1 DEF ListOK
    <2> QED BY <2>3, <2>4
  <1>2. Init => NetInv /\ ListInv
    BY InitNet, InitList DEF NetInv, ListInv
  <1> QED BY <1>1, <1>2, InitTyped, NextTyped, InitExit, NextExit, NextNet,
             NextList, PTL DEF Spec
=============================================================================
