------------------------------- MODULE Client -------------------------------
(***************************************************************************)
(* The client program: the Client object with its strand, the              *)
(* ClientSessions it opens, and the GUI thread's share of their state (the *)
(* screen shown, the queue button, the popups).                            *)
(*                                                                         *)
(* Three kinds of thread touch that state: the strand of each session (all *)
(* of on_message and on_connection), the client's strand (everything       *)
(* posted to client_strand_, on_disconnect included) and the GUI thread    *)
(* (the Q_INVOKABLEs).  An action is what one of them does under its       *)
(* locks; the callback of change_state, which runs after state_mutex_ is   *)
(* released, is a step of its own.                                         *)
(*                                                                         *)
(* The server is external: it answers the requests of a connection in      *)
(* order and sends what a match and the other users bring about.           *)
(***************************************************************************)
EXTENDS Naturals, Sequences, Functions

CONSTANTS
  MaxSessions,  \* bound on the connections opened
  Modes,        \* the game modes one can queue for
  Others,       \* the other users
  NO_MODE,      \* GameMode::NO_MODE
  MaxClicks,    \* bound on what the user does
  MaxSent       \* bound on what the server sends unasked

ASSUME ClientBounds ==
  /\ MaxSessions \in Nat \ {0}
  /\ NO_MODE \notin Modes
  /\ MaxClicks \in Nat /\ MaxSent \in Nat

VARIABLES
  state,        \* state_, under state_mutex_
  hung,         \* a thread holds state_mutex_ and waits for it
  playing,      \* playing_
  lists,        \* client_data_: friends, friend_requests, blocked_users
  current,      \* current_session_ (0: null)
  strand,       \* what is posted to client_strand_
  telling,      \* the callback of change_state a thread has yet to make
  screens,      \* the state changes queued for the GUI thread
  shown,        \* the page Main.qml shows
  updates,      \* the queue updates queued for the GUI thread
  queued_mode,  \* queued_mode_: what the queue button shows
  popups,       \* the popup queues of GUIClient
  exit,         \* shutting_down_, and whether shutdown_callback_ was called
  session,      \* the ClientSessions
  server,       \* what the server holds about this user
  spent,        \* clicks and unasked messages so far
  ghost         \* history: the races the properties tell apart

gui == <<screens, shown, updates, queued_mode>>
core == <<state, hung, playing, lists, telling>>
vars == <<core, current, strand, gui, popups, exit, session, server, spent,
          ghost>>

\* The connections, in the order they are opened.
Sessions == 1 .. MaxSessions

ListTypes == {"Friends", "FriendRequests", "Blocks"}

\* The threads of control: one for each session, and these two.
ClientStrand == 0
GuiThread == MaxSessions + 1
Threads == {ClientStrand, GuiThread} \cup Sessions

Screens == {"ConnectScreen", "LoginScreen", "Lobby", "Playing", "Replaying"}

-----------------------------------------------------------------------------
(* change_state: the state under its mutex, the callback after it. *)

\* h is the history the caller leaves; the change itself records whether it
\* crosses another thread's, and whether the client is done with the session
\* it comes from.
change_state(t, s, h) ==
  /\ state' = s
  /\ telling' = [telling EXCEPT ![t] = s]
  /\ ghost' = [h EXCEPT
       !.crossed = @ \/ \E u \in Threads \ {t} : telling[u] # "none",
       !.late = @ \/ (t \in Sessions /\ session[t].reported)]

\* state_mutex_ can be taken, and the thread is between two handlers.
Free(t) == ~hung /\ telling[t] = "none" /\ ~exit.done

\* A handler that does not touch the state.
KeepState == UNCHANGED <<state, telling, ghost>>

Tell(t) ==
  /\ telling[t] # "none" /\ ~exit.done
  /\ telling' = [telling EXCEPT ![t] = "none"]
  /\ screens' = Append(screens, telling[t])
  /\ UNCHANGED <<state, hung, playing, lists, current, strand, shown, updates,
                 queued_mode, popups, exit, session, server, spent, ghost>>

\* onState_changed of Main.qml: Disconnected has no page.
ShowScreen ==
  /\ screens # <<>> /\ ~exit.done
  /\ screens' = Tail(screens)
  /\ shown' = IF Head(screens) \in Screens THEN Head(screens) ELSE shown
  /\ UNCHANGED <<core, current, strand, updates, queued_mode, popups, exit,
                 session, server, spent, ghost>>

\* The queue button follows the callback in the same way.
UpdateButton ==
  /\ updates # <<>> /\ ~exit.done
  /\ updates' = Tail(updates)
  /\ queued_mode' = Head(updates)
  /\ UNCHANGED <<core, current, strand, screens, shown, popups, exit, session,
                 server, spent, ghost>>

-----------------------------------------------------------------------------
(* Popups.  A push and the try that follows it take popups_mutex_ twice;   *)
(* what another thread does in between commutes with them.                 *)

try_show_popup(p) ==
  IF p.showing \/ (p.urgent = 0 /\ p.standard = 0) THEN p
  ELSE IF p.urgent > 0
       THEN [p EXCEPT !.urgent = @ - 1, !.showing = TRUE, !.posted = TRUE]
       ELSE [p EXCEPT !.standard = @ - 1, !.showing = TRUE, !.posted = TRUE]

Urgent == popups' = try_show_popup([popups EXCEPT !.urgent = @ + 1])
Standard == popups' = try_show_popup([popups EXCEPT !.standard = @ + 1])

ShowPopup ==
  /\ popups.posted /\ ~exit.done
  /\ popups' = [popups EXCEPT !.posted = FALSE, !.visible = TRUE]
  /\ UNCHANGED <<core, current, strand, gui, exit, session, server, spent,
                 ghost>>

\* Slip: closing a popup does not look for the next one.
closed_only(p) == [p EXCEPT !.showing = FALSE, !.visible = FALSE]

notify_popup_closed(p) ==
  try_show_popup([p EXCEPT !.showing = FALSE, !.visible = FALSE])

ClosePopup ==
  /\ popups.visible /\ telling[GuiThread] = "none" /\ ~exit.done
  /\ popups' = notify_popup_closed(popups)
  /\ UNCHANGED <<core, current, strand, gui, exit, session, server, spent,
                 ghost>>

-----------------------------------------------------------------------------
(* ClientSession *)

NewSession == [stage |-> "None", live |-> FALSE, timer |-> "off",
               cancelled |-> FALSE, wire |-> <<>>, posted |-> <<>>,
               out |-> <<>>, jammed |-> FALSE, peer |-> TRUE,
               reported |-> FALSE]

\* deliver and do_write: requests leave in the order they are delivered.  A
\* write that fails leaves its message at the front of write_queue_, and
\* nothing is ever written after it.
deliver(s, m) ==
  IF s.stage = "Up" /\ ~s.jammed THEN [s EXCEPT !.out = Append(@, m)]
  ELSE [s EXCEPT !.jammed = TRUE]

\* A step of session i's strand that leaves the client alone.
Quiet == UNCHANGED <<core, current, strand, gui, exit, server, spent, ghost>>

on_resolve(i) ==
  /\ Free(i) /\ session[i].stage = "Resolving"
  /\ \/ /\ session' = [session EXCEPT ![i].stage = "Connecting",
                                       ![i].timer = "armed"]
        /\ UNCHANGED popups
     \/ /\ session' = [session EXCEPT ![i].stage = "Failed"]
        /\ Urgent
  /\ Quiet

\* The connect timer expires: its handler is queued and can no longer be
\* cancelled.
TimerExpires(i) ==
  /\ session[i].timer = "armed" /\ ~exit.done
  /\ session' = [session EXCEPT ![i].timer = "expired"]
  /\ UNCHANGED popups
  /\ Quiet

on_connect_timeout(i) ==
  /\ Free(i) /\ session[i].timer = "expired"
  /\ session' = [session EXCEPT ![i].timer = "off",
                   ![i].cancelled = @ \/ session[i].stage \in
                                    {"Connecting", "Handshake", "Up"}]
  /\ Urgent
  /\ Quiet

TimerOff(t) == IF t = "armed" THEN "off" ELSE t

on_connect(i) ==
  /\ Free(i) /\ session[i].stage = "Connecting"
  /\ \/ /\ ~session[i].cancelled
        /\ session' = [session EXCEPT ![i].stage = "Handshake",
                                      ![i].timer = TimerOff(@)]
        /\ UNCHANGED popups
     \/ /\ session' = [session EXCEPT ![i].stage = "Failed",
                                      ![i].timer = TimerOff(@)]
        /\ IF session[i].cancelled THEN UNCHANGED popups ELSE Urgent
  /\ Quiet

\* on_disconnect: post to the client's strand.
Disconnected(i) == strand' = Append(strand, [call |-> "Disconnect", by |-> i])

Verified(i) ==
  /\ Free(i) /\ session[i].stage = "Handshake" /\ ~session[i].cancelled
  /\ session' = [session EXCEPT ![i].stage = "Up", ![i].live = TRUE]
  /\ change_state(i, "LoginScreen", ghost)
  /\ UNCHANGED <<hung, playing, lists, current, strand, gui, popups, exit,
                 server, spent>>

BadTLS(i) ==
  /\ Free(i) /\ session[i].stage = "Handshake"
  /\ session' = [session EXCEPT ![i].stage = "Closed"]
  /\ Urgent
  /\ Disconnected(i)
  /\ UNCHANGED <<core, current, gui, exit, server, spent, ghost>>

\* do_read_header, do_read_body, handle_message: a message off the wire is
\* posted to the session's own strand.
Read(i) ==
  /\ Free(i) /\ session[i].stage = "Up" /\ ~session[i].cancelled
  /\ session[i].wire # <<>>
  /\ session' = [session EXCEPT ![i].wire = Tail(@),
                   ![i].posted = Append(@, Head(session[i].wire))]
  /\ UNCHANGED popups
  /\ Quiet

\* close_session on the session's own strand, s being the sessions as the
\* handler leaves them: the socket is closed at once.  The server takes a
\* closed connection out of its queues.
Hangup(i) == server' = [server EXCEPT !.auth = @ \ {i},
                          !.mode = IF i \in server.auth THEN NO_MODE ELSE @]

Shut(s, i) == [s EXCEPT ![i].stage = "Closed", ![i].wire = <<>>,
                        ![i].out = <<>>]

close_session(i, s) ==
  IF session[i].live
  THEN /\ session' = [Shut(s, i) EXCEPT ![i].live = FALSE]
       /\ Urgent
       /\ Disconnected(i)
       /\ Hangup(i)
  ELSE session' = s /\ UNCHANGED <<popups, strand, server>>

handle_read_error(i) ==
  /\ Free(i) /\ session[i].stage = "Up" /\ session[i].live
  /\ \/ session[i].cancelled
     \/ ~session[i].peer /\ session[i].wire = <<>>
  /\ close_session(i, session)
  /\ UNCHANGED <<core, current, gui, exit, spent, ghost>>

\* The dispatch of force_close_session, from another thread, on the strand.
force_close_session(i) ==
  /\ Free(i) /\ session[i].posted # <<>>
  /\ Head(session[i].posted).type = "Close"
  /\ session' = [Shut(session, i) EXCEPT ![i].posted = Tail(@)]
  /\ Disconnected(i)
  /\ Hangup(i)
  /\ UNCHANGED <<core, current, gui, popups, exit, spent, ghost>>

-----------------------------------------------------------------------------
(* on_message: the handlers, on the strand of session i.  m is the message *)
(* and session[i].posted loses it.                                         *)

Popped(i) == [session EXCEPT ![i].posted = Tail(@)]

\* History: a message of a session whose end the client has dealt with.
Tardy(i) == ghost' = [ghost EXCEPT !.late = @ \/ session[i].reported]

Fetch(t) == [call |-> "Fetch", list |-> t]

\* Slip: the lobby is shown whatever came before.
GoodAuthAlways(i) ==
  /\ change_state(i, "Lobby", ghost)
  /\ strand' = strand \o <<Fetch("Friends"), Fetch("FriendRequests"),
                           Fetch("Blocks")>>
  /\ session' = Popped(i)
  /\ UNCHANGED <<hung, playing, lists, popups, updates, server>>

\* "Prevent swapping back to lobby on bad packet ordering when we reconnect
\* to a game."
GoodAuth(i) ==
  /\ IF state = "Playing" THEN UNCHANGED <<state, telling>> /\ Tardy(i)
                          ELSE change_state(i, "Lobby", ghost)
  /\ strand' = strand \o <<Fetch("Friends"), Fetch("FriendRequests"),
                           Fetch("Blocks")>>
  /\ session' = Popped(i)
  /\ UNCHANGED <<hung, playing, lists, popups, updates, server>>

\* Slip: the start of a match leaves the queue button down.
MatchStartingQueued(i) ==
  /\ change_state(i, "Playing", ghost)
  /\ playing' = TRUE
  /\ session' = Popped(i)
  /\ UNCHANGED <<hung, lists, strand, popups, updates, server>>

\* MatchStarting and MatchInProgress; the first also clears the button.
MatchStarting(i) ==
  /\ change_state(i, "Playing", ghost)
  /\ playing' = TRUE
  /\ updates' = Append(updates, NO_MODE)
  /\ session' = Popped(i)
  /\ UNCHANGED <<hung, lists, strand, popups, server>>

MatchInProgress(i) ==
  /\ change_state(i, "Playing", ghost)
  /\ playing' = TRUE
  /\ session' = Popped(i)
  /\ UNCHANGED <<hung, lists, strand, popups, updates, server>>

\* PlayerView: change_state takes state_mutex_, which is held.
PlayerView(i) ==
  /\ hung' = (state # "Playing" /\ playing)
  /\ session' = Popped(i)
  /\ KeepState
  /\ UNCHANGED <<playing, lists, strand, popups, updates, server>>

\* Eliminated, TimedOut and Victory; a forfeit has no popup.
MatchOver(i, m) ==
  /\ playing' = FALSE
  /\ change_state(i, "Lobby", ghost)
  /\ IF m.type = "ForfeitMatch" THEN UNCHANGED popups ELSE Standard
  /\ session' = Popped(i)
  /\ UNCHANGED <<hung, lists, strand, updates, server>>

GameEnded(i) ==
  /\ playing' = FALSE
  /\ session' = Popped(i)
  /\ KeepState
  /\ UNCHANGED <<hung, lists, strand, popups, updates, server>>

\* BadQueue, BadCancel (last_queued_mode_ is never anything but NO_MODE),
\* QueueDropped and MatchCreationError.
QueueFailed(i) ==
  /\ updates' = Append(updates, NO_MODE)
  /\ Urgent
  /\ session' = Popped(i)
  /\ Tardy(i)
  /\ UNCHANGED <<state, telling, hung, playing, lists, strand, server>>

\* Unauthorized, AlreadyAuthorized and GoodRegistration.
Notice(i) ==
  /\ Standard
  /\ session' = Popped(i)
  /\ KeepState
  /\ UNCHANGED <<hung, playing, lists, strand, updates, server>>

\* BadRegistration, BadAuth, RateLimited, Banned, ServerFull.
Refusal(i) ==
  /\ Urgent
  /\ session' = Popped(i)
  /\ KeepState
  /\ UNCHANGED <<hung, playing, lists, strand, updates, server>>

\* load_user_list: what is received is added to what is there.
load_user_list(t, users) == [lists EXCEPT ![t] = @ \cup users]

\* Slip: blocking leaves the user among the friends.
blocked_only(m) == [lists EXCEPT !["Blocks"] = @ \cup {m.user},
                                 !["FriendRequests"] = @ \ {m.user}]

\* NotifyBlocked: "blocking removes entries".
NotifyBlocked(m) == [lists EXCEPT !["Blocks"] = @ \cup {m.user},
                                  !["Friends"] = @ \ {m.user},
                                  !["FriendRequests"] = @ \ {m.user}]

\* The three lists and the five notifications about one user.
Listed(m) ==
  CASE m.type = "List" -> load_user_list(m.list, m.users)
    [] m.type = "FriendAdded" -> [lists EXCEPT !["Friends"] = @ \cup {m.user}]
    [] m.type = "FriendRemoved" -> [lists EXCEPT !["Friends"] = @ \ {m.user}]
    [] m.type = "FriendRequest" ->
         [lists EXCEPT !["FriendRequests"] = @ \cup {m.user}]
    [] m.type = "Blocked" -> NotifyBlocked(m)
    [] m.type = "Unblocked" -> [lists EXCEPT !["Blocks"] = @ \ {m.user}]

UsersUpdated(i, m) ==
  /\ lists' = Listed(m)
  /\ Tardy(i)
  /\ session' = Popped(i)
  /\ UNCHANGED <<state, telling, hung, playing, strand, popups, updates,
                 server>>

\* A payload of the wrong size, or a conversion that throws.
Malformed(i) ==
  /\ close_session(i, Popped(i))
  /\ KeepState
  /\ UNCHANGED <<hung, playing, lists, updates>>

on_message(i) ==
  /\ Free(i) /\ session[i].posted # <<>>
  /\ LET m == Head(session[i].posted) IN
       \/ m.type = "GoodAuth" /\ GoodAuth(i)
       \/ m.type = "MatchStarting" /\ MatchStarting(i)
       \/ m.type = "MatchInProgress" /\ MatchInProgress(i)
       \/ m.type = "PlayerView" /\ PlayerView(i)
       \/ m.type \in {"ForfeitMatch", "MatchOver"} /\ MatchOver(i, m)
       \/ m.type = "GameEnded" /\ GameEnded(i)
       \/ m.type = "QueueFailed" /\ QueueFailed(i)
       \/ m.type = "Notice" /\ Notice(i)
       \/ m.type = "Refusal" /\ Refusal(i)
       \/ /\ m.type \in {"List", "FriendAdded", "FriendRemoved",
                         "FriendRequest", "Blocked", "Unblocked"}
          /\ UsersUpdated(i, m)
       \/ m.type = "Malformed" /\ Malformed(i)
  /\ UNCHANGED <<current, screens, shown, queued_mode, exit, spent>>

-----------------------------------------------------------------------------
(* What the user does, on the GUI thread.  A call that is posted to the    *)
(* client's strand is done there by RunStrand.                             *)

Click == /\ Free(GuiThread) /\ spent.clicks < MaxClicks
         /\ spent' = [spent EXCEPT !.clicks = @ + 1]

Post(c) == strand' = Append(strand, c)

Posted(c) ==
  /\ Click
  /\ Post(c)
  /\ UNCHANGED <<core, current, gui, popups, exit, session, server, ghost>>

connect == shown = "ConnectScreen" /\ Posted([call |-> "Connect"])

login == state = "LoginScreen" /\ shown = "LoginScreen"
         /\ \E ok \in BOOLEAN : Posted([call |-> "Login", ok |-> ok])

register_account ==
  state = "LoginScreen" /\ shown = "LoginScreen"
  /\ \E ok \in BOOLEAN : Posted([call |-> "Register", ok |-> ok])

InLobby == shown \in {"Lobby", "Playing", "Replaying"}

send_friend_request ==
  InLobby /\ \E ok \in BOOLEAN : Posted([call |-> "Befriend", ok |-> ok])

respond_friend_request ==
  InLobby /\ \E u \in lists["FriendRequests"], yes \in BOOLEAN :
               Posted([call |-> "Respond", user |-> u, yes |-> yes])

send_unfriend_request ==
  InLobby /\ \E u \in lists["Friends"] :
               Posted([call |-> "Unfriend", user |-> u])

send_block_request ==
  InLobby /\ \E u \in Others, ok \in BOOLEAN :
               Posted([call |-> "Block", user |-> u, ok |-> ok])

send_unblock_request ==
  InLobby /\ \E u \in lists["Blocks"] :
               Posted([call |-> "Unblock", user |-> u])

\* toggle_queue, then queue_request or cancel_request: both return at once
\* outside the lobby.
queue_request ==
  /\ shown = "Lobby" /\ state = "Lobby" /\ queued_mode = NO_MODE
  /\ \E mode \in Modes : Posted([call |-> "Queue", mode |-> mode])

cancel_request ==
  /\ shown = "Lobby" /\ state = "Lobby" /\ queued_mode # NO_MODE
  /\ Posted([call |-> "Cancel", mode |-> queued_mode])

send_command ==
  shown = "Playing" /\ state = "Playing" /\ Posted([call |-> "Command"])

forfeit_request ==
  shown = "Playing" /\ state = "Playing" /\ Posted([call |-> "Forfeit"])

\* Text that is not a direct message to a friend goes to the match.
interpret_message ==
  InLobby /\ \E u \in Others \cup {"match"} :
               Posted([call |-> "Text", user |-> u])

fetch_match_history == shown = "Lobby" /\ Posted([call |-> "History"])

request_match_replay == shown = "Lobby" /\ Posted([call |-> "GetReplay"])

start_replay ==
  /\ Click /\ shown = "Lobby"
  /\ change_state(GuiThread, "Replaying",
                  [ghost EXCEPT !.stale = @ \/ state # "Lobby"])
  /\ UNCHANGED <<hung, playing, lists, current, strand, gui, popups, exit,
                 session, server>>

close_replay ==
  /\ Click /\ shown = "Replaying"
  /\ change_state(GuiThread, "Lobby",
                  [ghost EXCEPT !.stale = @ \/ state # "Replaying"])
  /\ UNCHANGED <<hung, playing, lists, current, strand, gui, popups, exit,
                 session, server>>

shutdown ==
  /\ ~exit.asked /\ telling[GuiThread] = "none" /\ ~exit.done
  /\ exit' = [exit EXCEPT !.asked = TRUE]
  /\ Post([call |-> "Shutdown"])
  /\ UNCHANGED <<core, current, gui, popups, session, server, spent, ghost>>

-----------------------------------------------------------------------------
(* The client's strand: the body of each posted call. *)

Send(m) == session' = [session EXCEPT ![current] = deliver(@, m)]

\* A request that is only sent.
JustSend(c) ==
  /\ Send(c)
  /\ KeepState
  /\ UNCHANGED <<hung, playing, lists, current, updates, popups, exit>>
  /\ strand' = Tail(strand)

\* The name or the password is empty or too long: a popup and no request.
Checked(c) ==
  /\ IF c.ok THEN Send(c) /\ UNCHANGED popups
             ELSE Standard /\ UNCHANGED session
  /\ KeepState
  /\ UNCHANGED <<hung, playing, lists, current, updates, exit>>
  /\ strand' = Tail(strand)

Idle ==
  current # 0 => \/ session[current].stage = "Failed"
                 \/ session[current].reported

OnConnect ==
  /\ IF exit.asked \/ current + 1 \notin Sessions
     THEN UNCHANGED <<current, session, ghost>>
     ELSE /\ current' = current + 1
          /\ session' = [session EXCEPT ![current + 1].stage = "Resolving"]
          /\ ghost' = [ghost EXCEPT !.doubled = @ \/ ~Idle]
  /\ strand' = Tail(strand)
  /\ UNCHANGED <<core, updates, popups, exit>>

\* History: the requests on their way, and the messages.
Requests == UNION {Range(session[i].out) : i \in Sessions}
InFlight == UNION {Range(session[i].wire \o session[i].posted) :
                     i \in Sessions}

\* History: the request was answered before, or comes back: with a list of
\* requests, or as a new one that follows a block on its way to or fro.
Overtakes(c) ==
  \/ c.user \notin lists["FriendRequests"]
  \/ Fetch("FriendRequests") \in Requests
  \/ \E r \in Requests : r.call = "Unblock" /\ r.user = c.user
  \/ \E m \in InFlight :
       \/ m.type = "List" /\ m.list = "FriendRequests"
       \/ m.type \in {"FriendRequest", "Blocked"} /\ m.user = c.user

\* The request is answered locally at once.
OnRespond(c) ==
  /\ Send(c)
  /\ lists' = [lists EXCEPT !["FriendRequests"] = @ \ {c.user}]
  /\ ghost' = [ghost EXCEPT !.overtaken = @ \/ Overtakes(c)]
  /\ strand' = Tail(strand)
  /\ UNCHANGED <<state, telling, hung, playing, current, updates, popups,
                 exit>>

\* History: something that will raise the button again is on its way, or the
\* server still has the user in a queue.
Requeues ==
  \/ server.mode # NO_MODE
  \/ \E r \in Requests : \/ r.call = "Queue"
                         \/ r.call = "Cancel" /\ server.match
  \/ \E m \in InFlight : m.type \in {"QueueFailed", "MatchStarting"}

\* The button is told as soon as the request has been handed over.
OnQueue(c) ==
  /\ Send(c)
  /\ updates' = Append(updates, IF c.call = "Queue" THEN c.mode ELSE NO_MODE)
  /\ strand' = Tail(strand)
  /\ ghost' = [ghost EXCEPT
       !.requeued = @ \/ (c.call = "Queue" /\ Requeues),
       !.kept = @ \/ (c.call = "Queue" /\ current \notin server.auth)]
  /\ UNCHANGED <<state, telling, hung, playing, lists, current, popups, exit>>

\* A direct message goes only to a friend.
OnText(c) ==
  /\ IF c.user \in lists["Friends"] \cup {"match"}
     THEN strand' = Append(Tail(strand), [call |-> "Send"])
     ELSE strand' = Tail(strand)
  /\ KeepState
  /\ UNCHANGED <<hung, playing, lists, current, session, updates, popups,
                 exit>>

\* close_session from this strand: the close itself is dispatched.
OnShutdown ==
  /\ IF current = 0
     THEN exit' = [exit EXCEPT !.done = TRUE] /\ UNCHANGED <<session, popups>>
     ELSE /\ IF session[current].live
             THEN /\ session' = [session EXCEPT ![current].live = FALSE,
                       ![current].posted = Append(@, [type |-> "Close"])]
                  /\ Urgent
             ELSE UNCHANGED <<session, popups>>
          /\ UNCHANGED exit
  /\ ghost' = [ghost EXCEPT !.unheard = @ \/
                 /\ current # 0
                 /\ ~session[current].live
                 /\ \/ session[current].stage # "Closed"
                    \/ session[current].reported]
  /\ strand' = Tail(strand)
  /\ UNCHANGED <<core, current, updates>>

\* History: the button is down, or about to be.
Dropped == [ghost EXCEPT !.kept = @ \/ queued_mode # NO_MODE
                                   \/ updates # <<>>]

\* Slip: leaving is left to the connect page.
OnDisconnectStays(c) ==
  /\ session' = [session EXCEPT ![c.by].reported = TRUE]
  /\ change_state(ClientStrand, "Disconnected", Dropped)
  /\ lists' = [t \in ListTypes |-> {}]
  /\ strand' = <<[call |-> "Disconnected"]>> \o Tail(strand)
  /\ UNCHANGED <<playing, exit, hung, current, updates, popups>>

\* on_disconnect up to the first change_state and what is cleared after it.
OnDisconnect(c) ==
  /\ session' = [session EXCEPT ![c.by].reported = TRUE]
  /\ IF exit.asked
     THEN /\ exit' = [exit EXCEPT !.done = TRUE]
          /\ KeepState
          /\ UNCHANGED <<playing, lists>>
          /\ strand' = Tail(strand)
     ELSE /\ change_state(ClientStrand, "Disconnected", Dropped)
          /\ lists' = [t \in ListTypes |-> {}]
          /\ UNCHANGED playing
          /\ strand' = <<[call |-> "Disconnected"]>> \o Tail(strand)
          /\ UNCHANGED exit
  /\ UNCHANGED <<hung, current, updates, popups>>

\* The rest of it.
OnDisconnected ==
  /\ playing' = FALSE
  /\ change_state(ClientStrand, "ConnectScreen", ghost)
  /\ strand' = Tail(strand)
  /\ UNCHANGED <<hung, lists, current, session, updates, popups, exit>>

RunStrand ==
  /\ Free(ClientStrand) /\ strand # <<>>
  /\ LET c == Head(strand) IN
       \/ c.call = "Connect" /\ OnConnect
       \/ c.call \in {"Login", "Register", "Befriend", "Block"} /\ Checked(c)
       \/ /\ c.call \in {"Fetch", "Unfriend", "Unblock", "Command", "Forfeit",
                         "History", "GetReplay", "Send"}
          /\ JustSend(c)
       \/ c.call = "Respond" /\ OnRespond(c)
       \/ c.call \in {"Queue", "Cancel"} /\ OnQueue(c)
       \/ c.call = "Text" /\ OnText(c)
       \/ c.call = "Shutdown" /\ OnShutdown
       \/ c.call = "Disconnect" /\ OnDisconnect(c)
       \/ c.call = "Disconnected" /\ OnDisconnected
  /\ UNCHANGED <<screens, shown, queued_mode, server, spent>>

-----------------------------------------------------------------------------
(* The server, external: what it may do on an open connection. *)

Wire(i, ms) == session' = [session EXCEPT ![i].wire = @ \o ms]

Replied(i, ms) == session' = [session EXCEPT ![i].out = Tail(@),
                                             ![i].wire = @ \o ms]

Of(t) == {u \in Others : server.rel[u] = t}

Related(u, r) == server' = [server EXCEPT !.rel[u] = r]

\* A login ends the session the user had before; a match in progress is
\* announced before or after the login is confirmed.
AnswerLogin(i) ==
  \/ /\ i \notin server.auth
     /\ server' = [server EXCEPT !.auth = {i},
                     !.mode = IF server.auth = {} THEN @ ELSE NO_MODE]
     /\ \E ms \in IF server.match
                  THEN {<<"GoodAuth", "MatchInProgress">>,
                        <<"MatchInProgress", "GoodAuth">>}
                  ELSE {<<"GoodAuth">>} :
          session' = [j \in Sessions |->
             IF j = i
             THEN [session[i] EXCEPT !.out = Tail(@),
                     !.wire = @ \o [k \in DOMAIN ms |-> [type |-> ms[k]]]]
             ELSE [session[j] EXCEPT !.peer = @ /\ j \notin server.auth]]
  \/ /\ Replied(i, <<[type |-> "Refusal"]>>)
     /\ UNCHANGED server

AnswerUser(i, c) ==
  CASE c.call = "Respond" /\ server.rel[c.user] = "FriendRequests" /\ c.yes ->
         /\ Related(c.user, "Friends")
         /\ Replied(i, <<[type |-> "FriendAdded", user |-> c.user]>>)
    [] c.call = "Respond" /\ server.rel[c.user] = "FriendRequests" /\ ~c.yes ->
         Related(c.user, "none") /\ Replied(i, <<>>)
    [] c.call = "Unfriend" /\ server.rel[c.user] = "Friends" ->
         /\ Related(c.user, "none")
         /\ Replied(i, <<[type |-> "FriendRemoved", user |-> c.user]>>)
    [] c.call = "Block" /\ server.rel[c.user] # "Blocks" ->
         /\ Related(c.user, "Blocks")
         /\ Replied(i, <<[type |-> "Blocked", user |-> c.user]>>)
    [] c.call = "Unblock" /\ server.rel[c.user] = "Blocks" ->
         /\ Related(c.user, "none")
         /\ Replied(i, <<[type |-> "Unblocked", user |-> c.user]>>)
    [] OTHER -> Replied(i, <<>>) /\ UNCHANGED server

AnswerMatch(i, c) ==
  \/ /\ c.call = "Queue"
     /\ IF server.match \/ server.mode # NO_MODE
        THEN Replied(i, <<[type |-> "QueueFailed"]>>) /\ UNCHANGED server
        ELSE /\ Replied(i, <<>>)
             /\ server' = [server EXCEPT !.mode = c.mode]
  \/ /\ c.call = "Cancel"
     /\ server' = [server EXCEPT !.mode = NO_MODE]
     /\ Replied(i, IF server.match THEN <<[type |-> "QueueFailed"]>> ELSE <<>>)
  \/ /\ c.call = "Command" /\ UNCHANGED server
     /\ Replied(i, <<[type |-> IF server.match THEN "PlayerView"
                                               ELSE "GameEnded"]>>)
  \/ /\ c.call = "Forfeit"
     /\ server' = [server EXCEPT !.match = FALSE]
     /\ Replied(i, IF server.match THEN <<[type |-> "ForfeitMatch"]>>
                                   ELSE <<>>)

Answer(i) ==
  /\ session[i].stage = "Up" /\ session[i].peer /\ session[i].out # <<>>
  /\ ~exit.done
  /\ LET c == Head(session[i].out) IN
       \/ c.call = "Login" /\ AnswerLogin(i)
       \/ /\ \/ c.call = "Register"
             \/ c.call # "Login" /\ i \notin server.auth
          /\ Replied(i, <<[type |-> "Notice"]>>) /\ UNCHANGED server
       \/ /\ c.call = "Fetch" /\ i \in server.auth
          /\ Replied(i, <<[type |-> "List", list |-> c.list,
                           users |-> Of(c.list)]>>)
          /\ UNCHANGED server
       \/ /\ c.call \in {"Respond", "Unfriend", "Block", "Unblock"}
          /\ i \in server.auth /\ AnswerUser(i, c)
       \/ /\ c.call \in {"Queue", "Cancel", "Command", "Forfeit"}
          /\ i \in server.auth /\ AnswerMatch(i, c)
       \/ /\ c.call \in {"Befriend", "Send", "History", "GetReplay"}
          /\ i \in server.auth /\ Replied(i, <<>>) /\ UNCHANGED server
  /\ UNCHANGED <<core, current, strand, gui, popups, exit, spent, ghost>>

\* What the match, the queue and the other users bring about.
News(i) ==
  \/ /\ server.mode # NO_MODE /\ ~server.match
     /\ \/ /\ server' = [server EXCEPT !.mode = NO_MODE, !.match = TRUE]
           /\ Wire(i, <<[type |-> "MatchStarting"], [type |-> "PlayerView"]>>)
        \/ /\ server' = [server EXCEPT !.mode = NO_MODE]
           /\ Wire(i, <<[type |-> "QueueFailed"]>>)
  \/ /\ server.match
     /\ \/ Wire(i, <<[type |-> "PlayerView"]>>) /\ UNCHANGED server
        \/ /\ Wire(i, <<[type |-> "MatchOver"]>>)
           /\ server' = [server EXCEPT !.match = FALSE]
  \/ \E u \in Others :
       \/ /\ server.rel[u] = "none"
          /\ \/ /\ Related(u, "FriendRequests")
                /\ Wire(i, <<[type |-> "FriendRequest", user |-> u]>>)
             \/ /\ Related(u, "Friends")
                /\ Wire(i, <<[type |-> "FriendAdded", user |-> u]>>)
       \/ /\ server.rel[u] = "Friends"
          /\ Related(u, "none")
          /\ Wire(i, <<[type |-> "FriendRemoved", user |-> u]>>)

Unasked(i) ==
  /\ session[i].stage = "Up" /\ session[i].peer /\ ~exit.done
  /\ spent.sent < MaxSent
  /\ spent' = [spent EXCEPT !.sent = @ + 1]
  /\ \/ i \in server.auth /\ News(i)
     \/ Wire(i, <<[type |-> "Malformed"]>>) /\ UNCHANGED server
     \/ session' = [session EXCEPT ![i].peer = FALSE] /\ UNCHANGED server
  /\ UNCHANGED <<core, current, strand, gui, popups, exit, ghost>>

-----------------------------------------------------------------------------
NoRaces == [late |-> FALSE, crossed |-> FALSE, doubled |-> FALSE,
            stale |-> FALSE, overtaken |-> FALSE, requeued |-> FALSE,
            kept |-> FALSE, unheard |-> FALSE]

Common ==
  /\ hung = FALSE
  /\ playing = TRUE
  /\ strand = <<>>
  /\ telling = [t \in Threads |-> "none"]
  /\ screens = <<>> /\ updates = <<>>
  /\ popups = [urgent |-> 0, standard |-> 0, showing |-> FALSE,
               posted |-> FALSE, visible |-> FALSE]
  /\ exit = [asked |-> FALSE, done |-> FALSE]
  /\ spent = [clicks |-> 0, sent |-> 0]
  /\ ghost = NoRaces

\* The program has started; the user may have left a match behind.
Started ==
  /\ state = "ConnectScreen" /\ shown = "ConnectScreen"
  /\ current = 0 /\ queued_mode = NO_MODE
  /\ session = [i \in Sessions |-> NewSession]
  /\ lists = [t \in ListTypes |-> {}]
  /\ \E match \in BOOLEAN :
       server = [auth |-> {}, mode |-> NO_MODE, match |-> match,
                 rel |-> [u \in Others |-> "Friends"]]

\* The user has connected and logged in, and the lists have arrived; the
\* user is idle, queued or in a match.
LoggedIn(mode, match) ==
  /\ state = IF match THEN "Playing" ELSE "Lobby"
  /\ shown = state
  /\ queued_mode = mode
  /\ current = 1
  /\ session = [i \in Sessions |->
                  IF i = 1 THEN [NewSession EXCEPT !.stage = "Up",
                                                   !.live = TRUE]
                           ELSE NewSession]
  /\ \E rel \in [Others -> {"none", "Friends", "FriendRequests"}] :
       /\ match \/ mode # NO_MODE => rel = [u \in Others |-> "none"]
       /\ lists = [t \in ListTypes |-> {u \in Others : rel[u] = t}]
       /\ server = [auth |-> {1}, mode |-> mode, match |-> match,
                    rel |-> rel]

Init ==
  /\ Common
  /\ \/ Started
     \/ LoggedIn(NO_MODE, TRUE)
     \/ \E mode \in Modes \cup {NO_MODE} : LoggedIn(mode, FALSE)

Clicks ==
  \/ connect \/ login \/ register_account
  \/ send_friend_request \/ respond_friend_request \/ send_unfriend_request
  \/ send_block_request \/ send_unblock_request
  \/ queue_request \/ cancel_request \/ send_command \/ forfeit_request
  \/ interpret_message \/ fetch_match_history \/ request_match_replay
  \/ start_replay \/ close_replay \/ shutdown \/ ClosePopup

Next ==
  \/ Clicks
  \/ ShowScreen \/ UpdateButton \/ ShowPopup
  \/ RunStrand
  \/ \E t \in Threads : Tell(t)
  \/ \E i \in Sessions :
       \/ on_resolve(i) \/ TimerExpires(i) \/ on_connect_timeout(i)
       \/ on_connect(i) \/ Verified(i) \/ BadTLS(i)
       \/ Read(i) \/ handle_read_error(i) \/ force_close_session(i)
       \/ on_message(i)
       \/ Answer(i) \/ Unasked(i)

Spec == Init /\ [][Next]_vars

-----------------------------------------------------------------------------
(* Properties.  They speak of the moments at which nothing is under way.   *)

Settled(i) ==
  /\ session[i].stage \in {"None", "Failed", "Up", "Closed"}
  /\ session[i].wire = <<>> /\ session[i].posted = <<>>
  /\ session[i].out = <<>>
  /\ session[i].stage = "Up" => session[i].peer /\ ~session[i].cancelled

AtRest ==
  /\ strand = <<>> /\ screens = <<>> /\ updates = <<>>
  /\ \A t \in Threads : telling[t] = "none"
  /\ \A i \in Sessions : Settled(i)
  /\ ~hung

\* The session in use is connected.
Connected == current # 0 /\ session[current].stage = "Up"

\* What is on the screen is what the server knows: the connect page without
\* a connection, the login page before a login, the game while a match is
\* on, the lobby (or a replay opened in it) otherwise; and the page shown is
\* the state.  Four races break it in the code, and only they do: a message
\* handled after the end of its session, two threads in change_state at once
\* (client.h:163), a second connection opened over the first, and a replay
\* opened or closed on a page that is no longer the client's state.
ScreenFollowsServer ==
  AtRest /\ ~exit.asked /\ ~ghost.late /\ ~ghost.crossed /\ ~ghost.doubled
         /\ ~ghost.stale =>
    /\ shown = state
    /\ state = (IF ~Connected THEN "ConnectScreen"
                ELSE IF current \notin server.auth THEN "LoginScreen"
                ELSE IF server.match THEN "Playing"
                ELSE IF state = "Replaying" THEN "Replaying" ELSE "Lobby")

\* The lists of friends, requests and blocked users are the server's while
\* logged in, and empty without a connection.  The exceptions are a message
\* handled after the end of its session, a second connection over the first,
\* an answer given while something that brings the request back was on its
\* way (the list of requests, or a block that is lifted again), and a second
\* answer to one request, which the server may take for the answer to a later
\* one.
ListsFollowServer ==
  AtRest /\ ~exit.asked /\ ~ghost.late /\ ~ghost.doubled
         /\ ~ghost.overtaken =>
    \A t \in ListTypes :
      lists[t] = IF Connected /\ current \in server.auth
                 THEN {u \in Others : server.rel[u] = t} ELSE {}

\* The queue button shows the queue the server has the user in.  It does not
\* when a request was sent over an earlier one that is still held, or whose
\* refusal or match is on its way: the answer to the one is taken for the
\* other's.  And it does not after a connection was lost with the button
\* down, which on_disconnect leaves as it is, or with a request to queue still
\* on the strand, which then puts it down.
ButtonFollowsServer ==
  AtRest /\ ~exit.asked /\ ~ghost.late /\ ~ghost.doubled
         /\ ~ghost.requeued /\ ~ghost.kept
         /\ Connected /\ current \in server.auth =>
    queued_mode = server.mode

\* A popup that waits is behind one that is shown: closing a popup always
\* brings the next one up, and no two are shown at once.
PopupsAreShown ==
  /\ popups.urgent + popups.standard > 0 => popups.showing
  /\ popups.showing <=> popups.posted \/ popups.visible
  /\ ~(popups.posted /\ popups.visible)

\* A user who leaves gets out: once everything has come to rest after
\* shutdown(), the callback that ends the program has been called.  Only a
\* session that was not live when shutdown reached it is waited for in vain.
ExitCompletes ==
  AtRest /\ exit.asked /\ ~ghost.unheard => exit.done

\* "Change to playing if necessary.": a view of a running match brings the
\* game back on the screen and the client goes on.
ViewBringsGameBack == ~hung

\* "If not connected, we do not need to wait and can just exit."
ExitsWhenNotConnected ==
  AtRest /\ exit.asked /\ ~Connected => exit.done
=============================================================================
