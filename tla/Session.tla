------------------------------- MODULE Session -------------------------------
(***************************************************************************)
(* One connection of the server (session.h, session.cpp).                  *)
(*                                                                         *)
(* The members of a Session are touched by handlers on its strand_: the    *)
(* completions of its reads and writes, its four timers, and what other    *)
(* threads post (deliver, close_session).  `self` is the object, each      *)
(* member function an operator on it, each handler run to completion by    *)
(* one step.  Only close_session looks at live_ from other threads.        *)
(*                                                                         *)
(* Messages are counted, not told apart, and what Server::on_message does  *)
(* with one is reduced to what comes back: an answer, a close, or neither. *)
(***************************************************************************)
EXTENDS Integers, Sequences, FiniteSets

CONSTANTS
    MAX_MESSAGE_BACKLOG,
    Callers,            \* threads of other objects that call close_session, once each
    MaxDelivers,        \* bound: deliver() calls by other objects
    MaxPosts            \* bound: timers run out, and the peer and other objects act,
                        \* while at most this many handlers wait

ASSUME SessionAssumption ==
    /\ MAX_MESSAGE_BACKLOG \in Nat \ {0}
    /\ MaxDelivers \in Nat /\ MaxPosts \in Nat /\ IsFiniteSet(Callers)

VARIABLES
    self,               \* the Session
    callers,            \* "out", "tested" (between is_live() and the store), "done"
    peer,               \* "talking", "silent" (sends no more), "stuck" (nor receives)
    delivers            \* calls of deliver() so far

vars == <<self, callers, peer, delivers>>

Timers == {"read", "write", "ping", "pong"}
Reads == {"handshake", "header", "body"}
Handlers == Reads \cup Timers \cup {"written", "farewell", "relay", "deliver", "close"}

handler(op, ok) == [op |-> op, ok |-> ok]
post(s, op, ok) == [s EXCEPT !.strand_ = Append(@, handler(op, ok))]

-----------------------------------------------------------------------------
(* Member functions.                                                       *)

\* Slip: a session that is being closed is closed again.
close_again(s) == post([s EXCEPT !.live_ = FALSE], "close", TRUE)

close_session(s) ==
    IF ~s.live_ THEN s ELSE post([s EXCEPT !.live_ = FALSE], "close", TRUE)

\* Operations that are under way end with an error.  (lowest_layer().cancel and close)
abort_io(s) ==
    LET read == IF s.reading = "none" THEN s
                ELSE post([s EXCEPT !.reading = "none"], s.reading, FALSE)
        write == IF ~read.writing THEN read
                 ELSE post([read EXCEPT !.writing = FALSE], "written", FALSE)
    IN  IF ~write.farewell THEN write
        ELSE post([write EXCEPT !.farewell = FALSE], "farewell", FALSE)

\* An operation started on a closed socket fails at once.
start(s) == IF s.open THEN s ELSE abort_io(s)

do_read_header(s) == start([s EXCEPT !.reading = "header"])
do_read_body(s) == start([s EXCEPT !.reading = "body", !.timers = @ \cup {"read"}])
do_write(s) == start([s EXCEPT !.writing = TRUE, !.timers = @ \cup {"write"}])

\* The last message, written past the queue; the session is closed when it is sent.
say_farewell(s) == start([s EXCEPT !.farewell = TRUE])

\* Slip: the timer is not set.
no_ping(s) == s

start_ping(s) == [s EXCEPT !.timers = @ \cup {"ping"}]

force_close_session(s) ==
    [abort_io(s) EXCEPT !.timers = {}, !.open = FALSE, !.disconnects = @ + 1]

on_handshake(s, ok) == IF ok THEN start_ping(do_read_header(s)) ELSE close_session(s)

\* A header is valid or not.
on_header(s, ok) ==
    IF ok THEN {do_read_body(s), say_farewell(s)} ELSE {close_session(s)}

handle_message(s) ==
    {[s EXCEPT !.awaiting_pong_ = FALSE, !.timers = @ \ {"pong"}],
     post(s, "relay", TRUE)}

\* Slip: nothing is read after a ping response.
on_body_deaf(s, ok) ==
    LET t == [s EXCEPT !.timers = @ \ {"read"}]
    IN  IF ok THEN {[t EXCEPT !.awaiting_pong_ = FALSE, !.timers = @ \ {"pong"}],
                    do_read_header(post(t, "relay", TRUE))}
        ELSE {close_session(t)}

on_body(s, ok) ==
    LET t == [s EXCEPT !.timers = @ \ {"read"}]
    IN  IF ok THEN {do_read_header(x) : x \in handle_message(t)}
        ELSE {close_session(t)}

\* Slip: the queue is not looked at again.
on_written_stop(s, ok) ==
    LET t == [s EXCEPT !.timers = @ \ {"write"}]
    IN  IF ok THEN [t EXCEPT !.write_queue_ = @ - 1] ELSE close_session(t)

on_written(s, ok) ==
    LET t == [s EXCEPT !.timers = @ \ {"write"}]
        sent == [t EXCEPT !.write_queue_ = @ - 1]
    IN  IF ~ok THEN close_session(t)
        ELSE IF sent.write_queue_ > 0 THEN do_write(sent) ELSE sent

on_deliver(s) ==
    LET queued == [s EXCEPT !.write_queue_ = @ + 1]
    IN  IF queued.write_queue_ > MAX_MESSAGE_BACKLOG THEN abort_io(queued)
        ELSE IF s.write_queue_ = 0 THEN do_write(queued) ELSE queued

on_ping(s) ==
    start_ping([post(s, "deliver", TRUE) EXCEPT !.awaiting_pong_ = TRUE,
                                                !.timers = @ \cup {"pong"}])

on_pong(s) == IF s.awaiting_pong_ THEN say_farewell(s) ELSE s

\* Server::on_message: nothing, an answer, or an answer and the end.
on_relay(s) ==
    LET answered == post(s, "deliver", TRUE)
    IN  {s, answered, close_session(answered)}

\* The states that handler h leaves behind.
run(s, h) ==
    CASE h.op = "handshake" -> {on_handshake(s, h.ok)}
      [] h.op = "header" -> on_header(s, h.ok)
      [] h.op = "body" -> on_body(s, h.ok)
      [] h.op = "written" -> {on_written(s, h.ok)}
      [] h.op = "farewell" -> {close_session(s)}
      [] h.op = "relay" -> on_relay(s)
      [] h.op = "deliver" -> {on_deliver(s)}
      [] h.op = "close" -> {force_close_session(s)}
      [] h.op = "ping" -> {on_ping(s)}
      [] h.op = "pong" -> {on_pong(s)}
      [] h.op \in {"read", "write"} -> {abort_io(s)}

-----------------------------------------------------------------------------

\* After Session::start.
Init ==
    /\ self = [live_ |-> TRUE, open |-> TRUE, strand_ |-> <<>>,
               reading |-> "handshake", writing |-> FALSE, farewell |-> FALSE,
               timers |-> {}, awaiting_pong_ |-> FALSE, write_queue_ |-> 0,
               disconnects |-> 0]
    /\ callers = [c \in Callers |-> "out"]
    /\ peer = "talking"
    /\ delivers = 0

Run ==
    /\ self.strand_ # <<>>
    /\ self' \in run([self EXCEPT !.strand_ = Tail(@)], Head(self.strand_))
    /\ UNCHANGED <<callers, peer, delivers>>

MayPost == Len(self.strand_) <= MaxPosts

\* The peer has sent a header or a body, or ends the connection.
CompleteRead(ok) ==
    /\ MayPost /\ self.reading # "none" /\ peer = "talking"
    /\ self' = post([self EXCEPT !.reading = "none"], self.reading, ok)
    /\ UNCHANGED <<callers, peer, delivers>>

CompleteWrite ==
    /\ self.writing /\ peer # "stuck"
    /\ self' = post([self EXCEPT !.writing = FALSE], "written", TRUE)
    /\ UNCHANGED <<callers, peer, delivers>>

CompleteFarewell ==
    /\ self.farewell /\ peer # "stuck"
    /\ self' = post([self EXCEPT !.farewell = FALSE], "farewell", TRUE)
    /\ UNCHANGED <<callers, peer, delivers>>

InStrand(op) == \E i \in DOMAIN self.strand_ : self.strand_[i].op = op

\* A timer runs out; from here on a cancel comes too late.  The pong timer is set
\* together with the next ping and is much shorter.  (Bound: the timers that a
\* handler sets on a closed session are not followed further.)
Expire(t) ==
    /\ MayPost /\ t \in self.timers /\ self.open
    /\ t = "ping" => "pong" \notin self.timers /\ ~InStrand("pong")
    /\ self' = post([self EXCEPT !.timers = @ \ {t}], t, TRUE)
    /\ UNCHANGED <<callers, peer, delivers>>

\* The peer falls silent, or stops receiving as well, for good.
PeerFades ==
    /\ peer' \in (IF peer = "talking" THEN {"silent", "stuck"} ELSE {"stuck"})
    /\ peer # "stuck"
    /\ UNCHANGED <<self, callers, delivers>>

\* deliver() called by another object.
Deliver ==
    /\ MayPost /\ delivers < MaxDelivers
    /\ self.reading # "handshake"
    /\ delivers' = delivers + 1
    /\ self' = post(self, "deliver", TRUE)
    /\ UNCHANGED <<callers, peer>>

\* close_session() called by another thread: the test and the store of live_ are two
\* steps.
CloseTest(c) ==
    /\ callers[c] = "out"
    /\ callers' = [callers EXCEPT ![c] = IF self.live_ THEN "tested" ELSE "done"]
    /\ UNCHANGED <<self, peer, delivers>>

CloseStore(c) ==
    /\ callers[c] = "tested"
    /\ callers' = [callers EXCEPT ![c] = "done"]
    /\ self' = post([self EXCEPT !.live_ = FALSE], "close", TRUE)
    /\ UNCHANGED <<peer, delivers>>

Waiting == self.strand_ = <<>> /\ UNCHANGED vars

Next ==
    \/ Run
    \/ \E ok \in BOOLEAN : CompleteRead(ok)
    \/ CompleteWrite
    \/ CompleteFarewell
    \/ \E t \in Timers : Expire(t)
    \/ PeerFades
    \/ Deliver
    \/ \E c \in Callers : CloseTest(c) \/ CloseStore(c)
    \/ Waiting

Spec == Init /\ [][Next]_vars

(***************************************************************************)
(* The strand is served, timers run out, and a peer that receives gets     *)
(* what is sent.  Nothing is assumed of what the peer sends.               *)
(***************************************************************************)
FairSpec ==
    /\ Spec
    /\ WF_vars(Run) /\ WF_vars(CompleteWrite) /\ WF_vars(CompleteFarewell)
    /\ \A t \in Timers : WF_vars(Expire(t))

-----------------------------------------------------------------------------
(* Properties.                                                             *)

\* The members keep their types.  One caller that overtakes another is the most that
\* can make a session be removed twice.
TypeOK ==
    /\ self \in [live_ : BOOLEAN, open : BOOLEAN,
                 strand_ : Seq([op : Handlers, ok : BOOLEAN]),
                 reading : Reads \cup {"none"}, writing : BOOLEAN, farewell : BOOLEAN,
                 timers : SUBSET Timers, awaiting_pong_ : BOOLEAN, write_queue_ : Nat,
                 disconnects : 0 .. 1 + Cardinality(Callers)]
    /\ callers \in [Callers -> {"out", "tested", "done"}]
    /\ peer \in {"talking", "silent", "stuck"}
    /\ delivers \in 0 .. MaxDelivers

Pending(ops) == {i \in DOMAIN self.strand_ : self.strand_[i].op \in ops}

\* The read loop: there is never more than one read, and a live session that does
\* not read, and has no read to handle, is saying farewell.
ReadLoop ==
    LET n == Cardinality(Pending(Reads)) + (IF self.reading = "none" THEN 0 ELSE 1)
    IN  /\ n <= 1
        /\ self.live_ /\ n = 0 => self.farewell \/ Pending({"farewell"}) # {}

\* The write loop: messages never wait in the queue of a live session without a
\* write that will bring up the next one, and there is never more than one.
WriteLoop ==
    LET n == Cardinality(Pending({"written"})) + (IF self.writing THEN 1 ELSE 0)
    IN  /\ n <= 1
        /\ self.live_ /\ self.write_queue_ > 0 => n = 1

\* session.h: the ping timers "ensure sessions are still active and remove them": when
\* the peer is lost, after the handshake, the session is removed from the server,
\* whichever operation it hangs in.
LostPeerIsRemoved ==
    (peer # "talking" /\ self.reading # "handshake") ~> (self.disconnects > 0)

=============================================================================
