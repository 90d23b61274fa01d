---------------------------- MODULE SessionProofs ----------------------------
(***************************************************************************)
(* A session never loses its read loop nor its write loop, whatever its    *)
(* backlog, however many threads close it and however many messages are    *)
(* delivered; and it is removed at most once more than there are such      *)
(* threads.                                                                *)
(*                                                                         *)
(* The argument counts.  An operation of the socket is under way or its    *)
(* completion waits on strand_: the sum changes only where a member        *)
(* function starts one, and where its handler runs.                        *)
(***************************************************************************)
EXTENDS Session, FiniteSetTheorems, SequenceTheorems, TLAPS

Handler == [op : Handlers, ok : BOOLEAN]
Object == [live_ : BOOLEAN, open : BOOLEAN, strand_ : Seq(Handler),
           reading : Reads \cup {"none"}, writing : BOOLEAN, farewell : BOOLEAN,
           timers : SUBSET Timers, awaiting_pong_ : BOOLEAN, write_queue_ : Nat,
           disconnects : Nat]

-----------------------------------------------------------------------------
(* Handlers on the strand.                                                 *)

At(q, ops) == {i \in 1 .. Len(q) : q[i].op \in ops}
Number(q, ops) == Cardinality(At(q, ops))

LEMMA AtIsFinite ==
    ASSUME NEW q \in Seq(Handler), NEW ops
    PROVE  IsFiniteSet(At(q, ops)) /\ Number(q, ops) \in Nat
  <1>1. Len(q) \in Nat
    OBVIOUS
  <1>2. IsFiniteSet(1 .. Len(q))
    BY <1>1, FS_Interval
  <1>3. At(q, ops) \subseteq 1 .. Len(q)
    BY DEF At
  <1>4. IsFiniteSet(At(q, ops))
    BY <1>2, <1>3, FS_Subset
  <1> QED BY <1>4, FS_CardinalityType DEF Number

LEMMA NumberPosted ==
    ASSUME NEW q \in Seq(Handler), NEW h \in Handler, NEW ops
    PROVE  Number(Append(q, h), ops) = Number(q, ops) + (IF h.op \in ops THEN 1 ELSE 0)
  <1> DEFINE r == Append(q, h)
             n == Len(q) + 1
             A == At(q, ops)
             B == At(r, ops)
  <1>1. /\ Len(q) \in Nat /\ Len(r) = n /\ r[n] = h
        /\ \A i \in 1 .. Len(q) : r[i] = q[i]
    BY AppendProperties
  <1>2. IsFiniteSet(A) /\ Cardinality(A) \in Nat
    BY AtIsFinite DEF Number
  <1> HIDE DEF r
  <1>3. n \notin A
    BY <1>1 DEF At
  <1>4. CASE h.op \in ops
    <2>1. B = A \cup {n}
      BY <1>1, <1>4 DEF At
    <2> HIDE DEF A, B, n
    <2>2. Cardinality(B) = Cardinality(A) + 1
      BY <1>2, <1>3, <2>1, FS_AddElement
    <2> QED BY <1>4, <2>2 DEF Number, A, B, r
  <1>5. CASE h.op \notin ops
    <2>1. B = A
      BY <1>1, <1>5 DEF At
    <2> HIDE DEF A, B
    <2>2. Cardinality(B) = Cardinality(A) + 0
      BY <1>2, <2>1
    <2> QED BY <1>5, <2>2 DEF Number, A, B, r
  <1> QED BY <1>4, <1>5

LEMMA NumberRun ==
    ASSUME NEW q \in Seq(Handler), q # <<>>, NEW ops
    PROVE  Number(q, ops) = Number(Tail(q), ops) + (IF Head(q).op \in ops THEN 1 ELSE 0)
  <1> DEFINE r == Tail(q)
             A == At(q, ops)
             B == At(r, ops)
             f == [i \in B |-> i + 1]
  <1>1. /\ Len(q) \in Nat \ {0} /\ r \in Seq(Handler) /\ Len(r) = Len(q) - 1
        /\ \A i \in 1 .. Len(r) : r[i] = q[i + 1]
        /\ Head(q) = q[1]
    BY EmptySeq, HeadTailProperties
  <1>2. IsFiniteSet(A) /\ IsFiniteSet(B) /\ Cardinality(A) \in Nat /\ Cardinality(B) \in Nat
    BY <1>1, AtIsFinite DEF Number
  <1> HIDE DEF r
  <1>3. \A i \in B : i \in Nat /\ i + 1 \in A \ {1}
    BY <1>1 DEF At
  <1>4. \A j \in A \ {1} : j - 1 \in B /\ (j - 1) + 1 = j
    <2> SUFFICES ASSUME NEW j \in A \ {1} PROVE j - 1 \in B /\ (j - 1) + 1 = j
      OBVIOUS
    <2>1. j \in 2 .. Len(q) /\ q[j].op \in ops
      BY <1>1 DEF At
    <2>2. j - 1 \in 1 .. Len(r) /\ (j - 1) + 1 = j
      BY <1>1, <2>1
    <2>3. r[j - 1] = q[j]
      BY <1>1, <2>2
    <2> QED BY <2>1, <2>2, <2>3 DEF At
  <1>5. f \in Surjection(B, A \ {1}) /\ f \in Injection(B, A \ {1})
    <2> HIDE DEF A, B
    <2> QED BY <1>3, <1>4 DEF Surjection, Injection, IsInjective
  <1>6. 1 \in A <=> Head(q).op \in ops
    BY <1>1 DEF At
  <1> HIDE DEF A, B, f
  <1>7. Cardinality(A \ {1}) = Cardinality(B)
    BY <1>2, <1>5, FS_Surjection
  <1>8. Cardinality(A \ {1}) = IF 1 \in A THEN Cardinality(A) - 1 ELSE Cardinality(A)
    BY <1>2, FS_RemoveElement
  <1>9. Cardinality(A) = Cardinality(B) + (IF Head(q).op \in ops THEN 1 ELSE 0)
    BY <1>2, <1>6, <1>7, <1>8
  <1> QED BY <1>9 DEF Number, A, B, r

-----------------------------------------------------------------------------
(* What a session has under way.                                           *)

Reading(s) == Number(s.strand_, Reads) + (IF s.reading = "none" THEN 0 ELSE 1)
Writing(s) == Number(s.strand_, {"written"}) + (IF s.writing THEN 1 ELSE 0)
Leaving(s) == Number(s.strand_, {"farewell"}) + (IF s.farewell THEN 1 ELSE 0)

\* Removals from the server, made, waiting, and the one a live session may still
\* bring about by itself.
Removals(s) ==
    Number(s.strand_, {"close"}) + s.disconnects + (IF s.live_ THEN 1 ELSE 0)

\* A step from s to t that starts and ends nothing.
Same(s, t) ==
    /\ t \in Object
    /\ Reading(t) = Reading(s) /\ Writing(t) = Writing(s)
    /\ Leaving(t) = Leaving(s) /\ Removals(t) = Removals(s)
    /\ t.live_ = s.live_ /\ t.write_queue_ = s.write_queue_

LEMMA Counts ==
    ASSUME NEW s \in Object
    PROVE  /\ Reading(s) \in Nat /\ Writing(s) \in Nat
           /\ Leaving(s) \in Nat /\ Removals(s) \in Nat
           /\ \A ops : Number(s.strand_, ops) \in Nat
  <1>1. s.strand_ \in Seq(Handler) /\ s.disconnects \in Nat
    BY DEF Object
  <1>2. \A ops : Number(s.strand_, ops) \in Nat
    BY <1>1, AtIsFinite
  <1> QED BY <1>1, <1>2 DEF Reading, Writing, Leaving, Removals

\* t is s with a completion of op on the strand.
Posted(s, t, op) ==
    /\ t \in Object
    /\ t.live_ = s.live_ /\ t.open = s.open /\ t.reading = s.reading
    /\ t.writing = s.writing /\ t.farewell = s.farewell /\ t.timers = s.timers
    /\ t.write_queue_ = s.write_queue_ /\ t.disconnects = s.disconnects
    /\ \A ops : Number(t.strand_, ops)
                  = Number(s.strand_, ops) + (IF op \in ops THEN 1 ELSE 0)

LEMMA Posts ==
    ASSUME NEW s \in Object, NEW op \in Handlers, NEW ok \in BOOLEAN
    PROVE  Posted(s, post(s, op, ok), op)
  <1> DEFINE h == handler(op, ok)
             q == Append(s.strand_, h)
  <1>1. h \in Handler /\ h.op = op
    BY DEF handler, Handler
  <1>2. s.strand_ \in Seq(Handler)
    BY DEF Object
  <1> HIDE DEF h
  <1>3. q \in Seq(Handler)
    BY <1>1, <1>2, AppendProperties
  <1>4. \A ops : Number(q, ops) = Number(s.strand_, ops) + (IF op \in ops THEN 1 ELSE 0)
    BY <1>1, <1>2, NumberPosted
  <1>5. post(s, op, ok) = [s EXCEPT !.strand_ = q]
    BY DEF post, h
  <1> HIDE DEF q
  <1> QED BY <1>3, <1>4, <1>5 DEF Object, Posted

\* A member other than the strand and those counted is set.
LEMMA Sets ==
    ASSUME NEW s \in Object, NEW t \in Object, t.strand_ = s.strand_
    PROVE  /\ t.reading = s.reading => Reading(t) = Reading(s)
           /\ t.writing = s.writing => Writing(t) = Writing(s)
           /\ t.farewell = s.farewell => Leaving(t) = Leaving(s)
           /\ t.disconnects = s.disconnects /\ t.live_ = s.live_ => Removals(t) = Removals(s)
  BY DEF Reading, Writing, Leaving, Removals

-----------------------------------------------------------------------------
(* Member functions.                                                       *)

\* An operation that was under way ends: its completion waits instead.
LEMMA ReadEnds ==
    ASSUME NEW s \in Object, s.reading # "none", NEW ok \in BOOLEAN
    PROVE  LET t == post([s EXCEPT !.reading = "none"], s.reading, ok)
           IN  Same(s, t) /\ t.open = s.open
  <1> DEFINE e == [s EXCEPT !.reading = "none"]
             t == post(e, s.reading, ok)
  <1>1. s.reading \in Reads /\ s.reading \in Handlers /\ s.reading # "written"
          /\ s.reading # "farewell" /\ s.reading # "close"
    BY DEF Object, Handlers, Reads
  <1>2. /\ e \in Object /\ e.strand_ = s.strand_ /\ e.reading = "none"
        /\ e.writing = s.writing /\ e.farewell = s.farewell /\ e.live_ = s.live_
        /\ e.disconnects = s.disconnects /\ e.write_queue_ = s.write_queue_
        /\ e.open = s.open
    BY DEF Object
  <1> HIDE DEF e
  <1>3. Posted(e, t, s.reading)
    BY <1>1, <1>2, Posts
  <1> HIDE DEF t
  <1>4. /\ t \in Object /\ t.reading = "none" /\ t.writing = s.writing
        /\ t.farewell = s.farewell /\ t.live_ = s.live_ /\ t.open = s.open
        /\ t.disconnects = s.disconnects /\ t.write_queue_ = s.write_queue_
        /\ \A ops : Number(t.strand_, ops)
                = Number(s.strand_, ops) + (IF s.reading \in ops THEN 1 ELSE 0)
    BY <1>2, <1>3 DEF Posted
  <1>5. /\ Number(t.strand_, Reads) = Number(s.strand_, Reads) + 1
        /\ Number(t.strand_, {"written"}) = Number(s.strand_, {"written"}) + 0
        /\ Number(t.strand_, {"farewell"}) = Number(s.strand_, {"farewell"}) + 0
        /\ Number(t.strand_, {"close"}) = Number(s.strand_, {"close"}) + 0
    BY <1>1, <1>4 DEF Reads
  <1>6. \A ops : Number(s.strand_, ops) \in Nat
    BY Counts
  <1>7. Same(s, t)
    BY <1>4, <1>5, <1>6 DEF Same, Reading, Writing, Leaving, Removals
  <1> QED BY <1>4, <1>7 DEF t, e

LEMMA WriteEnds ==
    ASSUME NEW s \in Object, s.writing, NEW ok \in BOOLEAN
    PROVE  LET t == post([s EXCEPT !.writing = FALSE], "written", ok)
           IN  Same(s, t) /\ t.open = s.open
  <1> DEFINE e == [s EXCEPT !.writing = FALSE]
             t == post(e, "written", ok)
  <1>1. "written" \in Handlers
    BY DEF Handlers
  <1>2. /\ e \in Object /\ e.strand_ = s.strand_ /\ e.writing = FALSE
        /\ e.reading = s.reading /\ e.farewell = s.farewell /\ e.live_ = s.live_
        /\ e.disconnects = s.disconnects /\ e.write_queue_ = s.write_queue_
        /\ e.open = s.open
    BY DEF Object
  <1> HIDE DEF e
  <1>3. Posted(e, t, "written")
    BY <1>1, <1>2, Posts
  <1> HIDE DEF t
  <1>4. /\ t \in Object /\ t.writing = FALSE /\ t.reading = s.reading
        /\ t.farewell = s.farewell /\ t.live_ = s.live_ /\ t.open = s.open
        /\ t.disconnects = s.disconnects /\ t.write_queue_ = s.write_queue_
        /\ \A ops : Number(t.strand_, ops)
                = Number(s.strand_, ops) + (IF "written" \in ops THEN 1 ELSE 0)
    BY <1>2, <1>3 DEF Posted
  <1>5. /\ Number(t.strand_, Reads) = Number(s.strand_, Reads) + 0
        /\ Number(t.strand_, {"written"}) = Number(s.strand_, {"written"}) + 1
        /\ Number(t.strand_, {"farewell"}) = Number(s.strand_, {"farewell"}) + 0
        /\ Number(t.strand_, {"close"}) = Number(s.strand_, {"close"}) + 0
    BY <1>1, <1>4 DEF Reads
  <1>6. \A ops : Number(s.strand_, ops) \in Nat
    BY Counts
  <1>7. Same(s, t)
    BY <1>4, <1>5, <1>6 DEF Same, Reading, Writing, Leaving, Removals
  <1> QED BY <1>4, <1>7 DEF t, e

LEMMA FarewellEnds ==
    ASSUME NEW s \in Object, s.farewell, NEW ok \in BOOLEAN
    PROVE  LET t == post([s EXCEPT !.farewell = FALSE], "farewell", ok)
           IN  Same(s, t) /\ t.open = s.open
  <1> DEFINE e == [s EXCEPT !.farewell = FALSE]
             t == post(e, "farewell", ok)
  <1>1. "farewell" \in Handlers
    BY DEF Handlers
  <1>2. /\ e \in Object /\ e.strand_ = s.strand_ /\ e.farewell = FALSE
        /\ e.reading = s.reading /\ e.writing = s.writing /\ e.live_ = s.live_
        /\ e.disconnects = s.disconnects /\ e.write_queue_ = s.write_queue_
        /\ e.open = s.open
    BY DEF Object
  <1> HIDE DEF e
  <1>3. Posted(e, t, "farewell")
    BY <1>1, <1>2, Posts
  <1> HIDE DEF t
  <1>4. /\ t \in Object /\ t.farewell = FALSE /\ t.reading = s.reading
        /\ t.writing = s.writing /\ t.live_ = s.live_ /\ t.open = s.open
        /\ t.disconnects = s.disconnects /\ t.write_queue_ = s.write_queue_
        /\ \A ops : Number(t.strand_, ops)
                = Number(s.strand_, ops) + (IF "farewell" \in ops THEN 1 ELSE 0)
    BY <1>2, <1>3 DEF Posted
  <1>5. /\ Number(t.strand_, Reads) = Number(s.strand_, Reads) + 0
        /\ Number(t.strand_, {"written"}) = Number(s.strand_, {"written"}) + 0
        /\ Number(t.strand_, {"farewell"}) = Number(s.strand_, {"farewell"}) + 1
        /\ Number(t.strand_, {"close"}) = Number(s.strand_, {"close"}) + 0
    BY <1>1, <1>4 DEF Reads
  <1>6. \A ops : Number(s.strand_, ops) \in Nat
    BY Counts
  <1>7. Same(s, t)
    BY <1>4, <1>5, <1>6 DEF Same, Reading, Writing, Leaving, Removals
  <1> QED BY <1>4, <1>7 DEF t, e

LEMMA Aborts ==
    ASSUME NEW s \in Object
    PROVE  Same(s, abort_io(s)) /\ abort_io(s).open = s.open
  <1> DEFINE r == IF s.reading = "none" THEN s
                  ELSE post([s EXCEPT !.reading = "none"], s.reading, FALSE)
             w == IF ~r.writing THEN r ELSE post([r EXCEPT !.writing = FALSE], "written", FALSE)
             f == IF ~w.farewell THEN w
                  ELSE post([w EXCEPT !.farewell = FALSE], "farewell", FALSE)
  <1>1. abort_io(s) = f
    BY DEF abort_io
  <1>2. Same(s, r) /\ r.open = s.open
    <2>1. Same(s, s)
      BY DEF Same
    <2> QED BY <2>1, ReadEnds
  <1> HIDE DEF r
  <1>3. r \in Object
    BY <1>2 DEF Same
  <1>4. Same(r, w) /\ w.open = r.open
    <2>1. Same(r, r)
      BY <1>3 DEF Same
    <2> QED BY <1>3, <2>1, WriteEnds
  <1> HIDE DEF w
  <1>5. w \in Object
    BY <1>4 DEF Same
  <1>6. Same(w, f) /\ f.open = w.open
    <2>1. Same(w, w)
      BY <1>5 DEF Same
    <2> QED BY <1>5, <2>1, FarewellEnds
  <1> HIDE DEF f
  <1> QED BY <1>1, <1>2, <1>4, <1>6 DEF Same

LEMMA Starts ==
    ASSUME NEW s \in Object
    PROVE  Same(s, start(s))
  <1>1. CASE s.open
    BY <1>1 DEF start, Same
  <1>2. CASE ~s.open
    BY <1>2, Aborts DEF start
  <1> QED BY <1>1, <1>2

\* One more read, one more write, at least one last message, or none of them and the
\* end of is_live().
OneRead(s, t) ==
    /\ t \in Object /\ t.live_ = s.live_ /\ t.write_queue_ = s.write_queue_
    /\ Reading(t) = Reading(s) + 1
    /\ Writing(t) = Writing(s) /\ Leaving(t) = Leaving(s) /\ Removals(t) = Removals(s)

OneWrite(s, t) ==
    /\ t \in Object /\ t.live_ = s.live_ /\ t.write_queue_ = s.write_queue_
    /\ Writing(t) = Writing(s) + 1
    /\ Reading(t) = Reading(s) /\ Leaving(t) = Leaving(s) /\ Removals(t) = Removals(s)

LastMessage(s, t) ==
    /\ t \in Object /\ t.live_ = s.live_ /\ t.write_queue_ = s.write_queue_
    /\ Leaving(t) > 0
    /\ Reading(t) = Reading(s) /\ Writing(t) = Writing(s) /\ Removals(t) = Removals(s)

Closed(s, t) ==
    /\ t \in Object /\ t.live_ = FALSE /\ t.write_queue_ = s.write_queue_
    /\ Reading(t) = Reading(s) /\ Writing(t) = Writing(s)
    /\ Leaving(t) = Leaving(s) /\ Removals(t) = Removals(s)

LEMMA ReadsOn ==
    ASSUME NEW s \in Object, s.reading = "none"
    PROVE  OneRead(s, do_read_header(s)) /\ OneRead(s, do_read_body(s))
  <1> DEFINE h == [s EXCEPT !.reading = "header"]
             b == [s EXCEPT !.reading = "body", !.timers = s.timers \cup {"read"}]
  <1>1. /\ h \in Object /\ h.strand_ = s.strand_ /\ h.reading = "header"
        /\ h.writing = s.writing /\ h.farewell = s.farewell /\ h.live_ = s.live_
        /\ h.disconnects = s.disconnects /\ h.write_queue_ = s.write_queue_
    BY DEF Object, Reads
  <1>2. s.timers \cup {"read"} \in SUBSET Timers
    BY DEF Object, Timers
  <1>3. /\ b \in Object /\ b.strand_ = s.strand_ /\ b.reading = "body"
        /\ b.writing = s.writing /\ b.farewell = s.farewell /\ b.live_ = s.live_
        /\ b.disconnects = s.disconnects /\ b.write_queue_ = s.write_queue_
    BY <1>2 DEF Object, Reads
  <1>4. do_read_header(s) = start(h) /\ do_read_body(s) = start(b)
    BY DEF do_read_header, do_read_body
  <1> HIDE DEF h, b
  <1>5. Number(s.strand_, Reads) \in Nat
    BY Counts
  <1>6. Reading(h) = Reading(s) + 1 /\ Reading(b) = Reading(s) + 1
    BY <1>1, <1>3, <1>5 DEF Reading
  <1>7. OneRead(s, h) /\ OneRead(s, b)
    BY <1>1, <1>3, <1>6, Sets DEF OneRead
  <1>8. Same(h, start(h)) /\ Same(b, start(b))
    BY <1>1, <1>3, Starts
  <1> QED BY <1>4, <1>7, <1>8 DEF OneRead, Same

LEMMA WritesOn ==
    ASSUME NEW s \in Object, s.writing = FALSE
    PROVE  OneWrite(s, do_write(s))
  <1> DEFINE w == [s EXCEPT !.writing = TRUE, !.timers = s.timers \cup {"write"}]
  <1>1. s.timers \cup {"write"} \in SUBSET Timers
    BY DEF Object, Timers
  <1>2. /\ w \in Object /\ w.strand_ = s.strand_ /\ w.reading = s.reading
        /\ w.writing = TRUE /\ w.farewell = s.farewell /\ w.live_ = s.live_
        /\ w.disconnects = s.disconnects /\ w.write_queue_ = s.write_queue_
    BY <1>1 DEF Object
  <1>3. do_write(s) = start(w)
    BY DEF do_write
  <1> HIDE DEF w
  <1>4. Number(s.strand_, {"written"}) \in Nat
    BY Counts
  <1>5. Writing(w) = Writing(s) + 1
    BY <1>2, <1>4 DEF Writing
  <1>6. OneWrite(s, w)
    BY <1>2, <1>5, Sets DEF OneWrite
  <1>7. Same(w, start(w))
    BY <1>2, Starts
  <1> QED BY <1>3, <1>6, <1>7 DEF OneWrite, Same

LEMMA SaysFarewell ==
    ASSUME NEW s \in Object
    PROVE  LastMessage(s, say_farewell(s))
  <1> DEFINE f == [s EXCEPT !.farewell = TRUE]
  <1>1. /\ f \in Object /\ f.strand_ = s.strand_ /\ f.reading = s.reading
        /\ f.writing = s.writing /\ f.farewell = TRUE /\ f.live_ = s.live_
        /\ f.disconnects = s.disconnects /\ f.write_queue_ = s.write_queue_
    BY DEF Object
  <1>2. say_farewell(s) = start(f)
    BY DEF say_farewell
  <1> HIDE DEF f
  <1>3. Number(f.strand_, {"farewell"}) \in Nat
    BY <1>1, Counts
  <1>4. Leaving(f) > 0
    BY <1>1, <1>3 DEF Leaving
  <1>5. LastMessage(s, f)
    BY <1>1, <1>4, Sets DEF LastMessage
  <1>6. Same(f, start(f))
    BY <1>1, Starts
  <1> QED BY <1>2, <1>5, <1>6 DEF LastMessage, Same

\* A handler of no operation of the socket is posted.
LEMMA PostsOther ==
    ASSUME NEW s \in Object, NEW op \in Handlers, NEW ok \in BOOLEAN,
           op \notin Reads, op # "written", op # "farewell", op # "close"
    PROVE  Same(s, post(s, op, ok))
  <1> DEFINE t == post(s, op, ok)
  <1>1. Posted(s, t, op)
    BY Posts
  <1> HIDE DEF t
  <1>2. /\ Number(t.strand_, Reads) = Number(s.strand_, Reads) + 0
        /\ Number(t.strand_, {"written"}) = Number(s.strand_, {"written"}) + 0
        /\ Number(t.strand_, {"farewell"}) = Number(s.strand_, {"farewell"}) + 0
        /\ Number(t.strand_, {"close"}) = Number(s.strand_, {"close"}) + 0
    BY <1>1 DEF Posted
  <1>3. \A ops : Number(s.strand_, ops) \in Nat
    BY Counts
  <1>4. Same(s, t)
    BY <1>1, <1>2, <1>3 DEF Posted, Same, Reading, Writing, Leaving, Removals
  <1> QED BY <1>4 DEF t

LEMMA PostsClose ==
    ASSUME NEW s \in Object
    PROVE  LET t == post([s EXCEPT !.live_ = FALSE], "close", TRUE)
           IN  /\ t \in Object /\ t.live_ = FALSE /\ t.write_queue_ = s.write_queue_
               /\ Reading(t) = Reading(s) /\ Writing(t) = Writing(s)
               /\ Leaving(t) = Leaving(s)
               /\ Removals(t) = Removals(s) + (IF s.live_ THEN 0 ELSE 1)
  <1> DEFINE d == [s EXCEPT !.live_ = FALSE]
             t == post(d, "close", TRUE)
  <1>1. /\ d \in Object /\ d.strand_ = s.strand_ /\ d.reading = s.reading
        /\ d.writing = s.writing /\ d.farewell = s.farewell /\ d.live_ = FALSE
        /\ d.disconnects = s.disconnects /\ d.write_queue_ = s.write_queue_
    BY DEF Object
  <1> HIDE DEF d
  <1>2. "close" \in Handlers
    BY DEF Handlers
  <1>3. Posted(d, t, "close")
    BY <1>1, <1>2, Posts
  <1> HIDE DEF t
  <1>4. /\ Number(t.strand_, Reads) = Number(s.strand_, Reads) + 0
        /\ Number(t.strand_, {"written"}) = Number(s.strand_, {"written"}) + 0
        /\ Number(t.strand_, {"farewell"}) = Number(s.strand_, {"farewell"}) + 0
        /\ Number(t.strand_, {"close"}) = Number(s.strand_, {"close"}) + 1
    BY <1>1, <1>3 DEF Posted, Reads
  <1>5. /\ \A ops : Number(s.strand_, ops) \in Nat
        /\ s.disconnects \in Nat /\ s.live_ \in BOOLEAN
    BY Counts DEF Object
  <1>6. /\ t \in Object /\ t.live_ = FALSE /\ t.reading = s.reading /\ t.writing = s.writing
        /\ t.farewell = s.farewell /\ t.write_queue_ = s.write_queue_
        /\ t.disconnects = s.disconnects
    BY <1>1, <1>3 DEF Posted
  <1>7. Reading(t) = Reading(s) /\ Writing(t) = Writing(s) /\ Leaving(t) = Leaving(s)
    BY <1>4, <1>5, <1>6 DEF Reading, Writing, Leaving
  <1>8. Removals(t) = Removals(s) + (IF s.live_ THEN 0 ELSE 1)
    BY <1>4, <1>5, <1>6 DEF Removals
  <1> QED BY <1>6, <1>7, <1>8 DEF t, d

LEMMA Closing ==
    ASSUME NEW s \in Object
    PROVE  Closed(s, close_session(s))
  <1>1. CASE s.live_
    <2>1. close_session(s) = post([s EXCEPT !.live_ = FALSE], "close", TRUE)
      BY <1>1 DEF close_session
    <2>2. Removals(s) \in Nat
      BY Counts
    <2> DEFINE t == post([s EXCEPT !.live_ = FALSE], "close", TRUE)
    <2>3. /\ t \in Object /\ t.live_ = FALSE /\ t.write_queue_ = s.write_queue_
          /\ Reading(t) = Reading(s) /\ Writing(t) = Writing(s)
          /\ Leaving(t) = Leaving(s)
          /\ Removals(t) = Removals(s) + (IF s.live_ THEN 0 ELSE 1)
      BY PostsClose
    <2> HIDE DEF t
    <2>4. Removals(t) = Removals(s) + 0
      BY <1>1, <2>3
    <2>5. Closed(s, t)
      BY <2>2, <2>3, <2>4 DEF Closed
    <2> QED BY <2>1, <2>5 DEF t
  <1>2. CASE ~s.live_
    <2>1. s.live_ = FALSE
      BY <1>2 DEF Object
    <2> QED BY <1>2, <2>1 DEF Closed, close_session
  <1> QED BY <1>1, <1>2

\* force_close_session removes the session from the server once.
LEMMA ForceCloses ==
    ASSUME NEW s \in Object
    PROVE  LET t == force_close_session(s)
           IN  /\ t \in Object /\ t.live_ = s.live_ /\ t.write_queue_ = s.write_queue_
               /\ Reading(t) = Reading(s) /\ Writing(t) = Writing(s)
               /\ Leaving(t) = Leaving(s) /\ Removals(t) = Removals(s) + 1
  <1> DEFINE a == abort_io(s)
             t == [a EXCEPT !.timers = {}, !.open = FALSE, !.disconnects = a.disconnects + 1]
  <1>1. force_close_session(s) = t
    BY DEF force_close_session
  <1>2. Same(s, a)
    BY Aborts
  <1> HIDE DEF a
  <1>3. a \in Object
    BY <1>2 DEF Same
  <1>4. /\ t \in Object /\ t.strand_ = a.strand_ /\ t.reading = a.reading
        /\ t.writing = a.writing /\ t.farewell = a.farewell /\ t.live_ = a.live_
        /\ t.disconnects = a.disconnects + 1 /\ t.write_queue_ = a.write_queue_
    <2> DEFINE n == a.disconnects + 1
    <2>1. n \in Nat /\ {} \in SUBSET Timers /\ FALSE \in BOOLEAN
      BY <1>3 DEF Object
    <2>2. t = [a EXCEPT !.timers = {}, !.open = FALSE, !.disconnects = n]
      OBVIOUS
    <2> HIDE DEF n, t
    <2>3. /\ t \in Object /\ t.strand_ = a.strand_ /\ t.reading = a.reading
          /\ t.writing = a.writing /\ t.farewell = a.farewell /\ t.live_ = a.live_
          /\ t.disconnects = n /\ t.write_queue_ = a.write_queue_
      BY <1>3, <2>1, <2>2 DEF Object
    <2> QED BY <2>3 DEF n
  <1> HIDE DEF t
  <1>5. Number(a.strand_, {"close"}) \in Nat /\ a.disconnects \in Nat /\ a.live_ \in BOOLEAN
    BY <1>3, Counts DEF Object
  <1>6. Removals(t) = Removals(a) + 1
    BY <1>4, <1>5 DEF Removals
  <1>7. Reading(t) = Reading(a) /\ Writing(t) = Writing(a) /\ Leaving(t) = Leaving(a)
    BY <1>3, <1>4, Sets
  <1> QED BY <1>1, <1>2, <1>4, <1>6, <1>7 DEF Same

-----------------------------------------------------------------------------
(* The inductive invariant.                                                *)

\* There is at most one read, and at most one write; a live session reads or says its
\* last message, and writes exactly when something is queued.
Good(s) ==
    /\ s \in Object
    /\ Reading(s) <= 1
    /\ s.live_ => Reading(s) > 0 \/ Leaving(s) > 0
    /\ Writing(s) <= 1
    /\ Writing(s) = 1 => s.write_queue_ > 0
    /\ s.live_ /\ s.write_queue_ > 0 => Writing(s) = 1

\* Handlers that start and end nothing that is counted leave a good session.
LEMMA StaysGood ==
    ASSUME NEW s, NEW t, Good(s), Same(s, t) \/ LastMessage(s, t) \/ Closed(s, t)
    PROVE  Good(t) /\ Removals(t) = Removals(s)
  <1>1. Reading(s) \in Nat /\ Writing(s) \in Nat /\ Leaving(s) \in Nat
    BY Counts DEF Good
  <1> QED BY <1>1 DEF Good, Same, LastMessage, Closed

\* A handler is taken off the strand.
LEMMA Takes ==
    ASSUME NEW a \in Object, a.strand_ # <<>>
    PROVE  LET s == [a EXCEPT !.strand_ = Tail(a.strand_)]
               h == Head(a.strand_)
           IN  /\ s \in Object /\ h \in Handler
               /\ s.live_ = a.live_ /\ s.write_queue_ = a.write_queue_
               /\ Reading(a) = Reading(s) + (IF h.op \in Reads THEN 1 ELSE 0)
               /\ Writing(a) = Writing(s) + (IF h.op = "written" THEN 1 ELSE 0)
               /\ Leaving(a) = Leaving(s) + (IF h.op = "farewell" THEN 1 ELSE 0)
               /\ Removals(a) = Removals(s) + (IF h.op = "close" THEN 1 ELSE 0)
  <1> DEFINE q == a.strand_
             r == Tail(q)
             s == [a EXCEPT !.strand_ = r]
             h == Head(q)
  <1>1. q \in Seq(Handler) /\ r \in Seq(Handler) /\ h \in Handler
    BY HeadTailProperties DEF Object
  <1>2. \A ops : Number(q, ops) = Number(r, ops) + (IF h.op \in ops THEN 1 ELSE 0)
    BY <1>1, NumberRun
  <1>3. \A ops : Number(r, ops) \in Nat
    BY <1>1, AtIsFinite
  <1> HIDE DEF r, h
  <1>4. /\ s \in Object /\ s.strand_ = r /\ s.reading = a.reading
        /\ s.writing = a.writing /\ s.farewell = a.farewell /\ s.live_ = a.live_
        /\ s.disconnects = a.disconnects /\ s.write_queue_ = a.write_queue_
    BY <1>1 DEF Object
  <1> HIDE DEF s
  <1>5. a.disconnects \in Nat
    BY DEF Object
  <1>6. Reading(a) = Reading(s) + (IF h.op \in Reads THEN 1 ELSE 0)
    BY <1>2, <1>3, <1>4 DEF Reading
  <1>7. Writing(a) = Writing(s) + (IF h.op = "written" THEN 1 ELSE 0)
    <2>1. Number(q, {"written"}) = Number(r, {"written"}) + (IF h.op = "written" THEN 1 ELSE 0)
      BY <1>2
    <2> QED BY <1>3, <1>4, <2>1 DEF Writing
  <1>8. Leaving(a) = Leaving(s) + (IF h.op = "farewell" THEN 1 ELSE 0)
    <2>1. Number(q, {"farewell"}) = Number(r, {"farewell"}) + (IF h.op = "farewell" THEN 1 ELSE 0)
      BY <1>2
    <2> QED BY <1>3, <1>4, <2>1 DEF Leaving
  <1>9. Removals(a) = Removals(s) + (IF h.op = "close" THEN 1 ELSE 0)
    <2>1. Number(q, {"close"}) = Number(r, {"close"}) + (IF h.op = "close" THEN 1 ELSE 0)
      BY <1>2
    <2> QED BY <1>3, <1>4, <1>5, <2>1 DEF Removals
  <1> QED BY <1>1, <1>4, <1>6, <1>7, <1>8, <1>9 DEF s, r, h

\* A read has been handled and no other is under way: the next one may start.
LEMMA NoReadLeft ==
    ASSUME NEW s \in Object, Reading(s) = 0
    PROVE  s.reading = "none"
  <1>1. Number(s.strand_, Reads) \in Nat
    BY Counts
  <1> QED BY <1>1 DEF Reading

LEMMA NoWriteLeft ==
    ASSUME NEW s \in Object, Writing(s) = 0
    PROVE  s.writing = FALSE
  <1>1. Number(s.strand_, {"written"}) \in Nat
    BY Counts
  <1>2. ~s.writing
    BY <1>1 DEF Writing
  <1> QED BY <1>2 DEF Object

LEMMA SetsTimers ==
    ASSUME NEW s \in Object, NEW T \in SUBSET Timers
    PROVE  Same(s, [s EXCEPT !.timers = T])
  <1> DEFINE t == [s EXCEPT !.timers = T]
  <1>1. /\ t \in Object /\ t.strand_ = s.strand_ /\ t.reading = s.reading
        /\ t.writing = s.writing /\ t.farewell = s.farewell /\ t.live_ = s.live_
        /\ t.disconnects = s.disconnects /\ t.write_queue_ = s.write_queue_
    BY DEF Object
  <1> HIDE DEF t
  <1>2. Same(s, t)
    BY <1>1, Sets DEF Same
  <1> QED BY <1>2 DEF t

LEMMA SetsPong ==
    ASSUME NEW s \in Object, NEW T \in SUBSET Timers, NEW b \in BOOLEAN
    PROVE  Same(s, [s EXCEPT !.awaiting_pong_ = b, !.timers = T])
  <1> DEFINE t == [s EXCEPT !.awaiting_pong_ = b, !.timers = T]
  <1>1. /\ t \in Object /\ t.strand_ = s.strand_ /\ t.reading = s.reading
        /\ t.writing = s.writing /\ t.farewell = s.farewell /\ t.live_ = s.live_
        /\ t.disconnects = s.disconnects /\ t.write_queue_ = s.write_queue_
    BY DEF Object
  <1> HIDE DEF t
  <1>2. Same(s, t)
    BY <1>1, Sets DEF Same
  <1> QED BY <1>2 DEF t

LEMMA SetsQueue ==
    ASSUME NEW s \in Object, NEW n \in Nat
    PROVE  LET t == [s EXCEPT !.write_queue_ = n]
           IN  /\ t \in Object /\ t.live_ = s.live_ /\ t.write_queue_ = n
               /\ t.writing = s.writing
               /\ Reading(t) = Reading(s) /\ Writing(t) = Writing(s)
               /\ Leaving(t) = Leaving(s) /\ Removals(t) = Removals(s)
  <1> DEFINE t == [s EXCEPT !.write_queue_ = n]
  <1>1. /\ t \in Object /\ t.strand_ = s.strand_ /\ t.reading = s.reading
        /\ t.writing = s.writing /\ t.farewell = s.farewell /\ t.live_ = s.live_
        /\ t.disconnects = s.disconnects /\ t.write_queue_ = n
    BY DEF Object
  <1> HIDE DEF t
  <1>2. /\ Reading(t) = Reading(s) /\ Writing(t) = Writing(s)
        /\ Leaving(t) = Leaving(s) /\ Removals(t) = Removals(s)
    BY <1>1, Sets
  <1> QED BY <1>1, <1>2 DEF t

-----------------------------------------------------------------------------
(* Handlers.                                                               *)

\* The handler of a read starts the next, says the last message or closes.
LEMMA ReadHandled ==
    ASSUME NEW s \in Object, Reading(s) = 0, Writing(s) <= 1,
           Writing(s) = 1 => s.write_queue_ > 0,
           s.live_ /\ s.write_queue_ > 0 => Writing(s) = 1,
           NEW x, Same(s, x), NEW t, OneRead(x, t) \/ LastMessage(x, t) \/ Closed(x, t)
    PROVE  Good(t) /\ Removals(t) = Removals(s)
  <1>1. Writing(s) \in Nat /\ Leaving(s) \in Nat
    BY Counts
  <1> QED BY <1>1 DEF Good, Same, OneRead, LastMessage, Closed

LEMMA HandshakeHandled ==
    ASSUME NEW s \in Object, s.reading = "none", NEW ok \in BOOLEAN
    PROVE  LET t == on_handshake(s, ok) IN OneRead(s, t) \/ Closed(s, t)
  <1> DEFINE r == do_read_header(s)
             T == r.timers \cup {"ping"}
  <1>1. OneRead(s, r)
    BY ReadsOn
  <1> HIDE DEF r
  <1>2. r \in Object
    BY <1>1 DEF OneRead
  <1>3. T \in SUBSET Timers
    BY <1>2 DEF Object, Timers
  <1>4. start_ping(r) = [r EXCEPT !.timers = T]
    BY DEF start_ping
  <1> HIDE DEF T
  <1>5. Same(r, start_ping(r))
    BY <1>2, <1>3, <1>4, SetsTimers
  <1>6. OneRead(s, start_ping(r))
    BY <1>1, <1>5 DEF OneRead, Same
  <1> QED BY <1>6, Closing DEF on_handshake, r

LEMMA BodyHandled ==
    ASSUME NEW s \in Object, Reading(s) = 0, NEW ok \in BOOLEAN, NEW t \in on_body(s, ok)
    PROVE  \E x : Same(s, x) /\ (OneRead(x, t) \/ Closed(x, t))
  <1> DEFINE T == s.timers \ {"read"}
             c == [s EXCEPT !.timers = T]
             U == c.timers \ {"pong"}
             p == [c EXCEPT !.awaiting_pong_ = FALSE, !.timers = U]
             m == post(c, "relay", TRUE)
  <1>1. T \in SUBSET Timers
    BY DEF Object
  <1>2. on_body(s, ok) = IF ok THEN {do_read_header(x) : x \in {p, m}} ELSE {close_session(c)}
    BY DEF on_body, handle_message
  <1> HIDE DEF T
  <1>3. Same(s, c)
    BY <1>1, SetsTimers
  <1> HIDE DEF c
  <1>4. c \in Object /\ Reading(c) = 0
    BY <1>3 DEF Same
  <1>5. U \in SUBSET Timers
    BY <1>4 DEF Object
  <1> HIDE DEF U
  <1>6. Same(c, p)
    BY <1>4, <1>5, SetsPong
  <1>7. Same(c, m)
    <2>1. "relay" \in Handlers /\ "relay" \notin Reads
      BY DEF Handlers, Reads
    <2> QED BY <1>4, <2>1, PostsOther
  <1> HIDE DEF p, m
  <1>8. /\ p \in Object /\ m \in Object /\ Reading(p) = 0 /\ Reading(m) = 0
        /\ Same(s, p) /\ Same(s, m)
    BY <1>3, <1>4, <1>6, <1>7 DEF Same
  <1>9. OneRead(p, do_read_header(p)) /\ OneRead(m, do_read_header(m))
    BY <1>8, NoReadLeft, ReadsOn
  <1>10. Closed(c, close_session(c))
    BY <1>4, Closing
  <1>11. t = do_read_header(p) \/ t = do_read_header(m) \/ t = close_session(c)
    BY <1>2
  <1> QED BY <1>3, <1>8, <1>9, <1>10, <1>11

LEMMA WriteHandled ==
    ASSUME NEW s \in Object, Reading(s) <= 1, s.live_ => Reading(s) > 0 \/ Leaving(s) > 0,
           Writing(s) = 0, s.write_queue_ > 0, NEW ok \in BOOLEAN
    PROVE  LET t == on_written(s, ok) IN Good(t) /\ Removals(t) = Removals(s)
  <1> DEFINE T == s.timers \ {"write"}
             c == [s EXCEPT !.timers = T]
             n == c.write_queue_ - 1
             d == [c EXCEPT !.write_queue_ = n]
             t == on_written(s, ok)
  <1>0. Reading(s) \in Nat /\ Leaving(s) \in Nat
    BY Counts
  <1>1. T \in SUBSET Timers
    BY DEF Object
  <1>2. t = IF ~ok THEN close_session(c)
            ELSE IF d.write_queue_ > 0 THEN do_write(d) ELSE d
    BY DEF on_written
  <1> HIDE DEF T, t
  <1>3. Same(s, c)
    BY <1>1, SetsTimers
  <1> HIDE DEF c
  <1>4. c \in Object /\ n \in Nat
    <2>1. c \in Object /\ c.write_queue_ > 0
      BY <1>3 DEF Same
    <2> QED BY <2>1 DEF Object
  <1> HIDE DEF n
  <1>5. /\ d \in Object /\ d.live_ = c.live_ /\ d.write_queue_ = n
        /\ Reading(d) = Reading(c) /\ Writing(d) = Writing(c)
        /\ Leaving(d) = Leaving(c) /\ Removals(d) = Removals(c)
    BY <1>4, SetsQueue
  <1> HIDE DEF d
  <1>6. CASE ~ok
    <2>1. Closed(c, t)
      BY <1>2, <1>4, <1>6, Closing
    <2> QED BY <1>0, <1>3, <2>1 DEF Good, Same, Closed, t
  <1>6a. /\ d \in Object /\ d.live_ = s.live_ /\ d.write_queue_ = n /\ Writing(d) = 0
        /\ Reading(d) = Reading(s) /\ Leaving(d) = Leaving(s) /\ Removals(d) = Removals(s)
    BY <1>3, <1>5 DEF Same
  <1>7. CASE ok /\ n > 0
    <2>1. OneWrite(d, do_write(d))
      BY <1>3, <1>5, NoWriteLeft, WritesOn DEF Same
    <2>2. t = do_write(d)
      BY <1>2, <1>5, <1>7
    <2>3. OneWrite(d, t)
      BY <2>1, <2>2
    <2>4. /\ t \in Object /\ t.live_ = s.live_ /\ t.write_queue_ = n /\ Writing(t) = 1
          /\ Reading(t) = Reading(s) /\ Leaving(t) = Leaving(s) /\ Removals(t) = Removals(s)
      BY <1>6a, <2>3 DEF OneWrite
    <2>5. Good(t)
      BY <1>0, <1>7, <2>4 DEF Good
    <2> QED BY <2>4, <2>5 DEF t
  <1>8. CASE ok /\ ~(n > 0)
    <2>1. t = d
      BY <1>2, <1>5, <1>8
    <2>2. Good(d)
      BY <1>0, <1>4, <1>6a, <1>8 DEF Good
    <2> QED BY <1>6a, <2>1, <2>2 DEF t
  <1> QED BY <1>6, <1>7, <1>8

LEMMA DeliverHandled ==
    ASSUME NEW s, Good(s)
    PROVE  LET t == on_deliver(s) IN Good(t) /\ Removals(t) = Removals(s)
  <1> DEFINE n == s.write_queue_ + 1
             q == [s EXCEPT !.write_queue_ = n]
             t == on_deliver(s)
  <1>1. /\ s \in Object /\ s.write_queue_ \in Nat /\ n \in Nat
        /\ Reading(s) \in Nat /\ Leaving(s) \in Nat /\ Writing(s) \in Nat
    BY Counts DEF Good, Object
  <1>2. t = IF q.write_queue_ > MAX_MESSAGE_BACKLOG THEN abort_io(q)
            ELSE IF s.write_queue_ = 0 THEN do_write(q) ELSE q
    BY DEF on_deliver
  <1>3. n > 0 /\ (n = 1 <=> s.write_queue_ = 0)
    BY <1>1
  <1> HIDE DEF n, t
  <1>4. /\ q \in Object /\ q.live_ = s.live_ /\ q.write_queue_ = n
        /\ q.writing = s.writing
        /\ Reading(q) = Reading(s) /\ Writing(q) = Writing(s)
        /\ Leaving(q) = Leaving(s) /\ Removals(q) = Removals(s)
    BY <1>1, SetsQueue
  <1> HIDE DEF q
  <1>5. CASE s.write_queue_ # 0
    <2>1. Good(q)
      BY <1>1, <1>3, <1>4, <1>5 DEF Good
    <2>2. Same(q, abort_io(q))
      BY <1>4, Aborts
    <2>3. Good(abort_io(q)) /\ Removals(abort_io(q)) = Removals(q)
      BY <2>1, <2>2, StaysGood
    <2>4. t = abort_io(q) \/ t = q
      BY <1>2, <1>5
    <2> QED BY <1>4, <2>1, <2>3, <2>4 DEF t
  <1>6. CASE s.write_queue_ = 0
    <2>1. q.write_queue_ = 1 /\ ~(1 > MAX_MESSAGE_BACKLOG)
      BY <1>1, <1>3, <1>4, <1>6, SessionAssumption
    <2>2. t = do_write(q)
      BY <1>2, <1>6, <2>1
    <2>3. Writing(q) = 0
      BY <1>1, <1>4, <1>6 DEF Good
    <2>4. OneWrite(q, t)
      BY <1>4, <2>2, <2>3, NoWriteLeft, WritesOn
    <2> QED BY <1>1, <1>3, <1>4, <2>3, <2>4 DEF Good, OneWrite, t
  <1> QED BY <1>5, <1>6

LEMMA PingHandled ==
    ASSUME NEW s \in Object
    PROVE  Same(s, on_ping(s))
  <1> DEFINE d == post(s, "deliver", TRUE)
             T == d.timers \cup {"pong"}
             p == [d EXCEPT !.awaiting_pong_ = TRUE, !.timers = T]
             U == p.timers \cup {"ping"}
  <1>1. on_ping(s) = [p EXCEPT !.timers = U]
    BY DEF on_ping, start_ping
  <1>2. Same(s, d)
    <2>1. "deliver" \in Handlers /\ "deliver" \notin Reads
      BY DEF Handlers, Reads
    <2> QED BY <2>1, PostsOther
  <1> HIDE DEF d
  <1>3. d \in Object /\ T \in SUBSET Timers
    <2>1. d \in Object
      BY <1>2 DEF Same
    <2> QED BY <2>1 DEF Object, Timers
  <1> HIDE DEF T
  <1>4. Same(d, p)
    BY <1>3, SetsPong
  <1> HIDE DEF p
  <1>5. p \in Object /\ U \in SUBSET Timers
    <2>1. p \in Object
      BY <1>4 DEF Same
    <2> QED BY <2>1 DEF Object, Timers
  <1> HIDE DEF U
  <1>6. Same(p, on_ping(s))
    BY <1>1, <1>5, SetsTimers
  <1> QED BY <1>2, <1>4, <1>6 DEF Same

LEMMA RelayHandled ==
    ASSUME NEW s \in Object, NEW t \in on_relay(s)
    PROVE  Same(s, t) \/ Closed(s, t)
  <1> DEFINE d == post(s, "deliver", TRUE)
  <1>1. Same(s, d)
    <2>1. "deliver" \in Handlers /\ "deliver" \notin Reads
      BY DEF Handlers, Reads
    <2> QED BY <2>1, PostsOther
  <1>2. t = s \/ t = d \/ t = close_session(d)
    BY DEF on_relay
  <1> HIDE DEF d
  <1>3. Closed(d, close_session(d))
    BY <1>1, Closing DEF Same
  <1>4. Closed(s, close_session(d))
    BY <1>1, <1>3 DEF Same, Closed
  <1>5. Same(s, s)
    BY DEF Same
  <1> QED BY <1>1, <1>2, <1>4, <1>5

\* Every handler of the strand leaves a good session and no more removals to come.
LEMMA RunStep ==
    ASSUME NEW a, Good(a), a.strand_ # <<>>,
           NEW t \in run([a EXCEPT !.strand_ = Tail(a.strand_)], Head(a.strand_))
    PROVE  Good(t) /\ Removals(t) = Removals(a)
  <1> DEFINE s == [a EXCEPT !.strand_ = Tail(a.strand_)]
             h == Head(a.strand_)
  <1>1. a \in Object
    BY DEF Good
  <1>2. /\ s \in Object /\ h \in Handler
        /\ s.live_ = a.live_ /\ s.write_queue_ = a.write_queue_
        /\ Reading(a) = Reading(s) + (IF h.op \in Reads THEN 1 ELSE 0)
        /\ Writing(a) = Writing(s) + (IF h.op = "written" THEN 1 ELSE 0)
        /\ Leaving(a) = Leaving(s) + (IF h.op = "farewell" THEN 1 ELSE 0)
        /\ Removals(a) = Removals(s) + (IF h.op = "close" THEN 1 ELSE 0)
    BY <1>1, Takes
  <1>3. t \in run(s, h)
    OBVIOUS
  <1> HIDE DEF s, h
  <1>4. /\ Reading(s) \in Nat /\ Writing(s) \in Nat /\ Leaving(s) \in Nat /\ Removals(s) \in Nat
        /\ s.write_queue_ \in Nat
    BY <1>2, Counts DEF Object
  <1>5. h.ok \in BOOLEAN /\ h.op \in Handlers
    BY <1>2 DEF Handler
  <1>6. CASE h.op \in Reads
    <2>1. /\ Reading(a) = Reading(s) + 1 /\ Writing(a) = Writing(s) + 0
          /\ Removals(a) = Removals(s) + 0
      BY <1>2, <1>6 DEF Reads
    <2>2. /\ Reading(s) = 0 /\ Writing(s) <= 1
          /\ Writing(s) = 1 => s.write_queue_ > 0
          /\ s.live_ /\ s.write_queue_ > 0 => Writing(s) = 1
          /\ Removals(a) = Removals(s)
      BY <1>2, <1>4, <2>1 DEF Good
    <2>3. s.reading = "none"
      BY <1>2, <2>2, NoReadLeft
    <2>4. Same(s, s)
      BY <1>2 DEF Same
    <2>5. CASE h.op = "handshake"
      <3>1. t = on_handshake(s, h.ok)
        BY <1>3, <2>5 DEF run
      <3>2. OneRead(s, t) \/ Closed(s, t)
        BY <1>2, <1>5, <2>3, <3>1, HandshakeHandled
      <3> QED BY <1>2, <2>2, <2>4, <3>2, ReadHandled
    <2>6. CASE h.op = "header"
      <3>1. t = do_read_body(s) \/ t = say_farewell(s) \/ t = close_session(s)
        BY <1>3, <2>6 DEF run, on_header
      <3>2. OneRead(s, t) \/ LastMessage(s, t) \/ Closed(s, t)
        BY <1>2, <2>3, <3>1, ReadsOn, SaysFarewell, Closing
      <3> QED BY <1>2, <2>2, <2>4, <3>2, ReadHandled
    <2>7. CASE h.op = "body"
      <3>1. t \in on_body(s, h.ok)
        BY <1>3, <2>7 DEF run
      <3>2. PICK x : Same(s, x) /\ (OneRead(x, t) \/ Closed(x, t))
        BY <1>2, <1>5, <2>2, <3>1, BodyHandled
      <3> QED BY <1>2, <2>2, <3>2, ReadHandled
    <2> QED BY <1>6, <2>5, <2>6, <2>7 DEF Reads
  <1>7. CASE h.op = "written"
    <2>1. /\ Reading(a) = Reading(s) + 0 /\ Writing(a) = Writing(s) + 1
          /\ Leaving(a) = Leaving(s) + 0 /\ Removals(a) = Removals(s) + 0
      BY <1>2, <1>7 DEF Reads
    <2>2. /\ Reading(s) <= 1 /\ (s.live_ => Reading(s) > 0 \/ Leaving(s) > 0)
          /\ Writing(s) = 0 /\ s.write_queue_ > 0 /\ Removals(a) = Removals(s)
      BY <1>2, <1>4, <2>1 DEF Good
    <2>3. t = on_written(s, h.ok)
      BY <1>3, <1>7 DEF run
    <2> QED BY <1>2, <1>5, <2>2, <2>3, WriteHandled
  <1>8. CASE h.op = "farewell"
    <2>1. /\ Reading(a) = Reading(s) + 0 /\ Writing(a) = Writing(s) + 0
          /\ Removals(a) = Removals(s) + 0
      BY <1>2, <1>8 DEF Reads
    <2>2. t = close_session(s)
      BY <1>3, <1>8 DEF run
    <2>3. Closed(s, t)
      BY <1>2, <2>2, Closing
    <2> QED BY <1>2, <1>4, <2>1, <2>3 DEF Good, Closed
  <1>9. CASE h.op = "close"
    <2>1. /\ Reading(a) = Reading(s) + 0 /\ Writing(a) = Writing(s) + 0
          /\ Leaving(a) = Leaving(s) + 0 /\ Removals(a) = Removals(s) + 1
      BY <1>2, <1>9 DEF Reads
    <2>2. t = force_close_session(s)
      BY <1>3, <1>9 DEF run
    <2>3. /\ t \in Object /\ t.live_ = s.live_ /\ t.write_queue_ = s.write_queue_
          /\ Reading(t) = Reading(s) /\ Writing(t) = Writing(s)
          /\ Leaving(t) = Leaving(s) /\ Removals(t) = Removals(s) + 1
      BY <1>2, <2>2, ForceCloses
    <2> QED BY <1>2, <1>4, <2>1, <2>3 DEF Good
  <1>10. CASE h.op \in Timers \cup {"relay", "deliver"}
    <2>1. /\ Reading(a) = Reading(s) + 0 /\ Writing(a) = Writing(s) + 0
          /\ Leaving(a) = Leaving(s) + 0 /\ Removals(a) = Removals(s) + 0
      BY <1>2, <1>10 DEF Reads, Timers
    <2>2. Good(s) /\ Removals(a) = Removals(s)
      BY <1>2, <1>4, <2>1 DEF Good
    <2>3. CASE h.op = "relay"
      <3>1. t \in on_relay(s)
        BY <1>3, <2>3 DEF run
      <3> QED BY <1>2, <2>2, <3>1, RelayHandled, StaysGood
    <2>4. CASE h.op = "deliver"
      <3>1. t = on_deliver(s)
        BY <1>3, <2>4 DEF run
      <3> QED BY <2>2, <3>1, DeliverHandled
    <2>5. CASE h.op = "ping"
      <3>1. t = on_ping(s)
        BY <1>3, <2>5 DEF run
      <3> QED BY <1>2, <2>2, <3>1, PingHandled, StaysGood
    <2>6. CASE h.op = "pong"
      <3>1. t = say_farewell(s) \/ t = s
        BY <1>3, <2>6 DEF run, on_pong
      <3> QED BY <1>2, <2>2, <3>1, SaysFarewell, StaysGood
    <2>7. CASE h.op \in {"read", "write"}
      <3>1. t = abort_io(s)
        BY <1>3, <2>7 DEF run
      <3> QED BY <1>2, <2>2, <3>1, Aborts, StaysGood
    <2> QED BY <1>10, <2>3, <2>4, <2>5, <2>6, <2>7 DEF Timers
  <1> QED BY <1>5, <1>6, <1>7, <1>8, <1>9, <1>10 DEF Handlers

-----------------------------------------------------------------------------
(* Steps.                                                                  *)

Finished == {c \in Callers : callers[c] = "done"}

Inv ==
    /\ Good(self)
    /\ callers \in [Callers -> {"out", "tested", "done"}]
    /\ peer \in {"talking", "silent", "stuck"}
    /\ delivers \in 0 .. MaxDelivers
    /\ Removals(self) <= 1 + Cardinality(Finished)

LEMMA FinishedIsFinite ==
    IsFiniteSet(Finished) /\ Cardinality(Finished) \in Nat
        /\ Cardinality(Finished) <= Cardinality(Callers) /\ Cardinality(Callers) \in Nat
  <1>1. Finished \in SUBSET Callers /\ IsFiniteSet(Callers)
    BY SessionAssumption DEF Finished
  <1> HIDE DEF Finished
  <1> QED BY <1>1, FS_Subset, FS_CardinalityType

LEMMA InitInv == Init => Inv
  <1> SUFFICES ASSUME Init PROVE Inv
    OBVIOUS
  <1>1. self \in Object
    BY DEF Init, Object, Reads
  <1>2. \A ops : Number(self.strand_, ops) = 0
    <2>1. \A ops : At(self.strand_, ops) = {}
      BY DEF Init, At
    <2> QED BY <2>1, FS_EmptySet DEF Number
  <1>3. Reading(self) = 1 /\ Writing(self) = 0 /\ Removals(self) = 1
    BY <1>2 DEF Init, Reading, Writing, Removals
  <1>4. Good(self)
    BY <1>1, <1>3 DEF Good, Init
  <1>5. callers \in [Callers -> {"out", "tested", "done"}] /\ peer \in {"talking", "silent", "stuck"}
          /\ delivers \in 0 .. MaxDelivers
    BY SessionAssumption DEF Init
  <1> QED BY <1>3, <1>4, <1>5, FinishedIsFinite DEF Inv

LEMMA NextInv == Inv /\ [Next]_vars => Inv'
  <1> SUFFICES ASSUME Inv, [Next]_vars PROVE Inv'
    OBVIOUS
  <1>1. Good(self) /\ self \in Object
    BY DEF Inv, Good
  <1>2. Removals(self) \in Nat /\ Cardinality(Finished) \in Nat
    BY <1>1, Counts, FinishedIsFinite
  <1>3. ASSUME Good(self'), Removals(self') = Removals(self), UNCHANGED <<callers, peer>>,
               delivers' \in 0 .. MaxDelivers
        PROVE  Inv'
    <2>1. Finished' = Finished
      BY <1>3 DEF Finished
    <2> QED BY <1>3, <2>1 DEF Inv, Good, Reading, Writing, Leaving, Removals
  <1>4. ASSUME Same(self, self'), UNCHANGED <<callers, peer>>, delivers' \in 0 .. MaxDelivers
        PROVE  Inv'
    <2>1. Good(self') /\ Removals(self') = Removals(self)
      BY <1>1, <1>4, StaysGood
    <2> QED BY <1>3, <1>4, <2>1
  <1>5. UNCHANGED delivers => delivers' \in 0 .. MaxDelivers
    BY DEF Inv
  <1>6. CASE Run
    <2>1. /\ self.strand_ # <<>> /\ UNCHANGED <<callers, peer, delivers>>
          /\ self' \in run([self EXCEPT !.strand_ = Tail(self.strand_)], Head(self.strand_))
      BY <1>6 DEF Run
    <2>2. Good(self') /\ Removals(self') = Removals(self)
      BY <1>1, <2>1, RunStep
    <2> QED BY <1>3, <1>5, <2>1, <2>2
  <1>7. ASSUME NEW ok \in BOOLEAN, CompleteRead(ok) PROVE Inv'
    <2>1. /\ self.reading # "none" /\ UNCHANGED <<callers, peer, delivers>>
          /\ self' = post([self EXCEPT !.reading = "none"], self.reading, ok)
      BY <1>7 DEF CompleteRead
    <2>2. Same(self, self')
      BY <1>1, <2>1, ReadEnds
    <2> QED BY <1>4, <1>5, <2>1, <2>2
  <1>8. CASE CompleteWrite
    <2>1. /\ self.writing /\ UNCHANGED <<callers, peer, delivers>>
          /\ self' = post([self EXCEPT !.writing = FALSE], "written", TRUE)
      BY <1>8 DEF CompleteWrite
    <2>2. Same(self, self')
      BY <1>1, <2>1, WriteEnds
    <2> QED BY <1>4, <1>5, <2>1, <2>2
  <1>9. CASE CompleteFarewell
    <2>1. /\ self.farewell /\ UNCHANGED <<callers, peer, delivers>>
          /\ self' = post([self EXCEPT !.farewell = FALSE], "farewell", TRUE)
      BY <1>9 DEF CompleteFarewell
    <2>2. Same(self, self')
      BY <1>1, <2>1, FarewellEnds
    <2> QED BY <1>4, <1>5, <2>1, <2>2
  <1>10. ASSUME NEW x \in Timers, Expire(x) PROVE Inv'
    <2> DEFINE T == self.timers \ {x}
               s == [self EXCEPT !.timers = T]
    <2>1. self' = post(s, x, TRUE) /\ UNCHANGED <<callers, peer, delivers>>
      BY <1>10 DEF Expire
    <2>2. T \in SUBSET Timers
      BY <1>1 DEF Object
    <2> HIDE DEF T
    <2>3. Same(self, s)
      BY <1>1, <2>2, SetsTimers
    <2> HIDE DEF s
    <2>4. /\ s \in Object /\ x \in Handlers /\ x \notin Reads
          /\ x # "written" /\ x # "farewell" /\ x # "close"
      BY <2>3 DEF Same, Timers, Handlers, Reads
    <2>5. Same(s, self')
      BY <2>1, <2>4, PostsOther
    <2>6. Same(self, self')
      BY <2>3, <2>5 DEF Same
    <2> QED BY <1>4, <1>5, <2>1, <2>6
  <1>11. CASE PeerFades
    <2>1. UNCHANGED <<self, callers, delivers>> /\ peer' \in {"talking", "silent", "stuck"}
      BY <1>11 DEF PeerFades
    <2>2. Finished' = Finished
      BY <2>1 DEF Finished
    <2> QED BY <2>1, <2>2 DEF Inv, Good, Reading, Writing, Leaving, Removals
  <1>12. CASE Deliver
    <2>1. self' = post(self, "deliver", TRUE) /\ UNCHANGED <<callers, peer>>
      BY <1>12 DEF Deliver
    <2>2. delivers' \in 0 .. MaxDelivers
      BY <1>12, SessionAssumption DEF Deliver, Inv
    <2>3. "deliver" \in Handlers /\ "deliver" \notin Reads
      BY DEF Handlers, Reads
    <2>4. Same(self, self')
      BY <1>1, <2>1, <2>3, PostsOther
    <2> QED BY <1>4, <2>1, <2>2, <2>4
  <1>13. ASSUME NEW c \in Callers, CloseTest(c) PROVE Inv'
    <2>1. /\ callers[c] = "out" /\ UNCHANGED <<self, peer, delivers>>
          /\ callers' \in [Callers -> {"out", "tested", "done"}]
          /\ \A x \in Callers : callers[x] = "done" => callers'[x] = "done"
      BY <1>13 DEF CloseTest, Inv
    <2>2. Finished \subseteq Finished' /\ Finished' \subseteq Callers
      BY <2>1 DEF Finished
    <2>3. IsFiniteSet(Finished')
      BY <2>2, SessionAssumption, FS_Subset
    <2>4. Cardinality(Finished) <= Cardinality(Finished') /\ Cardinality(Finished') \in Nat
      BY <2>2, <2>3, FS_Subset, FS_CardinalityType
    <2>5. Removals(self) <= 1 + Cardinality(Finished')
      BY <1>2, <2>4 DEF Inv
    <2> QED BY <2>1, <2>5 DEF Inv, Good, Reading, Writing, Leaving, Removals
  <1>14. ASSUME NEW c \in Callers, CloseStore(c) PROVE Inv'
    <2> DEFINE t == post([self EXCEPT !.live_ = FALSE], "close", TRUE)
    <2>1. /\ callers[c] = "tested" /\ UNCHANGED <<peer, delivers>>
          /\ callers' = [callers EXCEPT ![c] = "done"] /\ self' = t
      BY <1>14 DEF CloseStore
    <2>2. /\ t \in Object /\ t.live_ = FALSE /\ t.write_queue_ = self.write_queue_
          /\ Reading(t) = Reading(self) /\ Writing(t) = Writing(self)
          /\ Leaving(t) = Leaving(self)
          /\ Removals(t) = Removals(self) + (IF self.live_ THEN 0 ELSE 1)
      BY <1>1, PostsClose
    <2> HIDE DEF t
    <2>3. Finished' = Finished \cup {c} /\ c \notin Finished
      BY <2>1 DEF Inv, Finished
    <2>4. Cardinality(Finished') = Cardinality(Finished) + 1
      BY <2>3, FinishedIsFinite, FS_AddElement
    <2>5. Removals(t) <= Removals(self) + 1
      BY <1>2, <2>2
    <2>6. Good(t)
      BY <1>1, <2>2 DEF Good
    <2>7. callers' \in [Callers -> {"out", "tested", "done"}]
      BY <2>1 DEF Inv
    <2>8. Removals(t) \in Nat
      BY <2>2, Counts
    <2>9. Removals(t) <= 1 + Cardinality(Finished')
      BY <1>2, <2>4, <2>5, <2>8 DEF Inv
    <2> QED BY <2>1, <2>6, <2>7, <2>9 DEF Inv, Good, Reading, Writing, Leaving, Removals
  <1>15. CASE UNCHANGED vars
    <2>1. Finished' = Finished
      BY <1>15 DEF vars, Finished
    <2> QED BY <1>15, <2>1 DEF vars, Inv, Good, Reading, Writing, Leaving, Removals
  <1> QED BY <1>6, <1>7, <1>8, <1>9, <1>10, <1>11, <1>12, <1>13, <1>14, <1>15
          DEF Next, Waiting

LEMMA Invariance == Spec => []Inv
  BY InitInv, NextInv, PTL DEF Spec

-----------------------------------------------------------------------------
(* Theorems.                                                               *)

\* The members of a Session keep their types, and force_close_session removes it from
\* the server at most once more than threads can pass the is_live() test of
\* close_session at the same time.
THEOREM TypeCorrect == Spec => []TypeOK
  <1>1. Inv => TypeOK
    <2> SUFFICES ASSUME Inv PROVE TypeOK
      OBVIOUS
    <2>1. self \in Object
      BY DEF Inv, Good
    <2>2. self.disconnects <= Removals(self)
      <3>1. self.disconnects \in Nat /\ Number(self.strand_, {"close"}) \in Nat
        BY <2>1, Counts DEF Object
      <3> QED BY <3>1 DEF Removals
    <2>3. self.disconnects \in 0 .. 1 + Cardinality(Callers)
      <3>1. self.disconnects \in Nat /\ Removals(self) \in Nat
        BY <2>1, Counts DEF Object
      <3> QED BY <2>2, <3>1, FinishedIsFinite DEF Inv
    <2>4. self \in [live_ : BOOLEAN, open : BOOLEAN,
                 strand_ : Seq([op : Handlers, ok : BOOLEAN]),
                 reading : Reads \cup {"none"}, writing : BOOLEAN, farewell : BOOLEAN,
                 timers : SUBSET Timers, awaiting_pong_ : BOOLEAN, write_queue_ : Nat,
                 disconnects : 0 .. 1 + Cardinality(Callers)]
      BY <2>1, <2>3 DEF Object, Handler
    <2> QED BY <2>4 DEF Inv, TypeOK
  <1> QED BY <1>1, Invariance, PTL

LEMMA PendingIsAt ==
    ASSUME self \in Object, NEW ops
    PROVE  Pending(ops) = At(self.strand_, ops)
  <1>1. DOMAIN self.strand_ = 1 .. Len(self.strand_)
    BY DEF Object
  <1> QED BY <1>1 DEF Pending, At

\* The read loop of session.cpp (do_read_header, do_read_body and their handlers)
\* neither doubles nor dies, whatever the header checks, the ping timers, the backlog
\* and the closing threads do in between.
THEOREM ReadLoopLives == Spec => []ReadLoop
  <1>1. Inv => ReadLoop
    <2> SUFFICES ASSUME Inv PROVE ReadLoop
      OBVIOUS
    <2>1. self \in Object /\ Good(self)
      BY DEF Inv, Good
    <2>2. Cardinality(Pending(Reads)) + (IF self.reading = "none" THEN 0 ELSE 1) = Reading(self)
      BY <2>1, PendingIsAt DEF Reading, Number
    <2>3. Leaving(self) > 0 => self.farewell \/ Pending({"farewell"}) # {}
      <3> SUFFICES ASSUME ~self.farewell, Pending({"farewell"}) = {}
                   PROVE  ~(Leaving(self) > 0)
        OBVIOUS
      <3>1. Number(self.strand_, {"farewell"}) = 0
        BY <2>1, PendingIsAt, FS_EmptySet DEF Number
      <3> QED BY <3>1 DEF Leaving
    <2>4. Reading(self) \in Nat
      BY <2>1, Counts
    <2> QED BY <2>1, <2>2, <2>3, <2>4 DEF ReadLoop, Good
  <1> QED BY <1>1, Invariance, PTL

\* The write loop (deliver, do_write and its handler): a live session with messages
\* queued always has exactly one write that will bring up the next, for any backlog.
THEOREM WriteLoopLives == Spec => []WriteLoop
  <1>1. Inv => WriteLoop
    <2> SUFFICES ASSUME Inv PROVE WriteLoop
      OBVIOUS
    <2>1. self \in Object /\ Good(self)
      BY DEF Inv, Good
    <2>2. Cardinality(Pending({"written"})) + (IF self.writing THEN 1 ELSE 0) = Writing(self)
      BY <2>1, PendingIsAt DEF Writing, Number
    <2> QED BY <2>1, <2>2 DEF WriteLoop, Good
  <1> QED BY <1>1, Invariance, PTL

=============================================================================
