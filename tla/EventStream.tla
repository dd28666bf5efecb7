----------------------------- MODULE EventStream -----------------------------
(***************************************************************************)
(* One conversation of one engine and its durable event ledger: the        *)
(* transport that streams the ledger and reconnects                        *)
(* (src/engine/agui-chat-transport.ts), the adapter that hands accepted    *)
(* events to the engine (execution-adapter.ts), and what the engine        *)
(* (machine.ts) makes of them: the thread and the cursor it resumes from,  *)
(* the snapshot reads that replace both, the receipts that reopen a stream.*)
(*                                                                         *)
(* An event is its position in the ledger.  A chunk of the response is     *)
(* parsed in one task and its events reach the engine in the microtask     *)
(* that follows, so a chunk is one action; a frame that does not parse     *)
(* ends the stream with the earlier frames of its chunk still in the       *)
(* buffer.  A closed handle stays silent but for its unanswered fetch.     *)
(* Runs follow each other: one ends at each position of Terminal, and the  *)
(* event after it is the message that admitted the next one.               *)
(***************************************************************************)
EXTENDS Integers, SequencesExt

CONSTANTS
    Length,     \* events the ledger gets
    Terminal,   \* positions of the events that end a run
    Lag,        \* how many events a snapshot may be behind the ledger
    MaxBad,     \* bound: frames that do not parse
    MaxFaults,  \* bound: lost connections, refused requests, failed reads
    MaxRuns     \* bound: messages sent, by this page or another

ASSUME StreamAssumption ==
    /\ Length \in Nat \ {0} /\ Terminal \subseteq 1..Length /\ Lag \in Nat
    /\ MaxBad \in Nat /\ MaxFaults \in Nat /\ MaxRuns \in Nat \ {0}

VARIABLES
    ledger,     \* events written so far
    admitted,   \* runs admitted so far
    floor,      \* cursors below it have expired
    bad,        \* events whose frame does not parse
    stream,     \* the active handle
    late,       \* the fetch of a closed handle is unanswered
    thread,     \* the events the thread shows, in the order they were applied
    cursor,     \* thread.resumeCursor
    phase,      \* machine.phase: live (a run is shown), idle or submitting
    run,        \* machine.runId: the run shown, 0 if none
    observed,   \* observedTerminalRuns: the runs seen to end while a message is in flight
    connection, \* connected, reconnecting or unavailable
    timer,      \* reattachTimer is set
    recovering, \* recoveringExpiredCursor
    resets,     \* cursorResetAttempts
    read,       \* the snapshot read in flight
    post,       \* the create-message call in flight
    deferred,   \* deferredCreateReceipt: the run of a receipt that waits for the owner
    faults,     \* bound: faults so far
    dropped     \* history: events were dropped and their cursor kept, since the last snapshot

server == <<ledger, admitted, floor, bad>>
machine == <<phase, run, observed>>
engine == <<thread, cursor, machine, connection, timer, recovering, resets>>
history == <<faults, dropped>>
vars == <<server, stream, late, engine, read, post, deferred, history>>

Positions == 1..Length
Prefix(n) == [i \in 1..n |-> i]
Applied == {thread[i] : i \in DOMAIN thread}

\* Runs that have ended in a set of events.
Ended(events) == Cardinality(Terminal \cap events)

RunAt(p) == 1 + Ended(1..(p - 1))

\* The event at p belongs to a run that has started: it brings a resting machine to life.
Starts(p) == p \notin Terminal /\ p - 1 \notin Terminal

\* The events show that run r has started.
Started(events, r) == \E p \in events : Starts(p) /\ RunAt(p) = r

NoStream == [pc |-> "none", start |-> 0, next |-> 0, seen |-> {}]
NoRead == [kind |-> "none", mark |-> -1, head |-> 0, start |-> 0]
NoPost == [kind |-> "none", run |-> 0]

Init ==
    /\ ledger = 0 /\ admitted = 1 /\ floor = 0
    /\ bad \in {b \in SUBSET Positions : Cardinality(b) <= MaxBad}
    /\ stream = [NoStream EXCEPT !.pc = "fetching"]
    /\ late = FALSE
    /\ thread = <<>> /\ cursor = 0 /\ phase = "live" /\ run = 1 /\ observed = {}
    /\ connection = "connected" /\ timer = TRUE /\ recovering = FALSE /\ resets = 0
    /\ read = NoRead /\ post = NoPost /\ deferred = 0
    /\ faults = 0 /\ dropped = FALSE

-----------------------------------------------------------------------------
(* The service *)

\* A run writes: the ledger passes the end of a run only for a run already admitted.
WriteEvent ==
    /\ ledger < Length /\ Ended(1..ledger) < admitted
    /\ ledger' = ledger + 1
    /\ UNCHANGED <<admitted, floor, bad, stream, late, engine, read, post, deferred, history>>

\* A message of another page is admitted.
AdmitElsewhere ==
    /\ admitted < MaxRuns
    /\ admitted' = admitted + 1
    /\ UNCHANGED <<ledger, floor, bad, stream, late, engine, read, post, deferred, history>>

\* The message of this page is admitted.
AdmitPost ==
    /\ post.kind # "none" /\ post.run = 0 /\ admitted < MaxRuns
    /\ admitted' = admitted + 1
    /\ post' = [post EXCEPT !.run = admitted + 1]
    /\ UNCHANGED <<ledger, floor, bad, stream, late, engine, read, deferred, history>>

Collect ==
    /\ floor < ledger
    /\ floor' = floor + 1
    /\ UNCHANGED <<ledger, admitted, bad, stream, late, engine, read, post, deferred, history>>

-----------------------------------------------------------------------------
(* openStream, closeStream: the transport's cursor of the chat becomes the one given *)

Close == /\ stream' = NoStream
         /\ late' = (late \/ stream.pc = "fetching")

Open(c) == /\ stream' = [NoStream EXCEPT !.pc = "fetching", !.start = c]
           /\ late' = (late \/ stream.pc = "fetching")

Fault == faults < MaxFaults /\ faults' = faults + 1

\* onStreamError without recovery: the stream is lost until the user reconnects.
Lost == /\ connection' = "unavailable"
        /\ timer' = FALSE

-----------------------------------------------------------------------------
(* connect: the loop of the active handle.  stream.start is the Last-Event-ID it sends next. *)

\* 200: the service streams strictly after Last-Event-ID; what follows a reconnection may repeat
\* what the same handle already got.
Connected ==
    /\ stream.pc = "fetching" /\ stream.start >= floor
    /\ \E next \in 1..(stream.start + 1) :
          /\ \A p \in next..stream.start : p \in stream.seen
          /\ stream' = [stream EXCEPT !.pc = "open", !.next = next]
    /\ connection' = "connected"
    /\ UNCHANGED <<server, late, thread, cursor, machine, timer, recovering, resets, read, post,
                   deferred, history>>

\* fetch rejects, or the body ends or breaks.
Disconnected ==
    /\ stream.pc \in {"fetching", "open"} /\ Fault
    /\ stream' = [stream EXCEPT !.pc = "waiting"]
    /\ connection' = "reconnecting"
    /\ UNCHANGED <<server, late, thread, cursor, machine, timer, recovering, resets, read, post,
                   deferred, dropped>>

RetryDelay ==
    /\ stream.pc = "waiting"
    /\ stream' = [stream EXCEPT !.pc = "fetching"]
    /\ UNCHANGED <<server, late, engine, read, post, deferred, history>>

\* Another status, no body, or another content type.
Refused ==
    /\ stream.pc = "fetching" /\ Fault
    /\ Close /\ Lost
    /\ UNCHANGED <<server, thread, cursor, machine, recovering, resets, read, post, deferred, dropped>>

\* hydrate retires the receipt of a message sent while a run was shown.
Steerless == IF post.kind = "steer" THEN [post EXCEPT !.kind = "ghost"] ELSE post

\* Mutant: the recoveries are not counted.
ExpiredUncounted ==
    /\ stream.pc = "fetching" /\ stream.start < floor
    /\ stream' = NoStream
    /\ IF resets < 2
       THEN /\ resets' = resets /\ recovering' = TRUE
            /\ connection' = "reconnecting" /\ timer' = FALSE
            /\ read' = [NoRead EXCEPT !.kind = "recover"]
            /\ post' = Steerless
       ELSE Lost /\ UNCHANGED <<resets, recovering, read, post>>
    /\ UNCHANGED <<server, late, thread, cursor, machine, deferred, history>>

\* 410 event_cursor_expired: two recoveries by snapshot, then the stream is lost.
Expired ==
    /\ stream.pc = "fetching" /\ stream.start < floor
    /\ stream' = NoStream
    /\ IF resets < 2
       THEN /\ resets' = resets + 1 /\ recovering' = TRUE
            /\ connection' = "reconnecting" /\ timer' = FALSE
            /\ read' = [NoRead EXCEPT !.kind = "recover"]
            /\ post' = Steerless
       ELSE Lost /\ UNCHANGED <<resets, recovering, read, post>>
    /\ UNCHANGED <<server, late, thread, cursor, machine, deferred, history>>

-----------------------------------------------------------------------------
(* accept, onFrame, the flush of the buffer and handleStreamEvents *)

\* Positions, in order.
InOrder(positions) ==
    LET upto[n \in 0..Length] ==
            IF n = 0 THEN <<>>
            ELSE IF n \in positions THEN Append(upto[n - 1], n) ELSE upto[n - 1]
    IN upto[Length]

\* Mutant: seenCursors is not consulted.
FreshAll(last) == stream.next..last

\* The frames next..last that are new to the handle.
Fresh(last) == (stream.next..last) \ stream.seen

\* Mutant: the end of a run leaves its identity.
STREAM_EVENTNamed(m, p) ==
    CASE m.phase = "live" /\ RunAt(p) = m.run /\ p \in Terminal ->
             [m EXCEPT !.phase = "idle", !.settled = TRUE]
      [] m.phase = "idle" /\ Starts(p) ->
             [m EXCEPT !.phase = "live", !.run = RunAt(p)]
      [] OTHER -> m

\* transition, STREAM_EVENT: an event of another run is heard only when it starts one.
STREAM_EVENT(m, p) ==
    CASE m.phase = "live" /\ RunAt(p) = m.run /\ p \in Terminal ->
             [phase |-> "idle", run |-> 0, settled |-> TRUE]
      [] m.phase = "idle" /\ Starts(p) ->
             [m EXCEPT !.phase = "live", !.run = RunAt(p)]
      [] OTHER -> m

\* What the machine makes of a batch.
Heard(events) ==
    LET after[n \in 0..Len(events)] ==
            IF n = 0 THEN [phase |-> phase, run |-> run, settled |-> FALSE]
            ELSE STREAM_EVENT(after[n - 1], events[n])
    IN after[Len(events)]

\* handleStreamEvents: the batch is applied; a run that came to rest has the owner read once.
HandleStreamEvents(events) ==
    LET after == Heard(events)
        ends == Terminal \cap ToSet(events)
    IN  /\ thread' = thread \o events
        /\ phase' = after.phase /\ run' = after.run
        /\ observed' = IF post.kind \in {"none", "ghost"} THEN observed
                       ELSE observed \cup {RunAt(p) : p \in ends}
        /\ timer' = (timer /\ ~after.settled /\ ~Started(Applied \cup ToSet(events), after.run))
        /\ read' = IF after.settled
                   THEN [NoRead EXCEPT !.kind = "settle", !.start = cursor']
                   ELSE read

\* A chunk whose frames all parse.
Chunk(last) ==
    LET events == InOrder(Fresh(last)) IN
    /\ Fresh(last) \cap bad = {}
    /\ stream' = [stream EXCEPT !.next = last + 1, !.seen = @ \cup Fresh(last),
                                !.start = IF events = <<>> THEN @ ELSE Last(events)]
    /\ IF events = <<>>
       THEN UNCHANGED <<engine, read>>
       ELSE /\ cursor' = Last(events) /\ resets' = 0
            /\ HandleStreamEvents(events)
            /\ UNCHANGED <<connection, recovering>>
    /\ UNCHANGED <<server, late, post, deferred, history>>

\* A chunk up to its first frame that does not parse, with which its reading ends: the frames before
\* it have moved the cursor, the error drops their events.
BadChunk(last) ==
    LET before == InOrder(Fresh(last) \ {last}) IN
    /\ Fresh(last) \cap bad = {last}
    /\ stream' = NoStream
    /\ IF before = <<>>
       THEN UNCHANGED <<cursor, resets, dropped>>
       ELSE cursor' = Last(before) /\ resets' = 0 /\ dropped' = TRUE
    /\ Lost
    /\ UNCHANGED <<server, late, thread, machine, recovering, read, post, deferred, faults>>

Receive == /\ stream.pc = "open"
           /\ \E last \in stream.next..ledger : Chunk(last) \/ BadChunk(last)

-----------------------------------------------------------------------------
(* What a closed handle and the reattach timer may still do *)

\* Mutant: the answer to the fetch of a closed handle is taken for the active one.
LateAnswerHeard ==
    /\ late /\ late' = FALSE
    /\ connection' = "connected"
    /\ UNCHANGED <<server, stream, thread, cursor, machine, timer, recovering, resets, read, post,
                   deferred, history>>

LateAnswer ==
    /\ late /\ late' = FALSE
    /\ UNCHANGED <<server, stream, engine, read, post, deferred, history>>

\* Nothing was heard of the run that a snapshot showed.
ReattachTimeout ==
    /\ timer /\ Fault
    /\ timer' = FALSE
    /\ IF phase = "live"
       THEN Close /\ connection' = "unavailable" /\ read' = NoRead
       ELSE UNCHANGED <<stream, late, connection, read>>
    /\ UNCHANGED <<server, thread, cursor, machine, recovering, resets, post, deferred, dropped>>

-----------------------------------------------------------------------------
(* The snapshot reads.  A snapshot shows the ledger at its watermark and the run at its head. *)

ServeSnapshot ==
    /\ read.kind # "none" /\ read.mark = -1
    /\ \E mark \in Max({0, ledger - Lag})..ledger :
          read' = [read EXCEPT !.mark = mark,
                               !.head = IF Ended(1..mark) < admitted THEN Ended(1..mark) + 1 ELSE 0]
    /\ UNCHANGED <<server, stream, late, engine, post, deferred, history>>

\* The thread and its cursor become the snapshot's.
Adopt(mark) == thread' = Prefix(mark) /\ cursor' = mark /\ dropped' = FALSE

\* REATTACH, and the window in which the run must be heard of.
Reattach(r) == phase' = "live" /\ run' = r

\* Mutant: only the head of the snapshot reopens the stream.
AdoptRecoveryHead ==
    /\ read.kind = "recover" /\ read.mark >= 0
    /\ LET settled == Ended(1..read.mark) IN
       /\ Adopt(read.mark)
       /\ resets' = IF read.mark # cursor THEN 0 ELSE resets
       /\ recovering' = FALSE /\ read' = NoRead /\ deferred' = 0
       /\ observed' = IF post.kind = "submit" THEN 1..settled ELSE {}
       /\ timer' = (read.head # 0)
       /\ \/ read.head # 0 /\ Reattach(read.head)
          \/ read.head = 0 /\ deferred > settled /\ Reattach(deferred)
          \/ read.head = 0 /\ deferred <= settled /\ phase' = "idle" /\ run' = 0
       /\ IF read.head # 0 THEN Open(read.mark) /\ UNCHANGED connection
          ELSE Close /\ connection' = "connected"
    /\ UNCHANGED <<server, post, faults>>

\* hydrate, after an expired cursor or a reconnection.
AdoptRecovery ==
    /\ read.kind = "recover" /\ read.mark >= 0
    /\ LET settled == Ended(1..read.mark) IN
       /\ Adopt(read.mark)
       /\ resets' = IF read.mark # cursor THEN 0 ELSE resets
       /\ recovering' = FALSE /\ read' = NoRead /\ deferred' = 0
       /\ observed' = IF post.kind = "submit" THEN 1..settled ELSE {}
       /\ timer' = (read.head # 0)
       /\ \/ read.head # 0 /\ Reattach(read.head)
          \/ read.head = 0 /\ deferred > settled /\ Reattach(deferred)
          \/ read.head = 0 /\ deferred <= settled /\ phase' = "idle" /\ run' = 0
       /\ IF phase' = "live" THEN Open(read.mark) /\ UNCHANGED connection
          ELSE Close /\ connection' = "connected"
    /\ UNCHANGED <<server, post, faults>>

RecoveryFails ==
    /\ read.kind = "recover" /\ Fault
    /\ recovering' = FALSE /\ read' = NoRead
    /\ connection' = "unavailable"
    /\ UNCHANGED <<server, stream, late, thread, cursor, machine, timer, resets, post, deferred,
                   dropped>>

\* syncWorkspaceFiles: a run is shown again by now, only the files of the answer are taken.
SettleWhileLive ==
    /\ phase # "idle"
    /\ UNCHANGED <<stream, late, thread, cursor, phase, run, connection, timer, recovering, resets,
                   dropped>>

\* The owner has no successor: the stream that has not moved since is closed.
SettleQuiet ==
    /\ phase = "idle" /\ read.head = 0
    /\ IF cursor = read.start
       THEN Close /\ connection' = "connected"
       ELSE UNCHANGED <<stream, late, connection>>
    /\ UNCHANGED <<thread, cursor, phase, run, timer, recovering, resets, dropped>>

\* The head of the answer is a run whose end was seen: it is not shown again.
SettleStale ==
    /\ phase = "idle" /\ read.head \in 1..Ended(Applied)
    /\ Close
    /\ UNCHANGED <<thread, cursor, phase, run, connection, timer, recovering, resets, dropped>>

\* A successor: adoptOwnerSnapshot.
SettleSuccessor ==
    /\ phase = "idle" /\ read.head > Ended(Applied)
    /\ Adopt(read.mark) /\ Reattach(read.head) /\ Open(read.mark)
    /\ timer' = TRUE
    /\ UNCHANGED <<connection, recovering, resets>>

SettleRead ==
    /\ read.kind = "settle" /\ read.mark >= 0
    /\ read' = NoRead
    /\ observed' = IF post.kind = "submit" THEN observed \cup 1..Ended(1..read.mark) ELSE observed
    /\ SettleWhileLive \/ SettleQuiet \/ SettleStale \/ SettleSuccessor
    /\ UNCHANGED <<server, post, deferred, faults>>

SettleReadFails ==
    /\ read.kind = "settle" /\ Fault
    /\ read' = NoRead
    /\ UNCHANGED <<server, stream, late, engine, post, deferred, dropped>>

-----------------------------------------------------------------------------
(* The user: reconnect, submit; and the receipts *)

Reconnect ==
    /\ connection = "unavailable" /\ ~recovering
    /\ recovering' = TRUE /\ connection' = "reconnecting" /\ timer' = FALSE
    /\ Close
    /\ read' = [NoRead EXCEPT !.kind = "recover"]
    /\ post' = Steerless
    /\ UNCHANGED <<server, thread, cursor, machine, resets, deferred, history>>

CanSubmitMessage == ~recovering /\ connection = "connected" /\ post = NoPost /\ deferred = 0

Submit ==
    /\ CanSubmitMessage /\ phase = "idle"
    /\ phase' = "submitting" /\ post' = [NoPost EXCEPT !.kind = "submit"]
    /\ UNCHANGED <<server, stream, late, thread, cursor, run, observed, connection, timer,
                   recovering, resets, read, deferred, history>>

\* A message sent while a run is shown.
Steer ==
    /\ CanSubmitMessage /\ phase = "live"
    /\ post' = [NoPost EXCEPT !.kind = "steer"]
    /\ UNCHANGED <<server, stream, late, engine, read, deferred, history>>

\* The run of a receipt is shown and its events follow from the thread's cursor.
Follow(r) ==
    /\ phase' = "live" /\ run' = r
    /\ Open(cursor)

SubmitReceipt ==
    /\ post.kind = "submit" /\ post.run # 0
    /\ post' = NoPost
    /\ \/ /\ recovering \/ connection # "connected"
          /\ deferred' = post.run
          /\ UNCHANGED <<stream, late, phase, run>>
       \/ /\ ~recovering /\ connection = "connected" /\ UNCHANGED deferred
          /\ \/ phase # "live" /\ post.run \notin observed /\ Follow(post.run)
             \/ phase # "live" /\ post.run \in observed
                /\ phase' = "idle" /\ UNCHANGED <<run, stream, late>>
             \/ phase = "live" /\ UNCHANGED <<phase, run, stream, late>>
    /\ observed' = {}
    /\ UNCHANGED <<server, thread, cursor, connection, timer, recovering, resets, read, history>>

\* The receipt of a steer reopens the stream when the run it was sent to is over, and retires the
\* read of its end.
SteerReceipt ==
    /\ post.kind \in {"steer", "ghost"} /\ post.run # 0
    /\ post' = NoPost
    /\ IF post.kind = "steer" /\ phase = "idle" /\ post.run \notin observed
       THEN Follow(post.run) /\ read' = NoRead
       ELSE UNCHANGED <<phase, run, stream, late, read>>
    /\ observed' = {}
    /\ UNCHANGED <<server, thread, cursor, connection, timer, recovering, resets, deferred, history>>

-----------------------------------------------------------------------------
Next ==
    \/ WriteEvent \/ AdmitElsewhere \/ AdmitPost \/ Collect
    \/ Connected \/ Disconnected \/ RetryDelay \/ Refused \/ Expired \/ Receive
    \/ LateAnswer \/ ReattachTimeout
    \/ ServeSnapshot \/ AdoptRecovery \/ RecoveryFails \/ SettleRead \/ SettleReadFails
    \/ Reconnect \/ Submit \/ Steer \/ SubmitReceipt \/ SteerReceipt

\* The loop of the transport runs, responses and reads come back.
Fairness ==
    /\ WF_vars(Connected) /\ WF_vars(RetryDelay) /\ WF_vars(Expired) /\ WF_vars(Receive)
    /\ WF_vars(ServeSnapshot) /\ WF_vars(AdoptRecovery)

Spec == Init /\ [][Next]_vars /\ Fairness

-----------------------------------------------------------------------------
(* Properties *)

\* Every variable has its type; a run is named exactly while one is shown.
TypeOK ==
    /\ ledger \in 0..Length /\ admitted \in 1..MaxRuns /\ floor \in 0..Length
    /\ bad \subseteq Positions
    /\ stream \in [pc : {"none", "fetching", "open", "waiting"}, start : 0..Length,
                   next : 0..(Length + 1), seen : SUBSET Positions]
    /\ late \in BOOLEAN
    /\ thread \in Seq(Positions) /\ cursor \in 0..Length
    /\ phase \in {"live", "idle", "submitting"}
    /\ run \in 0..MaxRuns /\ (phase = "live" <=> run # 0)
    /\ observed \subseteq 1..MaxRuns
    /\ connection \in {"connected", "reconnecting", "unavailable"}
    /\ timer \in BOOLEAN /\ recovering \in BOOLEAN /\ resets \in 0..2
    /\ read \in [kind : {"none", "recover", "settle"}, mark : -1..Length, head : 0..MaxRuns,
                 start : 0..Length]
    /\ post \in [kind : {"none", "submit", "steer", "ghost"}, run : 0..MaxRuns]
    /\ deferred \in 0..MaxRuns
    /\ faults \in 0..MaxFaults /\ dropped \in BOOLEAN

\* The thread is the ledger up to its cursor, every event once and in order, whatever was
\* retried, repeated by the service, or replaced by a snapshot.  After a bad frame that dropped
\* the events before it, and until the next snapshot, events are missing but none is shown twice.
NothingLost ==
    IF dropped THEN \A i, j \in DOMAIN thread : i < j => thread[i] < thread[j]
    ELSE thread = Prefix(cursor)

\* A run that is shown is being followed, unless the page says it is not connected or has the
\* owner read: no path leaves a live run behind a closed stream.
LiveIsFollowed ==
    phase = "live" /\ connection # "unavailable" /\ ~recovering => stream.pc # "none"

\* A recovery by snapshot has its read in flight and nothing beside it: no stream, no timeout,
\* and no callback of the stream it replaces has touched the connection.
RecoveryIsAlone ==
    recovering <=> /\ read.kind = "recover"
                   /\ stream.pc = "none" /\ ~timer /\ connection = "reconnecting"

\* A page that shows a run keeps coming back to the end of the ledger, to a rest, or to an honest
\* unavailable: expired cursors and stale snapshots do not keep it recovering for ever.
EventuallyCurrent ==
    []<>(phase # "live" \/ connection = "unavailable" \/ cursor = ledger)

\* What docs/DATA_MODEL.md:1021 and docs/TECHNICAL_DESIGN.md:2225 say of "reconnecting": a retry
\* from the last cursor is under way.  The code breaks it: the read of a run's end may close the stream of a page that was
\* reconnecting, and leaves the word standing.
ReconnectingHasStream == connection = "reconnecting" => recovering \/ stream.pc # "none"
=============================================================================
