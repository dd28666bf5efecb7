------------------------ MODULE ChatEngine_proofs ------------------------
(* What the view of the tab promises: its run machine, its flags, its stream and its read.  The      *)
(* first half says what every function and handler of the engine does to each field of the view;     *)
(* Sound(tab) is inductive relative to IInv, for every value of the constants and set of faults;        *)
(* Loading and Recovers say what a step may do to the two flags and their read; Mirrors, where the      *)
(* storage works, that no open record is out of sight; Guided(tab) with Told, where no conversation is  *)
(* deleted elsewhere, that the run shown is followed.                                                  *)
EXTENDS ChatSubmission_proofs

(* What the engine's operators do to the fields of a view *)

Who(e, f) ==
    /\ f.active = e.active /\ f.pending = e.pending /\ f.deferred = e.deferred
    /\ f.broken = e.broken /\ f.unsaved = e.unsaved
Where(e, f) == f.position = e.position /\ f.ended = e.ended /\ f.steers = e.steers
Linked(e, f) == f.stream = e.stream /\ f.connection = e.connection
Waiting(e, f) == f.hydrating = e.hydrating /\ f.recovering = e.recovering

\* The fields that an operator leaves alone, but for the machine, the read and the stop.
Alike(e, f) == Who(e, f) /\ Where(e, f) /\ Linked(e, f) /\ Waiting(e, f)

\* What cancelRun's thread !== readThread does to each field of the view.
LEMMA TouchFields ==
    ASSUME NEW e \in Engine
    PROVE  LET f == Touch(e) IN
           /\ f \in Engine /\ Alike(e, f) /\ f.machine = e.machine /\ f.stop = e.stop
           /\ f.read = IF e.read.kind = "stop" THEN NoRead ELSE e.read
<1>1. Touch(e) \in Engine
  BY TouchType DEF Quiet
<1> QED
  BY <1>1, EngineFields DEF Touch, Alike, Who, Where, Linked, Waiting, EmptyEngine

\* What openStream does to each field of the view.
LEMMA OpenFields ==
    ASSUME NEW e \in Engine
    PROVE  LET f == Open(e) IN
           /\ f \in Engine /\ Who(e, f) /\ Where(e, f) /\ Waiting(e, f)
           /\ f.machine = e.machine /\ f.stop = e.stop /\ f.read = e.read
           /\ f.stream = "connecting" /\ f.connection = e.connection
<1>1. Open(e) \in Engine
  BY OpenType DEF Quiet
<1> QED
  BY <1>1, EngineFields DEF Open, Who, Where, Waiting, EmptyEngine

\* What exposeUnconfirmedSubmission does to each field of the view.
LEMMA ExposeFields ==
    ASSUME NEW e \in Engine
    PROVE  LET f == Expose(e) IN
           /\ f \in Engine /\ Alike(e, f) /\ f.stop = e.stop /\ f.read = e.read
           /\ f.machine = IF HasPending(e) /\ e.machine.phase = "idle" THEN FAIL("unknown") ELSE e.machine
<1>1. Expose(e) \in Engine
  BY ExposeType DEF Quiet
<1> QED
  BY <1>1, EngineFields DEF Expose, Alike, Who, Where, Linked, Waiting, EmptyEngine

\* What the read's await does to each field of the view.
LEMMA AnsweredFields ==
    ASSUME NEW e \in Engine
    PROVE  LET f == Answered(e) IN
           /\ f \in Engine /\ Alike(e, f) /\ f.machine = e.machine /\ f.stop = e.stop
           /\ f.read = NoRead
<1>1. Answered(e) \in Engine
  BY AnsweredType DEF Quiet
<1> QED
  BY <1>1, EngineFields DEF Answered, Alike, Who, Where, Linked, Waiting, EmptyEngine

\* A read in flight that is given up.
GivesUpRead(e, f) ==
    /\ Who(e, f) /\ Where(e, f) /\ f.stop = e.stop /\ f.stream = e.stream
    /\ f.machine = IF e.read.kind = "hydrate" THEN FAIL("failed") ELSE e.machine
    /\ f.hydrating = IF e.read.kind = "hydrate" THEN FALSE ELSE e.hydrating
    /\ f.recovering = IF e.read.kind = "recover" THEN FALSE ELSE e.recovering
    /\ f.connection = IF e.read.kind = "recover" THEN "unavailable" ELSE e.connection

\* What fetchSnapshot does to each field of the view.
LEMMA AbortReadFields ==
    ASSUME NEW e \in Engine
    PROVE  AbortRead(e) \in Engine /\ GivesUpRead(e, AbortRead(e)) /\ AbortRead(e).read = e.read
<1>1. AbortRead(e) \in Engine
  BY AbortReadType DEF Quiet
<1>2. CASE e.read.kind = "hydrate"
  BY <1>1, <1>2, EngineFields DEF AbortRead, GivesUpRead, Who, Where, EmptyEngine
<1>3. CASE e.read.kind = "recover"
  BY <1>1, <1>3, EngineFields DEF AbortRead, GivesUpRead, Who, Where, EmptyEngine
<1>4. CASE e.read.kind \notin {"hydrate", "recover"}
  BY <1>1, <1>4 DEF AbortRead, GivesUpRead, Who, Where
<1> QED
  BY <1>2, <1>3, <1>4

\* What fetchSnapshot for a run's end or a stop does to each field of the view.
LEMMA ReadOwnerFields ==
    ASSUME NEW e \in Engine, NEW kind \in {"sync", "stop"}, NEW run \in SomeKey, NEW ended \in KeySets,
           NEW cursor \in Nat
    PROVE  LET f == ReadOwner(e, kind, run, ended, cursor) IN
           /\ f \in Engine /\ GivesUpRead(e, f)
           /\ f.read = [kind |-> kind, at |-> Travelling, run |-> run, ended |-> ended, cursor |-> cursor]
<1> DEFINE a == AbortRead(e)
           r == [kind |-> kind, at |-> Travelling, run |-> run, ended |-> ended, cursor |-> cursor]
           f == ReadOwner(e, kind, run, ended, cursor)
<1>1. a \in Engine /\ GivesUpRead(e, a)
  BY AbortReadFields
<1>2. f \in Engine
  BY ReadOwnerType DEF Quiet
<1>3. f = [a EXCEPT !.read = r]
  BY DEF ReadOwner
<1> HIDE DEF a, r, f
<1>4. /\ f.read = r /\ Alike(a, f) /\ f.machine = a.machine /\ f.stop = a.stop
  BY <1>1, <1>2, <1>3, EngineFields DEF Alike, Who, Where, Linked, Waiting, EmptyEngine
<1> QED
  BY <1>1, <1>2, <1>4 DEF f, r, Alike, GivesUpRead, Who, Where, Linked, Waiting

\* What hydrate does to each field of the view.
LEMMA HydrateFields ==
    ASSUME NEW e \in Engine, NEW kind \in {"hydrate", "recover"}
    PROVE  LET f == Hydrate(e, kind) IN
           /\ f \in Engine /\ Who(e, f) /\ Linked(e, f) /\ f.position = e.position
           /\ f.ended = {} /\ f.steers = {} /\ f.stop = NoStop /\ f.machine = e.machine
           /\ f.recovering = e.recovering
           /\ f.hydrating = IF kind = "hydrate" THEN TRUE ELSE e.hydrating
           /\ f.read.kind = kind /\ f.read.at = Travelling
<1> DEFINE r == [NoRead EXCEPT !.kind = kind, !.at = Travelling]
<1>1. Hydrate(e, kind) \in Engine
  BY HydrateType DEF Quiet
<1>2. Hydrate(e, kind).read = r
  BY <1>1, EngineFields DEF Hydrate, EmptyEngine
<1>3. r.kind = kind /\ r.at = Travelling
  BY DEF NoRead
<1> HIDE DEF r
<1>4. Hydrate(e, kind).hydrating = IF kind = "hydrate" THEN TRUE ELSE e.hydrating
  <2>1. e.hydrating \in BOOLEAN
    BY EngineType
  <2>2. Hydrate(e, kind).hydrating = (e.hydrating \/ kind = "hydrate")
    BY <1>1, EngineFields DEF Hydrate, EmptyEngine
  <2> QED
    BY <2>1, <2>2
<1> QED
  BY <1>1, <1>2, <1>3, <1>4, EngineFields DEF Hydrate, Who, Linked, EmptyEngine

\* What observeSnapshotTerminals does to each field of the view.
LEMMA ObserveFields ==
    ASSUME NEW e \in Engine, NEW view \in Seq(Event)
    PROVE  LET f == Observe(e, view) IN
           /\ f \in Engine /\ Who(e, f) /\ Linked(e, f) /\ Waiting(e, f) /\ f.position = e.position
           /\ f.steers = e.steers /\ f.stop = e.stop /\ f.machine = e.machine /\ f.read = e.read
           /\ e.ended \subseteq f.ended /\ (HasPending(e) => Terminals(view) \subseteq f.ended)
<1>1. Observe(e, view) \in Engine
  BY ObserveType DEF Quiet
<1> QED
  BY <1>1, EngineFields DEF Observe, Who, Linked, Waiting, EmptyEngine

\* What hydrate's REATTACH does to each field of the view.
LEMMA ReattachedFields ==
    ASSUME NEW e \in Engine, NEW view \in Seq(Event)
    PROVE  LET f == Reattached(e, view) IN
           /\ f \in Engine /\ Alike(e, f) /\ f.stop = e.stop /\ f.read = e.read
           /\ f.machine = IF ExecutionHead(view) = NoKey THEN e.machine
                          ELSE REATTACH(e.machine, ExecutionHead(view), HeadState(view))
<1>1. Reattached(e, view) \in Engine
  BY ReattachedType DEF Quiet
<1> DEFINE m == REATTACH(e.machine, ExecutionHead(view), HeadState(view))
<1>2. CASE ExecutionHead(view) = NoKey \/ m = e.machine
  BY <1>1, <1>2 DEF Reattached, Alike, Who, Where, Linked, Waiting
<1>3. CASE ~(ExecutionHead(view) = NoKey \/ m = e.machine)
  <2>1. Reattached(e, view) = [e EXCEPT !.machine = m, !.timer = ExecutionHead(view)]
    BY <1>3 DEF Reattached
  <2> HIDE DEF m
  <2>2. /\ Alike(e, Reattached(e, view)) /\ Reattached(e, view).stop = e.stop
        /\ Reattached(e, view).read = e.read /\ Reattached(e, view).machine = m
    BY <1>1, <2>1, EngineFields DEF Alike, Who, Where, Linked, Waiting, EmptyEngine
  <2> QED
    BY <1>1, <1>3, <2>2 DEF m
<1> QED
  BY <1>2, <1>3

\* The machine that shows the owner's head, over a tab at rest.
HeadMachine(m, view) ==
    IF ExecutionHead(view) = NoKey THEN m ELSE REATTACH(m, ExecutionHead(view), HeadState(view))

\* What adoptOwnerSnapshot does to each field of the view.
LEMMA AdoptFields ==
    ASSUME NEW e \in Engine, NEW view \in Seq(Event)
    PROVE  LET f == Adopt(e, view)
               m == HeadMachine(IdleMachine, view)
           IN
           /\ f \in Engine /\ Who(e, f) /\ Waiting(e, f) /\ f.position = Len(view)
           /\ f.steers = e.steers /\ f.stop = e.stop /\ f.read = e.read
           /\ e.ended \subseteq f.ended /\ (HasPending(e) => Terminals(view) \subseteq f.ended)
           /\ f.machine = IF HasPending(e) /\ m.phase = "idle" THEN FAIL("unknown") ELSE m
           /\ f.stream = IF ExecutionHead(view) # NoKey THEN "connecting" ELSE "closed"
           /\ f.connection = IF ExecutionHead(view) # NoKey THEN e.connection ELSE "connected"
<1> DEFINE o == Observe(e, view)
           b == [o EXCEPT !.machine = IdleMachine, !.stream = "closed", !.timer = NoKey,
                          !.position = Len(view)]
           a == Reattached(b, view)
           c == [a EXCEPT !.connection = "connected"]
           d == IF ExecutionHead(view) # NoKey THEN Open(a) ELSE c
           f == Adopt(e, view)
<1>1. /\ o \in Engine /\ Who(e, o) /\ Linked(e, o) /\ Waiting(e, o)
      /\ o.steers = e.steers /\ o.stop = e.stop /\ o.read = e.read
      /\ e.ended \subseteq o.ended /\ (HasPending(e) => Terminals(view) \subseteq o.ended)
  BY ObserveFields
<1> HIDE DEF o
<1>2. /\ b \in Engine /\ Who(o, b) /\ Waiting(o, b) /\ b.steers = o.steers /\ b.stop = o.stop /\ b.read = o.read
      /\ b.ended = o.ended /\ b.position = Len(view) /\ b.machine = IdleMachine /\ b.stream = "closed"
      /\ b.connection = o.connection
  <2>1. Len(view) \in Nat
    BY SeqFacts
  <2>2. b \in Engine
    BY <1>1, <2>1, EngineType, Values, MachineTypes
  <2> QED
    BY <1>1, <2>2, EngineFields DEF Who, Waiting, EmptyEngine
<1> HIDE DEF b
<1>3. /\ a \in Engine /\ Alike(b, a) /\ a.stop = b.stop /\ a.read = b.read
      /\ a.machine = HeadMachine(IdleMachine, view)
  BY <1>2, ReattachedFields DEF HeadMachine
<1> HIDE DEF a
<1>4. /\ c \in Engine /\ Who(a, c) /\ Where(a, c) /\ Waiting(a, c) /\ c.stop = a.stop /\ c.read = a.read
      /\ c.machine = a.machine /\ c.stream = a.stream /\ c.connection = "connected"
  <2>1. c \in Engine
    BY <1>3, EngineType, Values
  <2> QED
    BY <1>3, <2>1, EngineFields DEF Who, Where, Waiting, EmptyEngine
<1> HIDE DEF c
<1>5. /\ d \in Engine /\ Who(a, d) /\ Where(a, d) /\ Waiting(a, d) /\ d.stop = a.stop /\ d.read = a.read
      /\ d.machine = a.machine
      /\ d.stream = IF ExecutionHead(view) # NoKey THEN "connecting" ELSE a.stream
      /\ d.connection = IF ExecutionHead(view) # NoKey THEN a.connection ELSE "connected"
  BY <1>3, <1>4, OpenFields
<1>6. f = Expose(d)
  BY DEF Adopt, d, c, a, b, o
<1> HIDE DEF d, f
<1>7. /\ f \in Engine /\ Alike(d, f) /\ f.stop = d.stop /\ f.read = d.read
      /\ f.machine = IF HasPending(d) /\ d.machine.phase = "idle" THEN FAIL("unknown") ELSE d.machine
  BY <1>5, <1>6, ExposeFields
<1>8. /\ Who(e, d) /\ Waiting(e, d) /\ d.position = Len(view) /\ d.steers = e.steers
      /\ d.stop = e.stop /\ d.read = e.read /\ d.ended = o.ended
      /\ d.machine = HeadMachine(IdleMachine, view)
      /\ d.stream = IF ExecutionHead(view) # NoKey THEN "connecting" ELSE "closed"
      /\ d.connection = IF ExecutionHead(view) # NoKey THEN e.connection ELSE "connected"
  BY <1>1, <1>2, <1>3, <1>5 DEF Alike, Who, Where, Waiting, Linked
<1>9. HasPending(d) <=> HasPending(e)
  BY <1>8 DEF HasPending, Who
<1>10. /\ Who(e, f) /\ Waiting(e, f) /\ f.position = Len(view) /\ f.steers = e.steers
       /\ f.stop = e.stop /\ f.read = e.read /\ f.ended = o.ended
       /\ f.stream = d.stream /\ f.connection = d.connection
  BY <1>7, <1>8 DEF Alike, Who, Where, Waiting, Linked
<1> QED
  BY <1>1, <1>7, <1>8, <1>9, <1>10 DEF f

\* What applyRecoveredReceipt does to each field of the view.
LEMMA RecoveredFields ==
    ASSUME NEW e \in Engine, NEW settled \in BOOLEAN, HasPending(e)
    PROVE  LET f == Recovered(e, settled)
               m == IF settled /\ e.machine.run = NoKey THEN IdleMachine ELSE e.machine
           IN
           /\ f \in Engine /\ f.pending = NoPending /\ ~f.deferred
           /\ f.active = e.active /\ f.broken = e.broken /\ f.unsaved = e.unsaved
           /\ Where(e, f) /\ Linked(e, f) /\ Waiting(e, f) /\ f.stop = e.stop
           /\ f.read = IF e.read.kind = "stop" THEN NoRead ELSE e.read
           /\ f.machine = IF m.phase = "idle" /\ ~settled THEN RECEIPT(SUBMIT(m), e.pending.key) ELSE m
<1> DEFINE f == Recovered(e, settled)
           m == IF settled /\ e.machine.run = NoKey THEN IdleMachine ELSE e.machine
           n == IF m.phase = "idle" /\ ~settled THEN RECEIPT(SUBMIT(m), e.pending.key) ELSE m
           t == Touch(e)
<1>1. t \in Engine /\ Alike(e, t) /\ t.stop = e.stop /\ t.read = IF e.read.kind = "stop" THEN NoRead ELSE e.read
  BY TouchFields
<1>2. f = [t EXCEPT !.pending = NoPending, !.retryError = "none", !.deferred = FALSE, !.machine = n]
  BY DEF Recovered
<1>3. f \in Engine
  BY RecoveredType DEF Dropped
<1> HIDE DEF n, t, f
<1>4. /\ f.pending = NoPending /\ ~f.deferred /\ f.active = t.active /\ f.broken = t.broken
      /\ f.unsaved = t.unsaved /\ Where(t, f) /\ Linked(t, f) /\ Waiting(t, f) /\ f.stop = t.stop
      /\ f.read = t.read /\ f.machine = n
  BY <1>1, <1>2, <1>3, EngineFields DEF Where, Linked, Waiting, EmptyEngine
<1>5. /\ f.active = e.active /\ f.broken = e.broken /\ f.unsaved = e.unsaved
      /\ Where(e, f) /\ Linked(e, f) /\ Waiting(e, f) /\ f.stop = e.stop
  BY <1>1, <1>4 DEF Alike, Who, Where, Linked, Waiting
<1> QED
  BY <1>1, <1>3, <1>4, <1>5 DEF n, f

\* The engine that opens a view of its conversation.
LEMMA ActivateFields ==
    ASSUME NEW e \in Engine, NEW c \in Convs, NEW hydrate \in BOOLEAN, NEW works \in BOOLEAN,
           slot \in [Convs -> Slot]
    PROVE  LET f == Activate(e, c, hydrate, works) IN
           /\ f \in Engine /\ f.active = c /\ f.position = 0 /\ f.ended = {} /\ f.steers = {} /\ f.stop = NoStop
           /\ ~f.deferred /\ f.stream = "closed" /\ ~f.recovering /\ f.unsaved = e.unsaved
           /\ f.broken = ~works /\ f.connection = IF works THEN "connected" ELSE "unavailable"
           /\ \/ /\ f.pending = NoPending /\ (works => slot[c].state # "pending")
                 /\ f.machine = IF works THEN IdleMachine ELSE FAIL("local")
              \/ /\ works /\ slot[c].state = "pending" /\ f.pending = [key |-> slot[c].key, id |-> 0]
                 /\ \E error \in {"unknown", "failed"} : f.machine = FAIL(error)
           /\ \/ ~f.hydrating /\ f.read = NoRead
              \/ works /\ f.hydrating /\ f.read.kind = "hydrate" /\ f.read.at = Travelling
<1> DEFINE k == Cleared(e)
           v == [k EXCEPT !.active = c, !.prepared = NoKey, !.recovering = FALSE]
           r == RestoreSubmission(v, works)
           f == Activate(e, c, hydrate, works)
           s == slot[c]
           error == IF s.code = "none" THEN "unknown" ELSE s.code
<1>1. /\ k \in Engine /\ k.pending = NoPending /\ ~k.deferred /\ k.unsaved = e.unsaved /\ k.position = 0
      /\ k.ended = {} /\ k.steers = {} /\ k.stop = NoStop /\ k.stream = "closed"
      /\ k.machine = IdleMachine /\ k.connection = "connected" /\ ~k.hydrating /\ k.read = NoRead
  <2>1. k \in Engine
    BY ClearedType
  <2> QED
    BY <2>1, EngineFields DEF Cleared, EmptyEngine
<1> HIDE DEF k
<1>2. /\ v \in Engine /\ v.active = c /\ v.pending = NoPending /\ ~v.deferred /\ v.unsaved = e.unsaved
      /\ v.position = 0 /\ v.ended = {} /\ v.steers = {} /\ v.stop = NoStop /\ v.stream = "closed"
      /\ v.machine = IdleMachine /\ v.connection = "connected" /\ ~v.hydrating /\ v.read = NoRead
      /\ ~v.recovering
  <2>1. v \in Engine
    BY <1>1, EngineType, Values
  <2> QED
    BY <1>1, <2>1, EngineFields DEF EmptyEngine
<1> HIDE DEF v
<1>3. r \in Engine
  BY <1>2, RestoreType DEF Rested
<1>4. /\ r.active = c /\ r.position = 0 /\ r.ended = {} /\ r.steers = {} /\ r.stop = NoStop
      /\ ~r.deferred /\ r.stream = "closed" /\ ~r.recovering /\ r.unsaved = e.unsaved
      /\ r.read = NoRead /\ ~r.hydrating
      /\ r.broken = ~works /\ r.connection = IF works THEN "connected" ELSE "unavailable"
      /\ \/ /\ r.pending = NoPending /\ (works => s.state # "pending")
            /\ r.machine = IF works THEN IdleMachine ELSE FAIL("local")
         \/ /\ works /\ s.state = "pending" /\ r.pending = [key |-> s.key, id |-> 0]
            /\ r.machine = FAIL(error)
  <2> DEFINE p == [key |-> s.key, id |-> 0]
  <2>1. CASE ~works
    <3>1. r = [v EXCEPT !.broken = TRUE, !.connection = "unavailable", !.machine = FAIL("local")]
      BY <2>1 DEF RestoreSubmission
    <3> HIDE DEF r
    <3> QED
      BY <1>2, <1>3, <2>1, <3>1, EngineFields DEF EmptyEngine
  <2>2. CASE works /\ s.state = "pending"
    <3>1. r = [v EXCEPT !.broken = FALSE, !.pending = p, !.machine = FAIL(error)]
      BY <1>2, <2>2 DEF RestoreSubmission
    <3> HIDE DEF r, p, error
    <3>2. r.pending = p /\ r.machine = FAIL(error)
      BY <1>2, <1>3, <3>1, EngineFields DEF EmptyEngine
    <3> QED
      BY <1>2, <1>3, <2>2, <3>1, <3>2, EngineFields DEF EmptyEngine, p
  <2>3. CASE works /\ s.state # "pending"
    <3>1. r = [v EXCEPT !.broken = FALSE]
      BY <1>2, <2>3 DEF RestoreSubmission
    <3> HIDE DEF r
    <3> QED
      BY <1>2, <1>3, <2>3, <3>1, EngineFields DEF EmptyEngine
  <2> QED
    BY <2>1, <2>2, <2>3
<1>5. error \in {"unknown", "failed"}
  BY DEF Slot
<1>6. \/ f = r
      \/ works /\ f = Hydrate(r, "hydrate")
  BY <1>4 DEF Activate, r, v, k
<1> HIDE DEF r, f, s, error
<1>7. CASE f = r
  BY <1>3, <1>4, <1>5, <1>7 DEF f, s
<1>8. CASE works /\ f = Hydrate(r, "hydrate")
  <2>1. /\ f \in Engine /\ Who(r, f) /\ Linked(r, f) /\ f.position = r.position
        /\ f.ended = {} /\ f.steers = {} /\ f.stop = NoStop /\ f.machine = r.machine
        /\ f.recovering = r.recovering /\ f.hydrating
        /\ f.read.kind = "hydrate" /\ f.read.at = Travelling
    BY <1>3, <1>8, HydrateFields
  <2> QED
    BY <1>4, <1>5, <1>8, <2>1 DEF f, s, Who, Linked
<1> QED
  BY <1>6, <1>7, <1>8

(* What the user's commands do to a view *)

\* A read that closes a stop is not answered for a run that was touched.
Touched(read) == IF read.kind = "stop" THEN NoRead ELSE read

\* submit at rest.
SubmitView(c, k) ==
    /\ tab' \in Engine /\ tab'.active = c /\ tab.active \in {c, NoConv}
    /\ Resting(tab.machine) /\ ~HasPending(tab)
    /\ ~tab.recovering /\ tab.connection = "connected" /\ ~tab.broken /\ ~tab'.broken
    /\ Where(tab, tab') /\ Linked(tab, tab') /\ Waiting(tab, tab') /\ tab.drawn \subseteq tab'.drawn
    /\ \/ /\ tab'.pending.key = k /\ ~tab'.deferred /\ tab'.read = Touched(tab.read)
          /\ tab'.machine = SUBMIT(tab.machine)
       \/ /\ tab'.pending = tab.pending /\ tab'.deferred = tab.deferred /\ tab'.read = tab.read
          /\ tab'.machine = tab.machine

\* What sending a message (submit) does to each field of the view.
LEMMA SubmitFields == ASSUME IInv, NEW c \in Convs, NEW k \in Keys, Submit(c, k) PROVE SubmitView(c, k)
<1>1. PICK flushes \in BOOLEAN, saves \in BOOLEAN, retires \in BOOLEAN :
        LET flushed == Flushed(tab, slot)
            opened == IF tab.active # NoConv THEN [tab EXCEPT !.unsaved = {}, !.prepared = k]
                      ELSE [tab EXCEPT !.unsaved = {}, !.prepared = k, !.active = c, !.list = {c},
                                       !.drafts = {c}, !.drawn = @ \cup {c}]
            isSaved == CanSave(flushed[c], k, saves)
            retired == c \in opened.drafts => retires
        IN /\ tab.unsaved # {} => flushes
           /\ slot' = IF isSaved THEN [flushed EXCEPT ![c] = Saved(@, k)] ELSE flushed
           /\ past' = [past EXCEPT !.home[k] = c, !.saved = IF isSaved THEN @ \cup {k} ELSE @]
           /\ IF isSaved /\ retired
              THEN /\ tab' = Begun(Touch([opened EXCEPT !.drafts = @ \ {c}]), k)
                   /\ calls' = NewCall(k, c, "create")
              ELSE /\ tab' = opened
                   /\ UNCHANGED calls
  BY DEF Submit, Works
<1> DEFINE drawn == tab.drawn \cup {c}
           opened == IF tab.active # NoConv THEN [tab EXCEPT !.unsaved = {}, !.prepared = k]
                     ELSE [tab EXCEPT !.unsaved = {}, !.prepared = k, !.active = c, !.list = {c},
                                      !.drafts = {c}, !.drawn = drawn]
           drafts == opened.drafts \ {c}
           o == [opened EXCEPT !.drafts = drafts]
           t == Touch(o)
           p == [key |-> k, id |-> Len(calls) + 1]
           m == SUBMIT(t.machine)
           b == [t EXCEPT !.pending = p, !.prepared = NoKey, !.deferred = FALSE, !.retryError = "none",
                          !.machine = m]
<1>2. tab \in Engine
  BY DEF IInv, TypeOK
<1>3. /\ ~HasPending(tab) /\ ~tab.broken /\ tab.active \in {c, NoConv} /\ Resting(tab.machine)
      /\ ~tab.recovering /\ tab.connection = "connected"
  BY DEF Submit, CanSubmitMessage, Resting
<1>4. drawn \in ConvSets /\ {c} \in ConvSets /\ k \in SomeKey /\ c \in SomeConv
  <2>1. tab.drawn \in ConvSets
    BY <1>2, EngineType
  <2> QED
    BY <2>1, ConvSetType, Values
<1>5. tab' = b \/ tab' = opened
  <2>1. Begun(t, k) = b
    BY DEF Begun
  <2> HIDE DEF opened
  <2> QED
    BY <1>1, <2>1 DEF opened
<1> HIDE DEF drawn
<1>6. /\ opened \in Engine /\ opened.active = c /\ opened.pending = tab.pending
      /\ opened.deferred = tab.deferred /\ ~opened.broken
      /\ Where(tab, opened) /\ Linked(tab, opened) /\ Waiting(tab, opened)
      /\ tab.drawn \subseteq opened.drawn
      /\ opened.machine = tab.machine /\ opened.read = tab.read
  <2>1. opened \in Engine
    BY <1>2, <1>4, EngineType, Values
  <2>2. opened.drawn \in {tab.drawn, drawn} /\ tab.drawn \subseteq drawn
    <3>1. opened.drawn \in {tab.drawn, drawn}
      BY <1>2, <2>1, EngineFields DEF EmptyEngine
    <3> QED
      BY <3>1 DEF drawn
  <2> QED
    BY <1>2, <1>3, <2>1, <2>2, EngineFields DEF EmptyEngine, Where, Linked, Waiting
<1> HIDE DEF opened
<1>7. /\ o \in Engine /\ Alike(opened, o) /\ o.machine = opened.machine /\ o.read = opened.read
      /\ o.drawn = opened.drawn
  <2>1. drafts \in ConvSets
    BY <1>6, EngineType DEF ConvSets
  <2> HIDE DEF drafts
  <2>2. o \in Engine
    BY <1>6, <2>1, EngineType
  <2> QED
    BY <1>6, <2>2, EngineFields DEF EmptyEngine, Alike, Who, Where, Linked, Waiting
<1> HIDE DEF o
<1>8. t \in Engine /\ Alike(o, t) /\ t.machine = o.machine /\ t.read = Touched(o.read) /\ t.drawn = o.drawn
  BY <1>7, TouchFields, TouchType DEF Touched, Quiet, Kept
<1> HIDE DEF t
<1>9. CASE tab' = b
  <2>1. tab' \in Engine
    BY SubmitFoot DEF SubmitStep
  <2> HIDE DEF p, m
  <2>2. /\ b.active = t.active /\ b.pending = p /\ ~b.deferred /\ b.machine = m /\ b.read = t.read
        /\ b.broken = t.broken /\ b.drawn = t.drawn /\ Where(t, b) /\ Linked(t, b) /\ Waiting(t, b)
    BY <1>8, <1>9, <2>1, EngineFields DEF EmptyEngine, Where, Linked, Waiting
  <2>3. p.key = k /\ m = SUBMIT(t.machine)
    BY DEF p, m
  <2> HIDE DEF b
  <2> QED
    BY <1>3, <1>6, <1>7, <1>8, <1>9, <2>1, <2>2, <2>3 DEF SubmitView, Alike, Who, Where, Linked, Waiting
<1>10. CASE tab' = opened
  BY <1>3, <1>6, <1>10 DEF SubmitView
<1> QED
  BY <1>5, <1>9, <1>10

SteerView(k) ==
    /\ tab' \in Engine /\ tab'.active = tab.active /\ tab.active \in Convs
    /\ ~Resting(tab.machine) /\ ~tab.recovering /\ tab.connection = "connected"
    /\ tab'.pending = tab.pending /\ tab'.deferred = tab.deferred /\ tab'.broken = tab.broken
    /\ tab'.position = tab.position /\ tab'.ended = tab.ended /\ tab'.steers = tab.steers \cup {k}
    /\ Linked(tab, tab') /\ Waiting(tab, tab')
    /\ tab'.machine = tab.machine /\ tab'.read = Touched(tab.read)

\* What sending a message during a run (submit, run shown) does to each field of the view.
LEMMA SteerFields == ASSUME IInv, NEW k \in Keys, Steer(k) PROVE SteerView(k)
<1> DEFINE steers == tab.steers \cup {k}
           drafts == tab.drafts \ {tab.active}
           e == [tab EXCEPT !.unsaved = {}, !.steers = steers, !.drafts = drafts]
<1>1. tab \in Engine /\ tab.active \in Convs
  BY Awake DEF IInv, TypeOK, Steer, Resting
<1>2. steers \in KeySets /\ drafts \in ConvSets
  BY <1>1, EngineType DEF KeySets, ConvSets
<1>3. tab' = Touch(e)
  BY DEF Steer
<1> HIDE DEF steers, drafts
<1>4. e \in Engine
  BY <1>1, <1>2, EngineType, Values
<1>5. /\ e.active = tab.active /\ e.pending = tab.pending /\ e.deferred = tab.deferred
      /\ e.broken = tab.broken /\ e.position = tab.position /\ e.ended = tab.ended /\ e.steers = steers
      /\ Linked(tab, e) /\ Waiting(tab, e) /\ e.machine = tab.machine /\ e.read = tab.read
  BY <1>1, <1>4, EngineFields DEF Linked, Waiting, EmptyEngine
<1> HIDE DEF e
<1>6. tab' \in Engine /\ Alike(e, tab') /\ tab'.machine = e.machine /\ tab'.read = Touched(e.read)
  BY <1>3, <1>4, TouchFields DEF Touched
<1>7. ~tab.recovering /\ tab.connection = "connected" /\ ~Resting(tab.machine)
  BY DEF Steer, CanSubmitMessage
<1> QED
  BY <1>1, <1>5, <1>6, <1>7 DEF SteerView, Alike, Who, Where, Linked, Waiting, steers

RetryKnownView ==
    /\ tab' \in Engine /\ tab'.active = tab.active /\ tab.active \in Convs
    /\ tab.machine.phase = "error" /\ HasPending(tab)
    /\ ~tab.hydrating /\ ~tab.recovering /\ tab.connection = "connected" /\ ~tab.broken /\ ~tab'.broken
    /\ tab'.pending = NoPending /\ ~tab'.deferred
    /\ Linked(tab, tab') /\ ~tab'.recovering /\ tab'.hydrating
    /\ tab'.position = tab.position /\ tab'.ended = {} /\ tab'.steers = {}
    /\ tab'.machine = IdleMachine /\ tab'.read.kind = "hydrate" /\ tab'.read.at = Travelling

\* What abandonPendingSubmission does to each field of the view.
LEMMA ForgottenFields ==
    ASSUME NEW e \in Engine
    PROVE  LET f == Forgotten(e) IN
           /\ f \in Engine /\ f.active = e.active /\ f.broken = e.broken /\ f.unsaved = e.unsaved
           /\ f.pending = NoPending /\ ~f.deferred /\ f.prepared = NoKey
           /\ Where(e, f) /\ Linked(e, f) /\ Waiting(e, f)
           /\ f.machine = e.machine /\ f.read = e.read /\ f.stop = e.stop
<1>1. Forgotten(e) \in Engine
  BY ForgottenType DEF Dropped
<1> QED
  BY <1>1, EngineFields DEF Forgotten, Where, Linked, Waiting, EmptyEngine

\* What the retry of a message whose receipt is known (reconcileKnownReceipt) does to each field of
\* the view.
LEMMA RetryKnownFields == ASSUME IInv, RetryKnown PROVE RetryKnownView
<1> DEFINE t == Touch(tab)
           g == Forgotten(t)
           u == g.unsaved \ {tab.pending.key}
           h == [g EXCEPT !.unsaved = u, !.machine = IdleMachine]
<1>1. tab \in Engine /\ tab.active \in Convs
  BY Awake DEF IInv, TypeOK, RetryKnown, CanRetryPending
<1>2. tab' = Hydrate(h, "hydrate")
  BY DEF RetryKnown
<1>3. t \in Engine /\ Alike(tab, t)
  BY <1>1, TouchFields
<1> HIDE DEF t
<1>4. /\ g \in Engine /\ g.active = t.active /\ g.broken = t.broken
      /\ g.pending = NoPending /\ ~g.deferred /\ Where(t, g) /\ Linked(t, g) /\ Waiting(t, g)
  BY <1>3, ForgottenFields
<1> HIDE DEF g
<1>5. /\ h \in Engine /\ h.active = g.active /\ h.broken = g.broken /\ h.pending = g.pending
      /\ h.deferred = g.deferred /\ Where(g, h) /\ Linked(g, h) /\ Waiting(g, h)
      /\ h.machine = IdleMachine
  <2>1. u \in KeySets
    BY <1>4, EngineType DEF KeySets
  <2> HIDE DEF u
  <2>2. h \in Engine
    BY <1>4, <2>1, EngineType, MachineTypes
  <2> QED
    BY <1>4, <2>2, EngineFields DEF Where, Linked, Waiting, EmptyEngine
<1> HIDE DEF h
<1>6. /\ tab' \in Engine /\ Who(h, tab') /\ Linked(h, tab') /\ tab'.position = h.position
      /\ tab'.ended = {} /\ tab'.steers = {} /\ tab'.machine = h.machine
      /\ tab'.recovering = h.recovering /\ tab'.hydrating
      /\ tab'.read.kind = "hydrate" /\ tab'.read.at = Travelling
  BY <1>2, <1>5, HydrateFields
<1>7. /\ ~tab.hydrating /\ ~tab.recovering /\ ~tab.broken /\ tab.connection = "connected"
      /\ tab.machine.phase = "error" /\ HasPending(tab)
  BY DEF RetryKnown, CanRetryPending
<1> QED
  BY <1>1, <1>3, <1>4, <1>5, <1>6, <1>7 DEF RetryKnownView, Alike, Who, Where, Linked, Waiting

RetryView ==
    /\ tab' \in Engine /\ tab'.active = tab.active /\ tab.active \in Convs
    /\ tab.machine.phase = "error" /\ HasPending(tab)
    /\ ~tab.hydrating /\ ~tab.recovering /\ tab.connection = "connected" /\ ~tab.broken /\ ~tab'.broken
    /\ tab'.pending.key = tab.pending.key /\ ~tab'.deferred
    /\ Where(tab, tab') /\ Linked(tab, tab') /\ Waiting(tab, tab')
    /\ tab'.machine = SUBMIT(tab.machine) /\ tab'.read = tab.read

\* What posting a message again (retry) does to each field of the view.
LEMMA RetryFields == ASSUME IInv, Retry PROVE RetryView
<1> DEFINE drafts == tab.drafts \ {tab.active}
           e == [tab EXCEPT !.drafts = drafts]
           k == tab.pending.key
           p == [key |-> k, id |-> Len(calls) + 1]
           m == SUBMIT(e.machine)
           b == [e EXCEPT !.pending = p, !.prepared = NoKey, !.deferred = FALSE, !.retryError = "none",
                          !.machine = m]
<1>1. tab \in Engine /\ tab.active \in Convs
  BY Awake DEF IInv, TypeOK, Retry, CanRetryPending
<1>2. tab' = b
  BY DEF Retry, Begun
<1>3. /\ e \in Engine /\ Alike(tab, e) /\ e.machine = tab.machine /\ e.read = tab.read
  <2>1. drafts \in ConvSets
    BY <1>1, EngineType DEF ConvSets
  <2> HIDE DEF drafts
  <2>2. e \in Engine
    BY <1>1, <2>1, EngineType
  <2> QED
    BY <1>1, <2>2, EngineFields DEF EmptyEngine, Alike, Who, Where, Linked, Waiting
<1> HIDE DEF e
<1>4. tab' \in Engine
  BY RetryFoot DEF RetryStep, Home
<1>5. p.key = k /\ m = SUBMIT(e.machine)
  OBVIOUS
<1> HIDE DEF p, m
<1>6. /\ tab'.active = e.active /\ tab'.pending = p /\ ~tab'.deferred /\ tab'.machine = m
      /\ tab'.read = e.read /\ tab'.broken = e.broken
      /\ Where(e, tab') /\ Linked(e, tab') /\ Waiting(e, tab')
  BY <1>2, <1>3, <1>4, EngineFields DEF EmptyEngine, Where, Linked, Waiting
<1>7. /\ ~tab.hydrating /\ ~tab.recovering /\ ~tab.broken /\ tab.connection = "connected"
      /\ tab.machine.phase = "error" /\ HasPending(tab)
  BY DEF Retry, CanRetryPending
<1> HIDE DEF b
<1> QED
  BY <1>1, <1>3, <1>4, <1>5, <1>6, <1>7 DEF RetryView, Alike, Who, Where, Linked, Waiting

StopSubmissionView ==
    /\ tab' \in Engine /\ tab'.active = tab.active /\ tab.active \in Convs /\ tab'.broken = tab.broken
    /\ tab.machine.phase = "submitting"
    /\ tab'.pending = NoPending /\ ~tab'.deferred
    /\ Where(tab, tab') /\ Linked(tab, tab') /\ Waiting(tab, tab')
    /\ tab'.machine = IdleMachine /\ tab'.read = tab.read /\ tab'.drafts = tab.drafts

\* What giving a message up before its receipt (cancelPendingSubmission) does to each field of the
\* view.
LEMMA StopSubmissionFields == ASSUME IInv, StopSubmission PROVE StopSubmissionView
<1> DEFINE g == Forgotten(tab)
<1>1. tab \in Engine /\ tab.active \in Convs
  BY Awake DEF IInv, TypeOK, StopSubmission
<1>2. tab' = [g EXCEPT !.machine = IdleMachine]
  BY DEF StopSubmission
<1>3. /\ g \in Engine /\ g.active = tab.active /\ g.broken = tab.broken
      /\ g.pending = NoPending /\ ~g.deferred /\ Where(tab, g) /\ Linked(tab, g) /\ Waiting(tab, g)
      /\ g.read = tab.read /\ g.drafts = tab.drafts
  BY <1>1, ForgottenFields, ForgottenType DEF Dropped, Parted
<1> HIDE DEF g
<1>4. tab' \in Engine
  BY <1>2, <1>3, EngineType, MachineTypes
<1>5. /\ tab'.active = g.active /\ tab'.broken = g.broken /\ tab'.pending = g.pending
      /\ tab'.deferred = g.deferred /\ Where(g, tab') /\ Linked(g, tab') /\ Waiting(g, tab')
      /\ tab'.read = g.read /\ tab'.machine = IdleMachine /\ tab'.drafts = g.drafts
  BY <1>2, <1>3, <1>4, EngineFields DEF EmptyEngine, Where, Linked, Waiting
<1> QED
  BY <1>1, <1>3, <1>4, <1>5 DEF StopSubmission, StopSubmissionView, Where, Linked, Waiting

StopRunView ==
    /\ tab' \in Engine /\ Alike(tab, tab') /\ tab.active \in Convs
    /\ tab.machine.run # NoKey
    /\ tab'.machine = [CANCEL(tab.machine) EXCEPT !.error = "none"] /\ tab'.read = tab.read

\* What stopping the run shown (cancelRun) does to each field of the view.
LEMMA StopRunFields == ASSUME IInv, StopRun PROVE StopRunView
<1> DEFINE m == [CANCEL(tab.machine) EXCEPT !.error = "none"]
           s == [run |-> tab.machine.run, asked |-> TRUE, cursor |-> tab.position]
<1>1. tab \in Engine /\ tab.active \in Convs
  BY Awake DEF IInv, TypeOK, StopRun
<1>2. tab' \in Engine
  BY StopRunQuiet DEF QuietStep
<1>3. tab' = [tab EXCEPT !.machine = m, !.stop = s] /\ tab.machine.run # NoKey
  BY DEF StopRun
<1> HIDE DEF m, s
<1>4. Alike(tab, tab') /\ tab'.machine = m /\ tab'.read = tab.read
  BY <1>1, <1>2, <1>3, EngineFields DEF Alike, Who, Where, Linked, Waiting, EmptyEngine
<1> QED
  BY <1>1, <1>2, <1>3, <1>4 DEF StopRunView, m

\* A read of the owner's is asked for; one that is in flight is given up.
Asks(e, f) ==
    /\ f \in Engine /\ Who(e, f) /\ Where(e, f) /\ f.stream = e.stream
    /\ f.machine = IF e.read.kind = "hydrate" THEN FAIL("failed") ELSE e.machine
    /\ f.hydrating = IF e.read.kind = "hydrate" THEN FALSE ELSE e.hydrating
    /\ f.recovering = IF e.read.kind = "recover" THEN FALSE ELSE e.recovering
    /\ f.connection = IF e.read.kind = "recover" THEN "unavailable" ELSE e.connection
    /\ f.read.kind \in {"none", "sync", "stop"}

StopAnsweredView ==
    /\ tab.active \in Convs
    /\ \/ tab' \in Engine /\ Alike(tab, tab') /\ tab'.machine = tab.machine /\ tab'.read = tab.read
       \/ \E e \in Engine :
            /\ Alike(tab, e) /\ e.read = tab.read
            /\ e.machine \in {tab.machine, [tab.machine EXCEPT !.error = "failed"]}
            /\ Asks(e, tab')

\* What the answer to a stop (cancelRun's callbacks) does to each field of the view.
LEMMA StopAnsweredFields == ASSUME IInv, StopAnswered PROVE StopAnsweredView
<1>1. tab \in Engine /\ tab.active \in Convs
  BY Awake DEF IInv, TypeOK, StopAnswered
<1>2. tab.machine \in Machine /\ tab.stop \in StopType /\ tab.stop.run \in SomeKey /\ tab.stop.cursor \in Nat
  BY <1>1, EngineType DEF StopType, SomeKey
<1> DEFINE s == [[tab.stop EXCEPT !.asked = FALSE] EXCEPT !.cursor = 0]
           a == [tab EXCEPT !.stop = s]
           m == [tab.machine EXCEPT !.error = "failed"]
           b == [a EXCEPT !.machine = m]
<1>3. s \in StopType /\ m \in Machine
  BY <1>2, MachineTypes DEF StopType, Machine, Errors
<1>4. PICK failed \in BOOLEAN :
        LET answered == [tab EXCEPT !.stop.asked = FALSE, !.stop.cursor = 0] IN
        tab' = IF tab.machine.run # tab.stop.run THEN answered
               ELSE ReadOwner(IF failed THEN [answered EXCEPT !.machine.error = "failed"] ELSE answered,
                              "stop", tab.stop.run, {}, tab.stop.cursor)
  BY DEF StopAnswered
<1>5. [tab EXCEPT !.stop.asked = FALSE, !.stop.cursor = 0] = a
  BY <1>1, EngineType
<1> HIDE DEF s
<1>6. a \in Engine /\ Alike(tab, a) /\ a.machine = tab.machine /\ a.read = tab.read
  <2>1. a \in Engine
    BY <1>1, <1>3, EngineType
  <2> QED
    BY <1>1, <2>1, EngineFields DEF Alike, Who, Where, Linked, Waiting, EmptyEngine
<1> HIDE DEF a
<1>7. [a EXCEPT !.machine.error = "failed"] = b
  BY <1>6
<1> HIDE DEF m
<1>8. b \in Engine /\ Alike(tab, b) /\ b.machine = m /\ b.read = tab.read
  <2>1. b \in Engine
    BY <1>6, <1>3, EngineType
  <2>2. Alike(a, b) /\ b.machine = m /\ b.read = a.read
    BY <1>6, <2>1, EngineFields DEF Alike, Who, Where, Linked, Waiting, EmptyEngine
  <2> HIDE DEF b
  <2> QED
    BY <1>6, <2>1, <2>2 DEF Alike, Who, Where, Linked, Waiting
<1> HIDE DEF b
<1> DEFINE f == IF failed THEN b ELSE a
<1>9. f \in Engine /\ Alike(tab, f) /\ f.read = tab.read /\ f.machine \in {tab.machine, m}
  BY <1>6, <1>8
<1> HIDE DEF f
<1>10. tab' = a \/ tab' = ReadOwner(f, "stop", tab.stop.run, {}, tab.stop.cursor)
  BY <1>4, <1>5, <1>7 DEF f
<1>11. CASE tab' = ReadOwner(f, "stop", tab.stop.run, {}, tab.stop.cursor)
  <2> DEFINE g == ReadOwner(f, "stop", tab.stop.run, {}, tab.stop.cursor)
  <2>0. /\ g \in Engine /\ GivesUpRead(f, g)
        /\ g.read = [kind |-> "stop", at |-> Travelling, run |-> tab.stop.run, ended |-> {},
                     cursor |-> tab.stop.cursor]
    <3>1. tab.stop.run \in SomeKey /\ tab.stop.cursor \in Nat /\ {} \in KeySets
      BY <1>2, Values
    <3> QED
      BY <1>9, <3>1, ReadOwnerFields
  <2> HIDE DEF g
  <2>1. tab' \in Engine /\ GivesUpRead(f, tab') /\ tab'.read.kind = "stop"
    BY <1>11, <2>0 DEF g
  <2>2. Asks(f, tab')
    BY <2>1 DEF Asks, GivesUpRead
  <2> QED
    BY <1>1, <1>9, <2>2 DEF StopAnsweredView, m
<1> QED
  BY <1>1, <1>6, <1>10, <1>11 DEF StopAnsweredView

\* newConversation.
NewView ==
    /\ tab' \in Engine /\ tab'.active \in Convs /\ ~tab.broken /\ ~tab'.broken
    /\ tab'.pending = NoPending /\ ~tab'.deferred /\ tab'.machine = IdleMachine
    /\ tab'.connection = "connected" /\ tab'.stream = "closed" /\ tab'.read = NoRead
    /\ ~tab'.hydrating /\ tab'.position = 0 /\ tab'.ended = {} /\ tab'.steers = {}
    /\ tab'.recovering = tab.recovering /\ tab'.active \in tab'.drafts
    /\ tab'.active \notin tab.drawn /\ tab.drawn \subseteq tab'.drawn

\* What opening a conversation of one's own (newConversation) does to each field of the view.
LEMMA NewFields == ASSUME IInv, NEW c \in Convs, New(c) PROVE NewView
<1> DEFINE f == Forgotten(tab)
           g == Cleared(f)
           list == g.list \cup {c}
           drafts == g.drafts \cup {c}
           drawn == g.drawn \cup {c}
           h == [g EXCEPT !.active = c, !.list = list, !.drafts = drafts, !.drawn = drawn]
<1>1. tab \in Engine /\ ~tab.broken
  BY DEF IInv, TypeOK, New
<1>2. tab' = h
  BY DEF New
<1>3. f \in Engine /\ f.broken = tab.broken /\ f.recovering = tab.recovering /\ f.drawn = tab.drawn
  BY <1>1, ForgottenFields, ForgottenType DEF Waiting, Dropped, Parted
<1> HIDE DEF f
<1>4. /\ g \in Engine /\ g.pending = NoPending /\ ~g.deferred /\ g.machine = IdleMachine
      /\ g.connection = "connected" /\ g.stream = "closed" /\ g.read = NoRead
      /\ ~g.hydrating /\ g.position = 0 /\ g.ended = {} /\ g.steers = {} /\ g.recovering = f.recovering
      /\ g.broken = f.broken /\ g.drawn = f.drawn
  <2>1. g \in Engine
    BY <1>3, ClearedType
  <2> QED
    BY <1>3, <2>1, EngineFields DEF Cleared, EmptyEngine
<1> HIDE DEF g
<1>5. tab' \in Engine /\ tab'.active \in Convs
  BY NewFoot DEF NewStep
<1> HIDE DEF list, drafts, drawn
<1>6. /\ tab'.active = c /\ tab'.drafts = drafts /\ tab'.drawn = drawn
      /\ tab'.pending = g.pending /\ tab'.deferred = g.deferred /\ tab'.machine = g.machine
      /\ tab'.connection = g.connection /\ tab'.stream = g.stream /\ tab'.read = g.read
      /\ tab'.hydrating = g.hydrating /\ tab'.position = g.position /\ tab'.ended = g.ended
      /\ tab'.steers = g.steers /\ tab'.recovering = g.recovering /\ tab'.broken = g.broken
  BY <1>2, <1>4, <1>5, EngineFields DEF EmptyEngine
<1> HIDE DEF h
<1>7. c \in drafts /\ c \notin tab.drawn /\ tab.drawn \subseteq drawn
  BY <1>3, <1>4 DEF New, FreshConvs, drafts, drawn
<1> QED
  BY <1>1, <1>3, <1>4, <1>5, <1>6, <1>7 DEF NewView

\* What a slot shows: nothing, or its intent and how it failed.
Restored(f) ==
    \/ /\ f.pending = NoPending
       /\ f.machine = IF f.broken THEN FAIL("local") ELSE IdleMachine
    \/ /\ ~f.broken /\ slot[f.active].state = "pending"
       /\ f.pending = [key |-> slot[f.active].key, id |-> 0]
       /\ \E error \in {"unknown", "failed"} : f.machine = FAIL(error)

\* activateConversation.
OpenedView(f) ==
    /\ f \in Engine /\ f.active \in Convs /\ Restored(f) /\ ~f.deferred
    /\ f.connection = IF f.broken THEN "unavailable" ELSE "connected"
    /\ f.stream = "closed" /\ ~f.recovering /\ f.position = 0 /\ f.ended = {} /\ f.steers = {}
    /\ \/ ~f.hydrating /\ f.read = NoRead
       \/ ~f.broken /\ f.hydrating /\ f.read.kind = "hydrate" /\ f.read.at = Travelling

\* activateConversation gives the view of a conversation just opened.
LEMMA ActivateOpens ==
    ASSUME NEW e \in Engine, NEW c \in Convs, NEW hydrate \in BOOLEAN, NEW works \in BOOLEAN,
           slot \in [Convs -> Slot]
    PROVE  OpenedView(Activate(e, c, hydrate, works)) /\ Activate(e, c, hydrate, works).active = c
<1> DEFINE f == Activate(e, c, hydrate, works)
<1>1. /\ f \in Engine /\ f.active = c /\ f.position = 0 /\ f.ended = {} /\ f.steers = {}
      /\ ~f.deferred /\ f.stream = "closed" /\ ~f.recovering
      /\ f.broken = ~works /\ f.connection = IF works THEN "connected" ELSE "unavailable"
      /\ \/ /\ f.pending = NoPending
            /\ f.machine = IF works THEN IdleMachine ELSE FAIL("local")
         \/ /\ works /\ slot[c].state = "pending" /\ f.pending = [key |-> slot[c].key, id |-> 0]
            /\ \E error \in {"unknown", "failed"} : f.machine = FAIL(error)
      /\ \/ ~f.hydrating /\ f.read = NoRead
         \/ works /\ f.hydrating /\ f.read.kind = "hydrate" /\ f.read.at = Travelling
  BY ActivateFields
<1> HIDE DEF f
<1>2. Restored(f)
  BY <1>1 DEF Restored
<1> QED
  BY <1>1, <1>2 DEF OpenedView, f

\* What selecting a conversation (selectConversation) does to each field of the view.
LEMMA SelectFields == ASSUME IInv, NEW c \in Convs, Select(c) PROVE OpenedView(tab')
<1>1. tab \in Engine /\ slot \in [Convs -> Slot]
  BY DEF IInv, TypeOK
<1>2. PICK works \in BOOLEAN : tab' = Activate(tab, c, TRUE, works)
  BY DEF Select, Works
<1> QED
  BY <1>1, <1>2, ActivateOpens

\* A new engine gives the view of a conversation just opened, and it is the same one.
LEMMA RestartFields ==
    ASSUME IInv, NEW owner, Restart(owner)
    PROVE  OpenedView(tab') /\ tab'.active = tab.active
<1> DEFINE e == [tab EXCEPT !.unsaved = {}]
<1>1. tab \in Engine /\ slot \in [Convs -> Slot] /\ tab.active \in Convs
  BY EngineType DEF IInv, TypeOK, Restart, SomeConv
<1>2. PICK works \in BOOLEAN : tab' = Activate(e, tab.active, TRUE, works)
  BY DEF Restart, Works
<1>3. e \in Engine
  BY <1>1, EngineType, Values
<1> HIDE DEF e
<1> QED
  BY <1>1, <1>2, <1>3, ActivateOpens

\* evictActiveConversation gives the view of another conversation just opened.
LEMMA EvictOpens ==
    ASSUME IInv, NEW e \in Engine, e.active = tab.active, tab.active \in Convs, Listed(e), NEW c \in EvictTargets(e),
           NEW works \in BOOLEAN
    PROVE  OpenedView(Evict(e, c, works)) /\ Evict(e, c, works).active = c /\ c \in Convs /\ c # tab.active
<1> DEFINE list == (e.list \ {e.active}) \cup {c}
           drafts == e.drafts \ {e.active}
           drawn == e.drawn \cup {c}
           left == [e EXCEPT !.list = list, !.drafts = drafts, !.drawn = drawn]
<1>1. slot \in [Convs -> Slot]
  BY DEF IInv, TypeOK
<1>2. e.list \in ConvSets /\ e.drafts \in ConvSets /\ e.drawn \in ConvSets
  BY EngineType
<1>3. c \in Convs /\ c # tab.active
  BY <1>2 DEF EvictTargets, FreshConvs, ConvSets, Listed
<1>4. list \in ConvSets /\ drafts \in ConvSets /\ drawn \in ConvSets
  BY <1>2, <1>3 DEF ConvSets
<1> DEFINE listed == c \in e.list
<1>5. Evict(e, c, works) = Activate(left, c, listed, works) /\ listed \in BOOLEAN
  BY DEF Evict
<1> HIDE DEF list, drafts, drawn, listed
<1>6. left \in Engine
  BY <1>4, EngineType
<1> HIDE DEF left
<1> QED
  BY <1>1, <1>3, <1>5, <1>6, ActivateOpens

\* A conversation of somebody else gives way to the view of another, just opened.
LEMMA HydrateForbiddenFields ==
    ASSUME IInv, HydrateForbidden
    PROVE  OpenedView(tab') /\ tab'.active # tab.active
<1> DEFINE a == Answered(tab)
<1>1. tab \in Engine /\ tab.active \in Convs /\ Listed(tab)
  BY Awake DEF IInv, TypeOK, HydrateForbidden
<1>2. Quiet(tab, a)
  BY <1>1, AnsweredType
<1>3. PICK works \in BOOLEAN, c \in EvictTargets(tab) : tab' = Evict(a, c, works)
  BY DEF HydrateForbidden, Works
<1> HIDE DEF a
<1>4. a \in Engine /\ a.active = tab.active /\ Listed(a) /\ c \in EvictTargets(a)
  BY <1>1, <1>2 DEF Quiet, Kept, Listed, EvictTargets, FreshConvs
<1> QED
  BY <1>1, <1>3, <1>4, EvictOpens

\* reconnect: the slot is read again and then the owner, or the owner alone.
ReconnectView ==
    /\ tab' \in Engine /\ tab'.active = tab.active /\ tab.active \in Convs
    /\ ~tab.recovering /\ tab.connection = "unavailable"
    /\ tab'.position = tab.position /\ tab'.deferred = tab.deferred
    /\ \/ /\ tab.broken /\ Restored(tab') /\ tab'.stream = tab.stream /\ ~tab'.recovering
          /\ \/ /\ tab'.broken /\ tab'.connection = "unavailable" /\ tab'.hydrating = tab.hydrating
                /\ tab'.read = tab.read /\ tab'.ended = tab.ended /\ tab'.steers = tab.steers
             \/ /\ ~tab'.broken /\ tab'.connection = "connected" /\ tab'.hydrating
                /\ tab'.read.kind = "hydrate" /\ tab'.read.at = Travelling /\ tab'.ended = {} /\ tab'.steers = {}
       \/ /\ ~tab.broken /\ Who(tab, tab') /\ tab'.machine = tab.machine
          /\ tab'.recovering /\ tab'.connection = "reconnecting" /\ tab'.stream = "closed"
          /\ tab'.hydrating = tab.hydrating
          /\ tab'.read.kind = "recover" /\ tab'.read.at = Travelling /\ tab'.ended = {} /\ tab'.steers = {}

\* The operator that restores a slot, over an engine without an intent.
LEMMA RestoreFields ==
    ASSUME NEW v \in Engine, v.active \in Convs, slot \in [Convs -> Slot], NEW works \in BOOLEAN,
           v.pending = NoPending, v.machine = IdleMachine
    PROVE  LET r == RestoreSubmission(v, works) IN
           /\ r \in Engine /\ Restored(r) /\ r.active = v.active /\ r.deferred = v.deferred
           /\ (r.broken <=> ~works) /\ r.connection = IF works THEN v.connection ELSE "unavailable"
           /\ Where(v, r) /\ Waiting(v, r) /\ r.stream = v.stream /\ r.read = v.read
<1> DEFINE r == RestoreSubmission(v, works)
           s == slot[v.active]
           error == IF s.code = "none" THEN "unknown" ELSE s.code
           p == [key |-> s.key, id |-> 0]
<1>1. r \in Engine
  BY RestoreType DEF Rested
<1>2. error \in {"unknown", "failed"}
  BY DEF Slot
<1>3. CASE ~works
  <2>1. r = [v EXCEPT !.broken = TRUE, !.connection = "unavailable", !.machine = FAIL("local")]
    BY <1>3 DEF RestoreSubmission
  <2> HIDE DEF r
  <2>2. /\ r.active = v.active /\ r.deferred = v.deferred /\ r.broken /\ r.connection = "unavailable"
        /\ Where(v, r) /\ Waiting(v, r) /\ r.stream = v.stream /\ r.read = v.read
        /\ r.pending = v.pending /\ r.machine = FAIL("local")
    BY <1>1, <2>1, EngineFields DEF EmptyEngine, Where, Waiting
  <2> QED
    BY <1>1, <1>3, <2>2 DEF Restored, r
<1>4. CASE works /\ s.state = "pending"
  <2>1. r = [v EXCEPT !.broken = FALSE, !.pending = p, !.machine = FAIL(error)]
    BY <1>4 DEF RestoreSubmission
  <2> HIDE DEF r, p, error
  <2>2. /\ r.active = v.active /\ r.deferred = v.deferred /\ ~r.broken /\ r.connection = v.connection
        /\ Where(v, r) /\ Waiting(v, r) /\ r.stream = v.stream /\ r.read = v.read
        /\ r.pending = p /\ r.machine = FAIL(error)
    BY <1>1, <2>1, EngineFields DEF EmptyEngine, Where, Waiting
  <2>3. Restored(r)
    BY <1>2, <1>4, <2>2 DEF Restored, p
  <2> QED
    BY <1>1, <1>4, <2>2, <2>3 DEF r
<1>5. CASE works /\ s.state # "pending"
  <2>1. r = [v EXCEPT !.broken = FALSE]
    BY <1>5 DEF RestoreSubmission
  <2> HIDE DEF r
  <2>2. /\ r.active = v.active /\ r.deferred = v.deferred /\ ~r.broken /\ r.connection = v.connection
        /\ Where(v, r) /\ Waiting(v, r) /\ r.stream = v.stream /\ r.read = v.read
        /\ r.pending = v.pending /\ r.machine = v.machine
    BY <1>1, <2>1, EngineFields DEF EmptyEngine, Where, Waiting
  <2> QED
    BY <1>1, <1>5, <2>2 DEF Restored, r
<1> QED
  BY <1>3, <1>4, <1>5

\* What the user's reconnect (reconnect) does to each field of the view.
LEMMA ReconnectFields == ASSUME IInv, Reconnect PROVE ReconnectView
<1>1. /\ tab \in Engine /\ tab.active \in Convs /\ slot \in [Convs -> Slot]
      /\ ~tab.recovering /\ tab.connection = "unavailable"
  BY Awake DEF IInv, TypeOK, Reconnect
<1>2. CASE tab.broken
  <2> DEFINE b == [tab EXCEPT !.connection = "connected", !.machine = IdleMachine,
                              !.pending = NoPending]
  <2>1. PICK works \in BOOLEAN :
           LET restored == RestoreSubmission(b, works)
           IN tab' = IF restored.broken THEN restored ELSE Hydrate(restored, "hydrate")
    BY <1>2 DEF Reconnect, Works
  <2>2. /\ b \in Engine /\ b.active = tab.active /\ b.pending = NoPending /\ b.deferred = tab.deferred
        /\ b.machine = IdleMachine /\ b.connection = "connected" /\ b.stream = tab.stream
        /\ Where(tab, b) /\ Waiting(tab, b) /\ b.read = tab.read
    <3>1. b \in Engine
      BY <1>1, EngineType, Values, MachineTypes, NoPendingType
    <3> QED
      BY <1>1, <3>1, EngineFields DEF EmptyEngine, Where, Waiting
  <2> HIDE DEF b
  <2> DEFINE r == RestoreSubmission(b, works)
  <2>3. /\ r \in Engine /\ Restored(r) /\ r.active = b.active /\ r.deferred = b.deferred
        /\ (r.broken <=> ~works) /\ r.connection = IF works THEN b.connection ELSE "unavailable"
        /\ Where(b, r) /\ Waiting(b, r) /\ r.stream = b.stream /\ r.read = b.read
    BY <1>1, <2>2, RestoreFields
  <2>4. (r.broken => tab' = r) /\ (~r.broken => tab' = Hydrate(r, "hydrate"))
    BY <2>1
  <2> HIDE DEF r
  <2>5. CASE r.broken
    BY <1>1, <1>2, <2>2, <2>3, <2>4, <2>5 DEF ReconnectView, Where, Waiting
  <2>6. CASE ~r.broken
    <3>0. tab' = Hydrate(r, "hydrate") /\ r \in Engine
      BY <2>3, <2>4, <2>6
    <3>1. /\ tab' \in Engine /\ Who(r, tab') /\ Linked(r, tab') /\ tab'.position = r.position
          /\ tab'.ended = {} /\ tab'.steers = {} /\ tab'.machine = r.machine
          /\ tab'.recovering = r.recovering /\ tab'.hydrating
          /\ tab'.read.kind = "hydrate" /\ tab'.read.at = Travelling
      BY <3>0, HydrateFields
    <3>2. Restored(tab')
      BY <2>3, <3>1 DEF Restored, Who
    <3> QED
      BY <1>1, <1>2, <2>2, <2>3, <2>6, <3>1, <3>2 DEF ReconnectView, Where, Waiting, Who, Linked
  <2> QED
    BY <2>5, <2>6
<1>3. CASE ~tab.broken
  <2> DEFINE error == IF HasPending(tab) /\ tab.machine.phase = "error" THEN tab.machine.error ELSE "none"
             g == [tab EXCEPT !.recovering = TRUE, !.connection = "reconnecting", !.stream = "closed",
                              !.timer = NoKey, !.retryError = error]
  <2>1. tab' = Hydrate(g, "recover")
    BY <1>3 DEF Reconnect
  <2>2. error \in Errors
    BY <1>1, EngineType, Values DEF Machine
  <2> HIDE DEF error
  <2>3. /\ g \in Engine /\ Who(tab, g) /\ g.recovering /\ g.connection = "reconnecting"
        /\ g.stream = "closed" /\ g.position = tab.position /\ g.machine = tab.machine
        /\ g.hydrating = tab.hydrating
    <3>1. g \in Engine
      BY <1>1, <2>2, EngineType, Values
    <3> QED
      BY <1>1, <3>1, EngineFields DEF Who, EmptyEngine
  <2> HIDE DEF g
  <2>4. /\ tab' \in Engine /\ Who(g, tab') /\ Linked(g, tab') /\ tab'.position = g.position
        /\ tab'.ended = {} /\ tab'.steers = {} /\ tab'.machine = g.machine
        /\ tab'.recovering = g.recovering /\ tab'.hydrating = g.hydrating
        /\ tab'.read.kind = "recover" /\ tab'.read.at = Travelling
    BY <2>1, <2>3, HydrateFields
  <2> QED
    BY <1>1, <1>3, <2>3, <2>4 DEF ReconnectView, Who, Linked
<1> QED
  BY <1>2, <1>3

(* What the answers to create-message calls do to a view *)

\* The fields of a view, but for the machine, the read and what is kept in memory.
Seen(e, f) ==
    /\ f.active = e.active /\ f.pending = e.pending /\ f.deferred = e.deferred /\ f.broken = e.broken
    /\ Where(e, f) /\ Linked(e, f) /\ Waiting(e, f)

\* The machine that takes a receipt for k at rest or after a failure.
TakenMachine(m, k) ==
    IF Resting(m) THEN RECEIPT(SUBMIT(IdleMachine), k) ELSE m

\* A receipt of k that is applied, or that waits for a recovery.
Applied(e, f, k) ==
    /\ f \in Engine /\ f.active = e.active /\ f.broken = e.broken
    /\ Where(e, f) /\ Waiting(e, f) /\ f.connection = e.connection
    /\ \/ /\ e.hydrating \/ e.recovering \/ e.connection # "connected"
          /\ f.pending = e.pending /\ f.deferred
          /\ f.stream = e.stream /\ f.machine = e.machine /\ f.read = e.read
       \/ /\ ~e.hydrating /\ ~e.recovering /\ e.connection = "connected"
          /\ f.pending = NoPending /\ ~f.deferred /\ f.read = Touched(e.read)
          /\ \/ /\ k \in e.ended /\ f.stream = e.stream
                /\ f.machine = IF e.machine.run = NoKey THEN IdleMachine ELSE e.machine
             \/ /\ k \notin e.ended /\ e.machine.phase = "submitting"
                /\ f.stream = "connecting" /\ f.machine = RECEIPT(e.machine, k)
             \/ /\ k \notin e.ended /\ e.machine.phase # "submitting"
                /\ f.machine = TakenMachine(e.machine, k)
                /\ f.stream = IF e.machine.run = NoKey /\ f.machine.run # NoKey THEN "connecting"
                              ELSE e.stream

\* What a receipt does to each field of the view that holds its intent: it is applied or set aside.
LEMMA ReceivedFields ==
    ASSUME NEW e \in Engine, NEW k \in Keys, e.pending.key = k, HasPending(e)
    PROVE  Applied(e, Received(e, k), k)
<1> DEFINE f == Received(e, k)
           r == [e EXCEPT !.machine = IdleMachine]
           rested == IF e.machine.phase = "error" THEN r ELSE e
           applied == Recovered(rested, FALSE)
           d == [e EXCEPT !.deferred = TRUE]
           t == Touch(e)
           g == Forgotten(t)
           m == RECEIPT(g.machine, k)
           w == [g EXCEPT !.machine = m]
<1>1. f = IF e.hydrating \/ e.recovering \/ e.connection # "connected" THEN d
          ELSE IF k \in e.ended THEN Recovered(e, TRUE)
          ELSE IF e.machine.phase = "submitting" THEN Open(w)
          ELSE IF e.machine.run = NoKey /\ applied.machine.run # NoKey THEN Open(applied)
          ELSE applied
  BY DEF Received
<1>2. CASE e.hydrating \/ e.recovering \/ e.connection # "connected"
  <2>1. d \in Engine
    BY EngineType
  <2>2. /\ d.active = e.active /\ d.broken = e.broken /\ Where(e, d) /\ Waiting(e, d)
        /\ d.connection = e.connection /\ d.pending = e.pending /\ d.deferred
        /\ d.stream = e.stream /\ d.machine = e.machine /\ d.read = e.read
    BY <2>1, EngineFields DEF EmptyEngine, Where, Waiting
  <2>3. f = d
    BY <1>1, <1>2
  <2> HIDE DEF d, f
  <2>4. Applied(e, f, k)
    BY <1>2, <2>1, <2>2, <2>3 DEF Applied
  <2> QED
    BY <2>4 DEF f
<1>3. CASE /\ ~(e.hydrating \/ e.recovering \/ e.connection # "connected")
           /\ k \in e.ended
  <2> DEFINE s == Recovered(e, TRUE)
             m0 == IF TRUE /\ e.machine.run = NoKey THEN IdleMachine ELSE e.machine
  <2>1. /\ s \in Engine /\ s.pending = NoPending /\ ~s.deferred
        /\ s.active = e.active /\ s.broken = e.broken
        /\ Where(e, s) /\ Linked(e, s) /\ Waiting(e, s)
        /\ s.read = IF e.read.kind = "stop" THEN NoRead ELSE e.read
        /\ s.machine = IF m0.phase = "idle" /\ ~TRUE THEN RECEIPT(SUBMIT(m0), e.pending.key) ELSE m0
    BY RecoveredFields
  <2>2. f = s
    BY <1>1, <1>3
  <2> HIDE DEF s, f
  <2>3. Applied(e, f, k)
    BY <1>3, <2>1, <2>2 DEF Applied, Touched, Linked
  <2> QED
    BY <2>3 DEF f
<1>4. CASE /\ ~(e.hydrating \/ e.recovering \/ e.connection # "connected")
           /\ k \notin e.ended /\ e.machine.phase = "submitting"
  <2>1. t \in Engine /\ Alike(e, t) /\ t.machine = e.machine /\ t.read = Touched(e.read)
    BY TouchFields DEF Touched
  <2>2. f = Open(w)
    BY <1>1, <1>4
  <2> HIDE DEF t
  <2>3. /\ g \in Engine /\ g.active = t.active /\ g.broken = t.broken /\ g.pending = NoPending /\ ~g.deferred
        /\ Where(t, g) /\ Linked(t, g) /\ Waiting(t, g) /\ g.machine = t.machine /\ g.read = t.read
    BY <2>1, ForgottenFields
  <2> HIDE DEF g
  <2>4. /\ w \in Engine /\ w.active = g.active /\ w.broken = g.broken /\ w.pending = g.pending
        /\ w.deferred = g.deferred /\ Where(g, w) /\ Linked(g, w) /\ Waiting(g, w)
        /\ w.machine = m /\ w.read = g.read
    <3>1. m \in Machine
      <4>1. g.machine \in Machine
        BY <2>3, EngineType
      <4> QED
        BY <4>1, MachineSteps
    <3> HIDE DEF m
    <3>2. w \in Engine
      BY <2>3, <3>1, EngineType
    <3> QED
      BY <2>3, <3>2, EngineFields DEF EmptyEngine, Where, Linked, Waiting
  <2> HIDE DEF w
  <2>5. /\ f \in Engine /\ Who(w, f) /\ Where(w, f) /\ Waiting(w, f)
        /\ f.machine = w.machine /\ f.read = w.read
        /\ f.stream = "connecting" /\ f.connection = w.connection
    BY <2>2, <2>4, OpenFields
  <2> HIDE DEF f
  <2>6. /\ f.active = e.active /\ f.broken = e.broken /\ f.connection = e.connection
        /\ f.pending = NoPending /\ ~f.deferred /\ f.read = Touched(e.read)
        /\ Where(e, f) /\ Waiting(e, f) /\ f.machine = RECEIPT(e.machine, k)
    BY <2>1, <2>3, <2>4, <2>5 DEF Alike, Who, Where, Linked, Waiting
  <2>7. Applied(e, f, k)
    BY <1>4, <2>5, <2>6 DEF Applied
  <2> QED
    BY <2>7 DEF f
<1>5. CASE /\ ~(e.hydrating \/ e.recovering \/ e.connection # "connected")
           /\ k \notin e.ended /\ e.machine.phase # "submitting"
  <2>1. /\ rested \in Engine /\ Alike(e, rested) /\ rested.read = e.read
        /\ rested.machine = IF e.machine.phase = "error" THEN IdleMachine ELSE e.machine
    <3>1. r \in Engine
      BY EngineType, MachineTypes
    <3>2. Alike(e, r) /\ r.read = e.read /\ r.machine = IdleMachine
      BY <3>1, EngineFields DEF EmptyEngine, Alike, Who, Where, Linked, Waiting
    <3> HIDE DEF r
    <3> QED
      BY <3>1, <3>2 DEF Alike, Who, Where, Linked, Waiting
  <2> HIDE DEF rested
  <2>2. HasPending(rested) /\ rested.pending.key = k
    BY <2>1 DEF HasPending, Alike, Who
  <2> DEFINE m0 == IF FALSE /\ rested.machine.run = NoKey THEN IdleMachine ELSE rested.machine
  <2>3. /\ applied \in Engine /\ applied.pending = NoPending /\ ~applied.deferred
        /\ applied.active = rested.active /\ applied.broken = rested.broken
        /\ Where(rested, applied) /\ Linked(rested, applied) /\ Waiting(rested, applied)
        /\ applied.read = IF rested.read.kind = "stop" THEN NoRead ELSE rested.read
        /\ applied.machine = IF m0.phase = "idle" /\ ~FALSE THEN RECEIPT(SUBMIT(m0), rested.pending.key) ELSE m0
    BY <2>1, <2>2, RecoveredFields
  <2>4. applied.machine = TakenMachine(e.machine, k)
    BY <2>1, <2>2, <2>3 DEF TakenMachine, Resting, IdleMachine, Running, SUBMIT, RECEIPT
  <2>5. f = IF e.machine.run = NoKey /\ applied.machine.run # NoKey THEN Open(applied) ELSE applied
    BY <1>1, <1>5
  <2> HIDE DEF applied, f, m0
  <2>6. /\ f \in Engine /\ f.pending = NoPending /\ ~f.deferred /\ f.active = applied.active
        /\ f.broken = applied.broken /\ Where(applied, f) /\ Waiting(applied, f)
        /\ f.connection = applied.connection /\ f.read = applied.read /\ f.machine = applied.machine
        /\ f.stream = IF e.machine.run = NoKey /\ applied.machine.run # NoKey THEN "connecting"
                      ELSE applied.stream
    <3>1. CASE e.machine.run = NoKey /\ applied.machine.run # NoKey
      <4>1. f = Open(applied)
        BY <2>5, <3>1
      <4>2. /\ f \in Engine /\ Who(applied, f) /\ Where(applied, f) /\ Waiting(applied, f)
            /\ f.machine = applied.machine /\ f.read = applied.read
            /\ f.stream = "connecting" /\ f.connection = applied.connection
        BY <2>3, <4>1, OpenFields
      <4> QED
        BY <2>3, <3>1, <4>2 DEF Who
    <3>2. CASE ~(e.machine.run = NoKey /\ applied.machine.run # NoKey)
      <4>1. f = applied
        BY <2>5, <3>2
      <4> QED
        BY <2>3, <3>2, <4>1 DEF Where, Waiting
    <3> QED
      BY <3>1, <3>2
  <2>7. /\ f.active = e.active /\ f.broken = e.broken /\ f.connection = e.connection
        /\ f.read = Touched(e.read) /\ Where(e, f) /\ Waiting(e, f)
        /\ f.machine = TakenMachine(e.machine, k)
        /\ f.stream = IF e.machine.run = NoKey /\ f.machine.run # NoKey THEN "connecting" ELSE e.stream
    BY <2>1, <2>3, <2>4, <2>6 DEF Alike, Who, Where, Linked, Waiting, Touched
  <2>8. Applied(e, f, k)
    BY <1>5, <2>6, <2>7 DEF Applied
  <2> QED
    BY <2>8 DEF f
<1> QED
  BY <1>2, <1>3, <1>4, <1>5

ReceiptView(i) ==
    /\ calls[i].kind = "create" /\ calls[i].status = "accepted" /\ tab.active \in Convs
    /\ calls[i].owner \in {"engine", "disposed"}
    /\ tab' \in Engine
    /\ IF ~calls[i].doomed /\ Holds(i)
       THEN Applied(tab, tab', calls[i].key) /\ HasPending(tab)
       ELSE Seen(tab, tab') /\ tab'.machine = tab.machine /\ tab'.read = tab.read

\* What the receipt of a create-message call (beginRun then) does to each field of the view.
LEMMA ReceiptFields == ASSUME IInv, NEW i \in DOMAIN calls, Receipt(i) PROVE ReceiptView(i)
<1> DEFINE k == calls[i].key
           c == calls[i].conv
           mine == calls[i].owner = "engine"
<1>1. /\ calls[i] \in Call /\ k \in Keys /\ c \in Convs
      /\ tab \in Engine /\ tab.active \in Convs
  BY CallFacts
<1>2. PICK works \in Works :
        LET written == [tab EXCEPT !.unsaved = IF ~mine THEN @
                                               ELSE IF works THEN @ \ {k} ELSE @ \cup {k}]
        IN IF calls[i].doomed
           THEN tab' = written
           ELSE tab' = IF mine /\ tab.pending.key = k /\ tab.active = c THEN Received(written, k) ELSE written
  BY DEF Receipt
<1> DEFINE u == IF ~mine THEN tab.unsaved
                ELSE IF works THEN tab.unsaved \ {k} ELSE tab.unsaved \cup {k}
           written == [tab EXCEPT !.unsaved = u]
<1>3. tab' = IF ~calls[i].doomed /\ Holds(i) THEN Received(written, k) ELSE written
  BY <1>2 DEF Holds
<1>4. u \in KeySets
  BY <1>1, EngineType DEF KeySets
<1> HIDE DEF u
<1>5. written \in Engine /\ Seen(tab, written) /\ written.machine = tab.machine /\ written.read = tab.read
  <2>1. written \in Engine
    BY <1>1, <1>4, EngineType
  <2> QED
    BY <1>1, <2>1, EngineFields DEF Seen, Where, Linked, Waiting, EmptyEngine
<1> HIDE DEF written
<1>6. CASE ~calls[i].doomed /\ Holds(i)
  <2>1. HasPending(tab) /\ HasPending(written) /\ written.pending.key = k
    BY <1>1, <1>5, <1>6, KeysAssumption DEF HasPending, Holds, Seen
  <2>2. tab' = Received(written, k)
    BY <1>3, <1>6
  <2>3. Applied(written, tab', k)
    BY <1>1, <1>5, <2>1, <2>2, ReceivedFields
  <2>4. Applied(tab, tab', k)
    BY <1>5, <2>3 DEF Applied, Seen, Where, Linked, Waiting
  <2>5. tab' \in Engine
    BY <2>3 DEF Applied
  <2> QED
    BY <1>1, <1>6, <2>1, <2>4, <2>5 DEF ReceiptView, Receipt
<1>7. CASE ~(~calls[i].doomed /\ Holds(i))
  BY <1>1, <1>3, <1>5, <1>7 DEF ReceiptView, Receipt
<1> QED
  BY <1>6, <1>7

CreateFailsView ==
    /\ tab' \in Engine /\ Alike(tab, tab') /\ tab'.read = tab.read
    /\ \/ tab'.machine = tab.machine
       \/ tab.machine.phase = "submitting" /\ tab'.machine = FAIL("failed")

\* What the failure of a create-message call (beginRun catch) does to each field of the view.
LEMMA CreateFailsFields == ASSUME IInv, NEW i \in DOMAIN calls, CreateFails(i) PROVE CreateFailsView
<1> DEFINE error == IF tab.recovering \/ tab.connection # "connected" THEN "failed" ELSE tab.retryError
           e == [tab EXCEPT !.machine = FAIL("failed"), !.retryError = error]
<1>1. tab \in Engine
  BY CallFacts
<1> DEFINE current == /\ calls[i].owner = "engine"
                      /\ tab.pending.id = i
                      /\ tab.machine.phase = "submitting"
                      /\ tab.active = calls[i].conv
<1>2. (tab' = IF ~current THEN tab ELSE e) /\ (current => tab.machine.phase = "submitting")
  BY DEF CreateFails
<1>3. error \in Errors
  BY <1>1, EngineType, Values
<1> HIDE DEF error
<1>4. e \in Engine /\ Alike(tab, e) /\ e.read = tab.read /\ e.machine = FAIL("failed")
  <2>1. e \in Engine
    BY <1>1, <1>3, EngineType, Values, MachineTypes
  <2> QED
    BY <1>1, <2>1, EngineFields DEF Alike, Who, Where, Linked, Waiting, EmptyEngine
<1> HIDE DEF e, current
<1>5. CASE tab' = tab
  <2>1. tab' \in Engine /\ tab'.machine = tab.machine /\ tab'.read = tab.read
    BY <1>1, <1>5
  <2>2. Alike(tab, tab')
    <3> DEFINE f == tab'
    <3>1. f = tab
      BY <1>5
    <3> HIDE DEF f
    <3>2. Alike(tab, f)
      BY <3>1 DEF Alike, Who, Where, Linked, Waiting
    <3> QED
      BY <3>2 DEF f
  <2> QED
    BY <2>1, <2>2 DEF CreateFailsView
<1>6. CASE tab.machine.phase = "submitting" /\ tab' = e
  BY <1>4, <1>6 DEF CreateFailsView
<1> QED
  BY <1>2, <1>5, <1>6

\* A steer is settled.
SteerLeft(e, f, k) ==
    /\ f \in Engine /\ Who(e, f) /\ Waiting(e, f) /\ f.position = e.position
    /\ f.connection = e.connection /\ f.steers = e.steers \ {k}
    /\ f.ended = IF f.steers = {} /\ ~HasPending(e) THEN {} ELSE e.ended

\* What the end of a call made during a run does to each field of the view.
LEMMA SteerSettledFields ==
    ASSUME NEW e \in Engine, NEW k
    PROVE  LET f == SteerSettled(e, k) IN
           SteerLeft(e, f, k) /\ f.stream = e.stream /\ f.machine = e.machine /\ f.read = e.read
<1> DEFINE others == e.steers \ {k}
           ended == IF others = {} /\ ~HasPending(e) THEN {} ELSE e.ended
           f == SteerSettled(e, k)
<1>1. f \in Engine
  BY SteerSettledType DEF Quiet
<1>2. f = [e EXCEPT !.steers = others, !.ended = ended]
  BY DEF SteerSettled
<1> HIDE DEF others, ended, f
<1>3. /\ Who(e, f) /\ Waiting(e, f) /\ Linked(e, f) /\ f.position = e.position /\ f.steers = others
      /\ f.ended = ended /\ f.machine = e.machine /\ f.read = e.read
  BY <1>1, <1>2, EngineFields DEF EmptyEngine, Who, Waiting, Linked
<1> QED
  BY <1>1, <1>3 DEF SteerLeft, Linked, f, others, ended

SteerAnsweredView(i) ==
    /\ SteerLeft(tab, tab', calls[i].key)
    /\ \/ /\ calls[i].status = "accepted" /\ calls[i].key \in tab.steers
          /\ tab.machine.phase = "idle" /\ calls[i].key \notin tab.ended
          /\ tab'.machine = RECEIPT(SUBMIT(tab.machine), calls[i].key) /\ tab'.stream = "connecting"
          /\ tab'.read = IF tab.read.kind \in {"sync", "stop"} THEN NoRead ELSE tab.read
       \/ /\ tab'.machine = tab.machine /\ tab'.stream = tab.stream
          /\ tab'.read \in {tab.read, Touched(tab.read)}

\* What the failure of a message sent during a run (submit steer catch) does to each field of the
\* view.
LEMMA SteerFailsFields == ASSUME IInv, NEW i \in DOMAIN calls, SteerFails(i) PROVE SteerAnsweredView(i)
<1> DEFINE f == SteerSettled(tab, calls[i].key)
<1>1. tab \in Engine /\ tab' = f
  BY CallFacts DEF SteerFails
<1>2. SteerLeft(tab, f, calls[i].key) /\ f.stream = tab.stream /\ f.machine = tab.machine /\ f.read = tab.read
  BY <1>1, SteerSettledFields
<1> HIDE DEF f
<1> QED
  BY <1>1, <1>2 DEF SteerAnsweredView

\* What the receipt of a message sent during a run (submit steer then) does to each field of the
\* view.
LEMMA SteerReceiptFields ==
    ASSUME IInv, NEW i \in DOMAIN calls, SteerReceipt(i)
    PROVE  SteerAnsweredView(i)
<1> DEFINE k == calls[i].key
           admits == tab.machine.phase = "idle" /\ k \notin tab.ended
           m == RECEIPT(SUBMIT(tab.machine), k)
           r == IF tab.read.kind = "sync" THEN NoRead ELSE tab.read
           b == [tab EXCEPT !.machine = m, !.read = r]
           a == Open(b)
           x == IF k \notin tab.steers THEN tab ELSE Touch(IF admits THEN a ELSE tab)
<1>1. tab \in Engine /\ k \in Keys
  BY CallFacts
<1>2. tab' = SteerSettled(x, k) /\ calls[i].status = "accepted"
  BY DEF SteerReceipt
<1>3. b \in Engine /\ Alike(tab, b) /\ b.machine = m /\ b.read = r
  <2>1. m \in Machine /\ r \in ReadType
    <3>1. tab.machine \in Machine /\ tab.read \in ReadType
      BY <1>1, EngineType
    <3>2. SUBMIT(tab.machine) \in Machine
      BY <1>1, <3>1, MachineSteps
    <3> QED
      BY <1>1, <3>1, <3>2, MachineSteps, NoReadType
  <2> HIDE DEF m, r
  <2>2. b \in Engine
    BY <1>1, <2>1, EngineType
  <2> QED
    BY <1>1, <2>2, EngineFields DEF Alike, Who, Where, Linked, Waiting, EmptyEngine
<1> HIDE DEF b
<1>4. /\ a \in Engine /\ Who(tab, a) /\ Where(tab, a) /\ Waiting(tab, a) /\ a.connection = tab.connection
      /\ a.machine = m /\ a.read = r /\ a.stream = "connecting"
  <2>1. /\ a \in Engine /\ Who(b, a) /\ Where(b, a) /\ Waiting(b, a) /\ a.connection = b.connection
        /\ a.machine = b.machine /\ a.read = b.read /\ a.stream = "connecting"
    BY <1>3, OpenFields
  <2> HIDE DEF a
  <2> QED
    BY <1>3, <2>1 DEF Alike, Who, Where, Linked, Waiting
<1> HIDE DEF a
<1>5. /\ x \in Engine /\ Who(tab, x) /\ Where(tab, x) /\ Waiting(tab, x) /\ x.connection = tab.connection
      /\ \/ /\ k \in tab.steers /\ admits /\ x.machine = m /\ x.stream = "connecting" /\ x.read = Touched(r)
         \/ x.machine = tab.machine /\ x.stream = tab.stream /\ x.read \in {tab.read, Touched(tab.read)}
  <2>1. CASE k \notin tab.steers
    <3>1. x = tab
      BY <2>1
    <3> HIDE DEF x
    <3> QED
      BY <1>1, <3>1 DEF Who, Where, Waiting
  <2>2. CASE k \in tab.steers /\ admits
    <3>1. x = Touch(a)
      BY <2>2
    <3> HIDE DEF x, m, r
    <3>2. x \in Engine /\ Alike(a, x) /\ x.machine = a.machine /\ x.read = Touched(a.read)
      BY <1>4, <3>1, TouchFields DEF Touched
    <3> QED
      BY <1>4, <2>2, <3>2 DEF Alike, Who, Where, Linked, Waiting
  <2>3. CASE k \in tab.steers /\ ~admits
    <3>1. x = Touch(tab)
      BY <2>3
    <3> HIDE DEF x, m, r
    <3>2. x \in Engine /\ Alike(tab, x) /\ x.machine = tab.machine /\ x.read = Touched(tab.read)
      BY <1>1, <3>1, TouchFields DEF Touched
    <3> QED
      BY <3>2 DEF Alike, Linked
  <2> QED
    BY <2>1, <2>2, <2>3
<1> HIDE DEF x
<1>6. SteerLeft(x, tab', k) /\ tab'.stream = x.stream /\ tab'.machine = x.machine /\ tab'.read = x.read
  BY <1>2, <1>5, SteerSettledFields
<1>7. SteerLeft(tab, tab', k)
  BY <1>5, <1>6 DEF SteerLeft, Who, Where, Waiting, HasPending
<1>8. Touched(r) = IF tab.read.kind \in {"sync", "stop"} THEN NoRead ELSE tab.read
  BY DEF Touched, NoRead
<1> HIDE DEF r, m
<1>9. \/ /\ k \in tab.steers /\ admits /\ tab'.machine = m /\ tab'.stream = "connecting" /\ tab'.read = Touched(r)
      \/ tab'.machine = tab.machine /\ tab'.stream = tab.stream /\ tab'.read \in {tab.read, Touched(tab.read)}
  BY <1>5, <1>6
<1> QED
  BY <1>2, <1>7, <1>8, <1>9 DEF SteerAnsweredView, m

(* What the answers to reads do to a view *)

HydrateAbsentView ==
    /\ tab' \in Engine /\ tab'.active = tab.active /\ tab.active \in Convs /\ tab'.broken = tab.broken
    /\ tab.read.kind = "hydrate" /\ tab.read.at = Absent /\ tab'.read = NoRead
    /\ Where(tab, tab') /\ tab'.connection = tab.connection
    /\ tab'.recovering = tab.recovering /\ ~tab'.hydrating
    /\ \/ /\ ~tab.deferred /\ ~tab'.deferred /\ tab'.pending = tab.pending
          /\ tab'.machine = tab.machine /\ tab'.stream = tab.stream
       \/ /\ tab.deferred /\ HasPending(tab) /\ ~tab'.deferred /\ tab'.pending = NoPending
          /\ tab'.machine = RECEIPT(SUBMIT(IdleMachine), tab.pending.key) /\ tab'.stream = "connecting"

\* What a hydration that finds no conversation (hydrate) does to each field of the view.
LEMMA HydrateAbsentFields == ASSUME IInv, HydrateAbsent PROVE HydrateAbsentView
<1> DEFINE a == Answered(tab)
           shown == [a EXCEPT !.hydrating = FALSE]
           b == [shown EXCEPT !.machine = IdleMachine]
           r == Recovered(b, FALSE)
           o == Open(r)
<1>1. tab \in Engine /\ tab.active \in Convs
  BY Awake DEF IInv, TypeOK, HydrateAbsent
<1>2. /\ tab.read.kind = "hydrate" /\ tab.read.at = Absent
      /\ tab' = IF tab.deferred THEN o ELSE shown
  BY DEF HydrateAbsent
<1>3. a \in Engine /\ Alike(tab, a) /\ a.machine = tab.machine /\ a.read = NoRead
  BY <1>1, AnsweredFields
<1> HIDE DEF a
<1>4. /\ shown \in Engine /\ Who(a, shown) /\ Where(a, shown) /\ Linked(a, shown)
      /\ shown.recovering = a.recovering /\ ~shown.hydrating
      /\ shown.machine = a.machine /\ shown.read = a.read
  <2>1. shown \in Engine
    BY <1>3, EngineType
  <2> QED
    BY <1>3, <2>1, EngineFields DEF EmptyEngine, Who, Where, Linked
<1> HIDE DEF shown
<1>5. CASE tab.deferred
  <2>1. HasPending(tab)
    BY <1>5 DEF IInv, Held
  <2>2. /\ b \in Engine /\ Alike(shown, b) /\ b.machine = IdleMachine /\ b.read = shown.read
    <3>1. b \in Engine
      BY <1>4, EngineType, MachineTypes
    <3> QED
      BY <1>4, <3>1, EngineFields DEF EmptyEngine, Alike, Who, Where, Linked, Waiting
  <2> HIDE DEF b
  <2>3. HasPending(b) /\ b.pending.key = tab.pending.key
    BY <1>3, <1>4, <2>1, <2>2 DEF Alike, Who, HasPending
  <2> DEFINE m0 == IF FALSE /\ b.machine.run = NoKey THEN IdleMachine ELSE b.machine
  <2>4. /\ r \in Engine /\ r.pending = NoPending /\ ~r.deferred
        /\ r.active = b.active /\ r.broken = b.broken
        /\ Where(b, r) /\ Linked(b, r) /\ Waiting(b, r)
        /\ r.read = IF b.read.kind = "stop" THEN NoRead ELSE b.read
        /\ r.machine = IF m0.phase = "idle" /\ ~FALSE THEN RECEIPT(SUBMIT(m0), b.pending.key) ELSE m0
    BY <2>2, <2>3, RecoveredFields
  <2>5. r.machine = RECEIPT(SUBMIT(IdleMachine), tab.pending.key) /\ r.read = NoRead
    <3>1. m0 = IdleMachine /\ m0.phase = "idle"
      BY <2>2 DEF IdleMachine, Running
    <3>2. b.read = NoRead /\ b.read.kind # "stop"
      BY <1>3, <1>4, <2>2 DEF NoRead
    <3> HIDE DEF m0, r
    <3> QED
      BY <2>3, <2>4, <3>1, <3>2
  <2> HIDE DEF r
  <2>6. /\ o \in Engine /\ Who(r, o) /\ Where(r, o) /\ Waiting(r, o) /\ o.connection = r.connection
        /\ o.machine = r.machine /\ o.read = r.read /\ o.stream = "connecting"
    BY <2>4, OpenFields
  <2> HIDE DEF o
  <2>7. tab' = o
    BY <1>2, <1>5
  <2>8. Where(tab, o)
    BY <1>3, <1>4, <2>2, <2>4, <2>6 DEF Alike, Where
  <2>9. o.active = tab.active /\ o.broken = tab.broken /\ o.pending = NoPending /\ ~o.deferred
    BY <1>3, <1>4, <2>2, <2>4, <2>6 DEF Alike, Who
  <2>10. o.connection = tab.connection
    BY <1>3, <1>4, <2>2, <2>4, <2>6 DEF Alike, Linked
  <2>11. o.recovering = tab.recovering /\ ~o.hydrating
    BY <1>3, <1>4, <2>2, <2>4, <2>6 DEF Alike, Waiting
  <2>12. /\ o.machine = RECEIPT(SUBMIT(IdleMachine), tab.pending.key) /\ o.read = NoRead
         /\ o.stream = "connecting"
    BY <2>5, <2>6
  <2> QED
    BY <1>1, <1>2, <1>5, <2>1, <2>6, <2>7, <2>8, <2>9, <2>10, <2>11, <2>12 DEF HydrateAbsentView
<1>6. CASE ~tab.deferred
  <2>1. tab' = shown
    BY <1>2, <1>6
  <2> QED
    BY <1>1, <1>2, <1>3, <1>4, <1>6, <2>1 DEF HydrateAbsentView, Alike, Who, Where, Linked, Waiting
<1> QED
  BY <1>5, <1>6

RecoverAbsentView ==
    /\ tab.active \in Convs /\ tab.read.kind = "recover" /\ tab.read.at = Absent
    /\ \/ OpenedView(tab') /\ tab'.active # tab.active
       \/ /\ tab' \in Engine /\ Who(tab, tab') /\ Where(tab, tab') /\ Linked(tab, tab')
          /\ tab'.recovering = tab.recovering /\ ~tab'.hydrating
          /\ tab'.machine = tab.machine /\ tab'.read = NoRead
          /\ UNCHANGED <<slot, calls, past>>

\* What a recovery that finds no conversation (hydrate after an expired cursor) does to each field
\* of the view.
LEMMA RecoverAbsentFields == ASSUME IInv, RecoverAbsent PROVE RecoverAbsentView
<1> DEFINE a == Answered(tab)
           f == Forgotten(a)
           x == [a EXCEPT !.hydrating = FALSE]
<1>1. tab \in Engine /\ tab.active \in Convs /\ Listed(tab)
  BY Awake DEF IInv, TypeOK, RecoverAbsent
<1>2. a \in Engine /\ Alike(tab, a) /\ a.machine = tab.machine /\ a.read = NoRead
  BY <1>1, AnsweredFields
<1>3. Quiet(tab, a)
  BY <1>1, AnsweredType
<1>4. CASE UNCHANGED <<slot, calls, past>> /\ tab' = x
  <2> HIDE DEF a
  <2>1. x \in Engine
    BY <1>2, EngineType
  <2>2. /\ Who(a, x) /\ Where(a, x) /\ Linked(a, x) /\ x.recovering = a.recovering /\ ~x.hydrating
        /\ x.machine = a.machine /\ x.read = a.read
    BY <1>2, <2>1, EngineFields DEF EmptyEngine, Who, Where, Linked
  <2> HIDE DEF x
  <2> QED
    BY <1>1, <1>2, <1>4, <2>1, <2>2 DEF RecoverAbsent, RecoverAbsentView, Alike, Who, Where, Linked, Waiting
<1>5. CASE \E works \in Works, c \in EvictTargets(tab) : tab' = Evict(f, c, works)
  <2> HIDE DEF a
  <2>1. Dropped(a, f)
    BY <1>3, ForgottenType DEF Quiet
  <2> HIDE DEF f
  <2>2. PICK works \in BOOLEAN, c \in EvictTargets(tab) : tab' = Evict(f, c, works)
    BY <1>5 DEF Works
  <2>3. f \in Engine /\ f.active = tab.active /\ Listed(f) /\ c \in EvictTargets(f)
    BY <1>1, <1>3, <2>1 DEF Quiet, Kept, Dropped, Parted, Listed, EvictTargets, FreshConvs
  <2>4. OpenedView(tab') /\ tab'.active # tab.active
    BY <1>1, <2>2, <2>3, EvictOpens
  <2> QED
    BY <1>1, <2>4 DEF RecoverAbsent, RecoverAbsentView
<1> QED
  BY <1>4, <1>5 DEF RecoverAbsent

\* The machine after the owner's head was shown, from which a receipt that waited is taken.
SettledMachine(m, settled, k) ==
    LET rested == IF settled /\ m.run = NoKey THEN IdleMachine ELSE m IN
    IF rested.phase = "idle" /\ ~settled THEN RECEIPT(SUBMIT(rested), k) ELSE rested

HydrateOwnerView ==
    LET recover == tab.read.kind = "recover"
        shown == HeadMachine(IF recover \/ tab.deferred THEN IdleMachine ELSE tab.machine, View)
    IN
    /\ tab' \in Engine /\ tab'.active = tab.active /\ tab.active \in Convs /\ tab'.broken = tab.broken
    /\ tab.read.kind \in {"hydrate", "recover"} /\ tab.read.at > Absent /\ tab'.read = NoRead
    /\ View \in Seq(Event) /\ tab'.position = Len(View) /\ tab'.steers = tab.steers
    /\ tab.ended \subseteq tab'.ended /\ (HasPending(tab) => Terminals(View) \subseteq tab'.ended)
    /\ ~tab'.hydrating /\ tab'.recovering = IF recover THEN FALSE ELSE tab.recovering
    /\ IF tab.deferred
       THEN /\ HasPending(tab) /\ tab'.pending = NoPending /\ ~tab'.deferred
            /\ tab'.machine = SettledMachine(shown, tab.pending.key \in Terminals(View), tab.pending.key)
       ELSE /\ tab'.pending = tab.pending /\ ~tab'.deferred
            /\ IF HasPending(tab) /\ shown.phase = "idle" THEN \E error \in Errors : tab'.machine = FAIL(error)
               ELSE tab'.machine = shown
    /\ IF ExecutionHead(View) # NoKey \/ tab'.machine.run # NoKey
       THEN tab'.stream = "connecting" /\ tab'.connection = tab.connection
       ELSE tab'.stream = "closed" /\ tab'.connection = "connected"

\* What a hydration or a recovery that finds the conversation (hydrate) does to each field of the
\* view.
LEMMA HydrateOwnerFields == ASSUME IInv, HydrateOwner PROVE HydrateOwnerView
<1>1. tab \in Engine /\ tab.active \in Convs
  BY Awake DEF IInv, TypeOK, HydrateOwner
<1>2. View \in Seq(Event) /\ Len(View) \in Nat
  BY <1>1, ViewType DEF HydrateOwner
<1> DEFINE recover == tab.read.kind = "recover"
           a == Answered(tab)
           stream == IF recover THEN "closed" ELSE a.stream
           timer == IF recover THEN NoKey ELSE a.timer
           machine == IF recover \/ tab.deferred THEN IdleMachine ELSE a.machine
           read == [a EXCEPT !.position = Len(View), !.stream = stream, !.timer = timer,
                             !.machine = machine]
           o == Observe(read, View)
           h == Reattached(o, View)
           going == IF recover THEN FALSE ELSE h.recovering
           shown == [h EXCEPT !.recovering = going]
           settled == tab.pending.key \in Terminals(View)
           r == Recovered(shown, settled)
           failed == [shown EXCEPT !.machine = FAIL(tab.retryError)]
           applied == IF tab.deferred THEN r
                      ELSE IF recover /\ HasPending(tab) /\ tab.retryError # "none"
                                      /\ shown.machine.phase = "idle"
                      THEN failed ELSE shown
           x == Expose(applied)
           done == [x EXCEPT !.hydrating = FALSE]
           f == [done EXCEPT !.stream = "closed", !.timer = NoKey, !.connection = "connected"]
           head == ExecutionHead(View)
           base == IF recover \/ tab.deferred THEN IdleMachine ELSE tab.machine
           top == HeadMachine(base, View)
<1>3. /\ tab.read.kind \in {"hydrate", "recover"} /\ tab.read.at > Absent
      /\ tab' = IF head # NoKey \/ done.machine.run # NoKey THEN Open(done) ELSE f
  BY DEF HydrateOwner
<1>4. a \in Engine /\ Alike(tab, a) /\ a.machine = tab.machine /\ a.read = NoRead
  BY <1>1, AnsweredFields
<1>5. tab.retryError \in Errors
  BY <1>1, EngineType
<1> HIDE DEF a
<1>6. stream \in Streams /\ timer \in SomeKey /\ machine \in Machine /\ machine = base
  BY <1>4, EngineType, Values, MachineTypes
<1> HIDE DEF stream, timer, machine, recover, base, head
<1>7. /\ read \in Engine /\ Who(a, read) /\ Waiting(a, read) /\ read.position = Len(View)
      /\ read.machine = machine /\ read.ended = a.ended /\ read.steers = a.steers
      /\ read.connection = a.connection /\ read.read = a.read
  <2>1. read \in Engine
    BY <1>2, <1>4, <1>6, EngineType
  <2> QED
    BY <1>2, <1>4, <1>6, <2>1, EngineFields DEF EmptyEngine, Who, Waiting
<1> HIDE DEF read
<1>8. /\ o \in Engine /\ Who(read, o) /\ Linked(read, o) /\ Waiting(read, o) /\ o.position = read.position
      /\ o.steers = read.steers /\ o.machine = read.machine /\ o.read = read.read
      /\ read.ended \subseteq o.ended /\ (HasPending(read) => Terminals(View) \subseteq o.ended)
  BY <1>2, <1>7, ObserveFields
<1> HIDE DEF o
<1>9. h \in Engine /\ Alike(o, h) /\ h.read = o.read /\ h.machine = top
  BY <1>2, <1>6, <1>7, <1>8, ReattachedFields DEF HeadMachine
<1> HIDE DEF h, top
<1>10. /\ shown \in Engine /\ Who(h, shown) /\ Where(h, shown) /\ Linked(h, shown)
       /\ shown.hydrating = h.hydrating /\ shown.recovering = going /\ shown.machine = h.machine
       /\ shown.read = h.read
  <2>1. going \in BOOLEAN
    BY <1>9, EngineType
  <2> HIDE DEF going
  <2>2. shown \in Engine
    BY <1>9, <2>1, EngineType
  <2> QED
    BY <1>9, <2>2, EngineFields DEF EmptyEngine, Who, Where, Linked
<1> HIDE DEF shown
<1>11. /\ shown.active = tab.active /\ shown.pending = tab.pending /\ shown.deferred = tab.deferred
       /\ shown.broken = tab.broken /\ shown.position = Len(View) /\ shown.steers = tab.steers
       /\ tab.ended \subseteq shown.ended /\ (HasPending(tab) => Terminals(View) \subseteq shown.ended)
       /\ shown.recovering = IF recover THEN FALSE ELSE tab.recovering
       /\ shown.machine = top /\ shown.read = NoRead /\ shown.connection = tab.connection
  <2>1. HasPending(read) <=> HasPending(tab)
    BY <1>4, <1>7 DEF Alike, Who, HasPending
  <2>2. /\ shown.active = tab.active /\ shown.pending = tab.pending /\ shown.deferred = tab.deferred
        /\ shown.broken = tab.broken
    BY <1>4, <1>7, <1>8, <1>9, <1>10 DEF Alike, Who
  <2>3. /\ shown.position = Len(View) /\ shown.steers = tab.steers /\ shown.connection = tab.connection
        /\ shown.ended = o.ended /\ read.ended = tab.ended
    BY <1>4, <1>7, <1>8, <1>9, <1>10 DEF Alike, Where, Linked
  <2>4. shown.recovering = IF recover THEN FALSE ELSE tab.recovering
    BY <1>4, <1>7, <1>8, <1>9, <1>10 DEF Alike, Waiting
  <2> QED
    BY <1>4, <1>7, <1>8, <1>9, <1>10, <2>1, <2>2, <2>3, <2>4
<1> HIDE DEF going, settled
<1>12. /\ applied \in Engine /\ applied.active = tab.active /\ applied.broken = tab.broken
       /\ applied.position = Len(View) /\ applied.steers = tab.steers /\ applied.ended = shown.ended
       /\ applied.recovering = shown.recovering /\ applied.connection = tab.connection
       /\ applied.read = NoRead /\ ~applied.deferred
       /\ IF tab.deferred
          THEN /\ HasPending(tab) /\ applied.pending = NoPending
               /\ applied.machine = SettledMachine(top, settled, tab.pending.key)
          ELSE /\ applied.pending = tab.pending
               /\ \/ applied.machine = top
                  \/ HasPending(tab) /\ top.phase = "idle" /\ applied.machine = FAIL(tab.retryError)
  <2>1. CASE tab.deferred
    <3>1. HasPending(tab) /\ HasPending(shown)
      BY <1>11, <2>1 DEF IInv, Held, HasPending
    <3> DEFINE m == IF settled /\ shown.machine.run = NoKey THEN IdleMachine ELSE shown.machine
    <3>2. settled \in BOOLEAN
      BY DEF settled
    <3>3. /\ r \in Engine /\ r.pending = NoPending /\ ~r.deferred
          /\ r.active = shown.active /\ r.broken = shown.broken
          /\ Where(shown, r) /\ Linked(shown, r) /\ Waiting(shown, r)
          /\ r.read = IF shown.read.kind = "stop" THEN NoRead ELSE shown.read
          /\ r.machine = IF m.phase = "idle" /\ ~settled THEN RECEIPT(SUBMIT(m), shown.pending.key) ELSE m
      BY <1>10, <3>1, <3>2, RecoveredFields
    <3>4. r.machine = SettledMachine(top, settled, tab.pending.key)
      BY <1>11, <3>3 DEF SettledMachine
    <3> HIDE DEF r, m
    <3>5. applied = r
      BY <2>1
    <3> HIDE DEF applied
    <3> QED
      BY <1>11, <2>1, <3>1, <3>3, <3>4, <3>5 DEF Where, Linked, Waiting, NoRead
  <2>2. CASE ~tab.deferred /\ applied = failed
               /\ recover /\ HasPending(tab) /\ tab.retryError # "none" /\ shown.machine.phase = "idle"
    <3>1. failed \in Engine
      BY <1>5, <1>10, EngineType, MachineTypes
    <3>2. /\ Alike(shown, failed) /\ failed.read = shown.read /\ failed.machine = FAIL(tab.retryError)
      BY <1>10, <3>1, EngineFields DEF EmptyEngine, Alike, Who, Where, Linked, Waiting
    <3> HIDE DEF failed, applied
    <3> QED
      BY <1>11, <2>2, <3>1, <3>2 DEF Alike, Who, Where, Linked, Waiting
  <2>3. CASE ~tab.deferred /\ applied = shown
    <3> HIDE DEF applied
    <3> QED
      BY <1>10, <1>11, <2>3
  <2> QED
    BY <2>1, <2>2, <2>3
<1> HIDE DEF applied
<1>13. /\ x \in Engine /\ Alike(applied, x) /\ x.read = applied.read
       /\ x.machine = IF HasPending(applied) /\ applied.machine.phase = "idle" THEN FAIL("unknown")
                      ELSE applied.machine
  BY <1>12, ExposeFields
<1> HIDE DEF x
<1>14. /\ done \in Engine /\ Who(x, done) /\ Where(x, done) /\ Linked(x, done)
       /\ done.recovering = x.recovering /\ ~done.hydrating /\ done.machine = x.machine
       /\ done.read = x.read
  <2>1. done \in Engine
    BY <1>13, EngineType
  <2> QED
    BY <1>13, <2>1, EngineFields DEF EmptyEngine, Who, Where, Linked
<1> HIDE DEF done
<1>15. /\ tab' \in Engine /\ Who(done, tab') /\ Where(done, tab') /\ Waiting(done, tab')
       /\ tab'.machine = done.machine /\ tab'.read = done.read
       /\ IF head # NoKey \/ done.machine.run # NoKey
          THEN tab'.stream = "connecting" /\ tab'.connection = done.connection
          ELSE tab'.stream = "closed" /\ tab'.connection = "connected"
  <2>1. CASE head # NoKey \/ done.machine.run # NoKey
    <3>1. tab' = Open(done)
      BY <1>3, <2>1
    <3> QED
      BY <1>14, <2>1, <3>1, OpenFields
  <2>2. CASE ~(head # NoKey \/ done.machine.run # NoKey)
    <3>1. tab' = f
      BY <1>3, <2>2
    <3>2. f \in Engine
      BY <1>14, EngineType, Values
    <3>3. /\ Who(done, f) /\ Where(done, f) /\ Waiting(done, f) /\ f.machine = done.machine
          /\ f.read = done.read /\ f.stream = "closed" /\ f.connection = "connected"
      BY <1>14, <3>2, EngineFields DEF EmptyEngine, Who, Where, Waiting
    <3> HIDE DEF f
    <3> QED
      BY <2>2, <3>1, <3>2, <3>3
  <2> QED
    BY <2>1, <2>2
<1> HIDE DEF f
<1>16. /\ tab'.active = tab.active /\ tab'.broken = tab.broken /\ tab'.pending = applied.pending
       /\ tab'.deferred = applied.deferred
  BY <1>12, <1>13, <1>14, <1>15 DEF Alike, Who
<1>17. /\ tab'.position = Len(View) /\ tab'.steers = tab.steers /\ tab'.ended = shown.ended
       /\ done.connection = tab.connection
  BY <1>12, <1>13, <1>14, <1>15 DEF Alike, Where, Linked
<1>18. ~tab'.hydrating /\ tab'.recovering = shown.recovering
  BY <1>12, <1>13, <1>14, <1>15 DEF Alike, Waiting
<1>19. /\ tab'.read = NoRead
       /\ tab'.machine = IF HasPending(applied) /\ applied.machine.phase = "idle" THEN FAIL("unknown")
                         ELSE applied.machine
  BY <1>12, <1>13, <1>14, <1>15
<1>20. IF tab.deferred
       THEN tab'.machine = SettledMachine(top, settled, tab.pending.key)
       ELSE IF HasPending(tab) /\ top.phase = "idle" THEN \E error \in Errors : tab'.machine = FAIL(error)
            ELSE tab'.machine = top
  <2>1. CASE tab.deferred
    <3>1. ~HasPending(applied)
      BY <1>12, <2>1 DEF HasPending, NoPending
    <3> QED
      BY <1>12, <1>19, <2>1, <3>1
  <2>2. CASE ~tab.deferred
    <3>1. HasPending(applied) <=> HasPending(tab)
      BY <1>12, <2>2 DEF HasPending
    <3>2. FAIL(tab.retryError).phase = "error"
      BY DEF FAIL
    <3>3. "unknown" \in Errors
      BY Values
    <3> QED
      BY <1>5, <1>12, <1>19, <2>2, <3>1, <3>2, <3>3
  <2> QED
    BY <2>1, <2>2
<1> QED
  BY <1>1, <1>2, <1>3, <1>11, <1>12, <1>15, <1>16, <1>17, <1>18, <1>19, <1>20
  DEF HydrateOwnerView, recover, base, top, head, settled

(* What the other answers to reads and the stream do to a view *)

HydrateFailsView == tab.active \in Convs /\ tab.read.kind \in {"hydrate", "recover"} /\ Asks(tab, tab')

\* What a hydration that fails (hydrate catch) does to each field of the view.
LEMMA HydrateFailsFields == ASSUME IInv, HydrateFails PROVE HydrateFailsView
<1> DEFINE a == AbortRead(tab)
<1>1. tab \in Engine /\ tab.active \in Convs
  BY Awake DEF IInv, TypeOK, HydrateFails
<1>2. tab' = Answered(a) /\ tab.read.kind \in {"hydrate", "recover"}
  BY DEF HydrateFails
<1>3. a \in Engine /\ GivesUpRead(tab, a)
  BY <1>1, AbortReadFields
<1> HIDE DEF a
<1>4. tab' \in Engine /\ Alike(a, tab') /\ tab'.machine = a.machine /\ tab'.read = NoRead
  BY <1>2, <1>3, AnsweredFields
<1>5. NoRead.kind = "none"
  BY DEF NoRead
<1> QED
  BY <1>1, <1>2, <1>3, <1>4, <1>5
  DEF HydrateFailsView, Asks, GivesUpRead, Alike, Who, Where, Linked, Waiting

\* A thread that took the owner's snapshot over.
Adopted(e, f, view) ==
    LET m == HeadMachine(IdleMachine, view) IN
    /\ f \in Engine /\ Who(e, f) /\ Waiting(e, f) /\ f.position = Len(view)
    /\ f.steers = e.steers /\ f.read = e.read
    /\ e.ended \subseteq f.ended /\ (HasPending(e) => Terminals(view) \subseteq f.ended)
    /\ f.machine = IF HasPending(e) /\ m.phase = "idle" THEN FAIL("unknown") ELSE m
    /\ f.stream = IF ExecutionHead(view) # NoKey THEN "connecting" ELSE "closed"
    /\ f.connection = IF ExecutionHead(view) # NoKey THEN e.connection ELSE "connected"

\* A thread whose owner says that nothing is left to follow, or nothing new.
Rests(e, f) ==
    /\ f \in Engine /\ Who(e, f) /\ Waiting(e, f) /\ f.position = e.position /\ f.steers = e.steers
    /\ e.ended \subseteq f.ended /\ f.machine = e.machine /\ f.read = e.read

SyncOwnerView ==
    LET asks == tab.machine.phase = "idle" \/ (HasPending(tab) /\ tab.machine.error = "unknown") IN
    /\ tab.active \in Convs /\ tab.read.kind = "sync" /\ tab.read.at > Absent /\ View \in Seq(Event)
    /\ \E e \in Engine :
        /\ Rests(Answered(tab), e) /\ Linked(tab, e)
        /\ (HasPending(tab) => Terminals(View) \subseteq e.ended)
        /\ \/ tab' = e
           \/ asks /\ Rests(e, tab') /\ tab'.stream = "closed" /\ tab'.connection \in {e.connection, "connected"}
           \/ asks /\ ExecutionHead(View) # NoKey /\ Adopted(e, tab', View)

\* What the read after a run's end (syncWorkspaceFiles) does to each field of the view.
LEMMA SyncOwnerFields == ASSUME IInv, SyncOwner PROVE SyncOwnerView
<1>1. tab \in Engine /\ tab.active \in Convs
  BY Awake DEF IInv, TypeOK, SyncOwner
<1> DEFINE a == Answered(tab)
           read == Observe(a, View)
           b == [read EXCEPT !.stream = "closed", !.connection = "connected"]
           c == [read EXCEPT !.stream = "closed"]
           d == Adopt(read, View)
           asks == read.machine.phase = "idle" \/ (HasPending(read) /\ read.machine.error = "unknown")
           head == ExecutionHead(View)
<1>2. View \in Seq(Event) /\ tab.read.at > Absent /\ tab.read.kind = "sync"
  BY <1>1, ViewType DEF SyncOwner
<1>3. tab' = read \/ (asks /\ tab' \in {b, c}) \/ (asks /\ head # NoKey /\ tab' = d)
  <2>1. tab' = IF ~asks \/ (head = NoKey /\ tab.position # tab.read.cursor) THEN read
               ELSE IF head = NoKey THEN b
               ELSE IF head \in {tab.read.run} \cup tab.read.ended \cup read.ended THEN c
               ELSE d
    BY DEF SyncOwner
  <2> HIDE DEF b, c, d, read, asks, head
  <2> QED
    BY <2>1
<1>4. a \in Engine /\ Alike(tab, a) /\ a.machine = tab.machine /\ a.read = NoRead
  BY <1>1, AnsweredFields
<1> HIDE DEF a
<1>5. /\ read \in Engine /\ Who(a, read) /\ Linked(a, read) /\ Waiting(a, read)
      /\ read.position = a.position /\ read.steers = a.steers /\ read.machine = a.machine
      /\ read.read = a.read /\ a.ended \subseteq read.ended
      /\ (HasPending(a) => Terminals(View) \subseteq read.ended)
  BY <1>2, <1>4, ObserveFields
<1> HIDE DEF read, head
<1>6. Rests(a, read) /\ Linked(tab, read)
  BY <1>4, <1>5 DEF Rests, Alike, Linked
<1>7. (HasPending(read) <=> HasPending(tab)) /\ (HasPending(a) <=> HasPending(tab))
  BY <1>4, <1>5 DEF Alike, Who, HasPending
<1>8. asks <=> tab.machine.phase = "idle" \/ (HasPending(tab) /\ tab.machine.error = "unknown")
  BY <1>4, <1>5, <1>7
<1>9. /\ Rests(read, b) /\ b.stream = "closed" /\ b.connection = "connected"
      /\ Rests(read, c) /\ c.stream = "closed" /\ c.connection = read.connection
  <2>1. b \in Engine /\ c \in Engine
    BY <1>5, EngineType, Values
  <2> QED
    BY <1>5, <2>1, EngineFields DEF EmptyEngine, Rests, Who, Waiting
<1>10. Adopted(read, d, View)
  BY <1>2, <1>5, AdoptFields DEF Adopted
<1> HIDE DEF b, c, d, asks
<1>11. HasPending(tab) => Terminals(View) \subseteq read.ended
  BY <1>5, <1>7
<1>12. \/ tab' = read
       \/ asks /\ Rests(read, tab') /\ tab'.stream = "closed" /\ tab'.connection \in {read.connection, "connected"}
       \/ asks /\ ExecutionHead(View) # NoKey /\ Adopted(read, tab', View)
  BY <1>3, <1>9, <1>10 DEF head
<1> QED
  BY <1>1, <1>2, <1>5, <1>6, <1>8, <1>11, <1>12 DEF SyncOwnerView, a

SyncAbsentView ==
    /\ tab.active \in Convs /\ tab.read.kind = "sync" /\ tab.read.at = Absent
    /\ tab' \in Engine /\ Who(tab, tab') /\ Where(tab, tab') /\ Waiting(tab, tab')
    /\ tab'.machine = tab.machine /\ tab'.read = NoRead /\ tab'.connection = tab.connection
    /\ tab'.stream = tab.stream \/ (tab.machine.phase = "idle" /\ tab'.stream = "closed")

\* What the read after a run's end that finds no conversation (syncWorkspaceFiles) does to each
\* field of the view.
LEMMA SyncAbsentFields == ASSUME IInv, SyncAbsent PROVE SyncAbsentView
<1>1. tab \in Engine /\ tab.active \in Convs
  BY Awake DEF IInv, TypeOK, SyncAbsent
<1> DEFINE a == Answered(tab)
           b == [a EXCEPT !.stream = "closed"]
<1>2. a \in Engine /\ Alike(tab, a) /\ a.machine = tab.machine /\ a.read = NoRead
  BY <1>1, AnsweredFields
<1>3. tab' = a \/ (tab.machine.phase = "idle" /\ tab' = b)
  BY DEF SyncAbsent
<1> HIDE DEF a
<1>4. /\ b \in Engine /\ Who(a, b) /\ Where(a, b) /\ Waiting(a, b)
      /\ b.machine = a.machine /\ b.read = a.read /\ b.connection = a.connection /\ b.stream = "closed"
  <2>1. b \in Engine
    BY <1>2, EngineType, Values
  <2> QED
    BY <1>2, <2>1, EngineFields DEF EmptyEngine, Who, Where, Waiting
<1> HIDE DEF b
<1>5. CASE tab' = a
  BY <1>1, <1>2, <1>5 DEF SyncAbsent, SyncAbsentView, Alike, Linked
<1>6. CASE tab.machine.phase = "idle" /\ tab' = b
  <2>1. Who(tab, b) /\ Where(tab, b) /\ Waiting(tab, b) /\ b.connection = tab.connection
    BY <1>2, <1>4 DEF Alike, Who, Where, Waiting, Linked
  <2> QED
    BY <1>1, <1>2, <1>4, <1>6, <2>1 DEF SyncAbsent, SyncAbsentView
<1> QED
  BY <1>3, <1>5, <1>6

StopOwnerView ==
    /\ tab.active \in Convs /\ tab.read.kind = "stop" /\ tab.read.at > Absent /\ View \in Seq(Event)
    /\ \/ tab' = Answered(tab)
       \/ \E e \in Engine : Alike(Answered(tab), e) /\ e.read = NoRead /\ Adopted(e, tab', View)

\* What the read after a stop (cancelRun) does to each field of the view.
LEMMA StopOwnerFields == ASSUME IInv, StopOwner PROVE StopOwnerView
<1>1. tab \in Engine /\ tab.active \in Convs
  BY Awake DEF IInv, TypeOK, StopOwner
<1> DEFINE a == Answered(tab)
           b == [a EXCEPT !.stop = NoStop]
           d == Adopt(b, View)
<1>2. View \in Seq(Event) /\ tab.read.at > Absent /\ tab.read.kind = "stop"
  BY <1>1, ViewType DEF StopOwner
<1>3. a \in Engine /\ Alike(tab, a) /\ a.machine = tab.machine /\ a.read = NoRead
  BY <1>1, AnsweredFields
<1>4. tab' = a \/ tab' = d
  BY DEF StopOwner
<1> HIDE DEF a
<1>5. b \in Engine /\ Alike(a, b) /\ b.read = a.read
  <2>1. b \in Engine
    BY <1>3, EngineType, NoStopType
  <2> QED
    BY <1>3, <2>1, EngineFields DEF EmptyEngine, Alike, Who, Where, Linked, Waiting
<1> HIDE DEF b
<1>6. Adopted(b, d, View)
  BY <1>2, <1>5, AdoptFields DEF Adopted
<1> HIDE DEF d
<1> QED
  BY <1>1, <1>2, <1>3, <1>4, <1>5, <1>6 DEF StopOwnerView, a

ReadFailsView ==
    /\ tab.active \in Convs /\ tab.read.kind \in {"sync", "stop"}
    /\ tab' = Answered(tab)

\* What a read after a run's end or a stop that fails does to each field of the view.
LEMMA ReadFailsFields == ASSUME IInv, ReadFails PROVE ReadFailsView
  BY Awake DEF ReadFails, ReadFailsView

\* The stream connects, drops and fails.
LinkView(stream, connection) ==
    /\ tab.active \in Convs /\ tab.stream # "closed"
    /\ tab' \in Engine /\ Who(tab, tab') /\ Where(tab, tab') /\ Waiting(tab, tab')
    /\ tab'.machine = tab.machine /\ tab'.read = tab.read
    /\ tab'.stream = stream /\ tab'.connection = connection

\* What a stream that connects (onConnected) does to each field of the view.
LEMMA StreamConnectsFields ==
    ASSUME IInv, StreamConnects
    PROVE  tab.stream = "connecting" /\ LinkView("live", "connected")
<1>1. tab \in Engine /\ tab.active \in Convs
  BY Awake DEF IInv, TypeOK, StreamConnects
<1>2. tab' \in Engine
  BY StreamConnectsQuiet DEF QuietStep
<1> QED
  BY <1>1, <1>2, EngineFields DEF StreamConnects, LinkView, EmptyEngine, Who, Where, Waiting

\* What a stream that breaks (onReconnecting) does to each field of the view.
LEMMA StreamDropsFields == ASSUME IInv, StreamDrops PROVE LinkView("connecting", "reconnecting")
<1>1. tab \in Engine /\ tab.active \in Convs
  BY Awake DEF IInv, TypeOK, StreamDrops
<1>2. tab' \in Engine
  BY StreamDropsQuiet DEF QuietStep
<1> QED
  BY <1>1, <1>2, EngineFields DEF StreamDrops, LinkView, EmptyEngine, Who, Where, Waiting

\* What a stream that ends for good (onStreamError) does to each field of the view.
LEMMA StreamFailsFields == ASSUME IInv, StreamFails PROVE LinkView("closed", "unavailable")
<1>1. tab \in Engine /\ tab.active \in Convs
  BY Awake DEF IInv, TypeOK, StreamFails
<1>2. tab' \in Engine
  BY StreamFailsQuiet DEF QuietStep
<1> QED
  BY <1>1, <1>2, EngineFields DEF StreamFails, LinkView, EmptyEngine, Who, Where, Waiting

\* reattachTimeoutMs: a timer of another run is cleared, or the connection is given up.
TimeoutView ==
    /\ tab.active \in Convs
    /\ \/ tab' \in Engine /\ Alike(tab, tab') /\ tab'.machine = tab.machine /\ tab'.read = tab.read
       \/ \E e \in Engine :
            /\ GivesUpRead(tab, e)
            /\ tab' \in Engine /\ Who(e, tab') /\ Where(e, tab') /\ Waiting(e, tab')
            /\ tab'.machine = e.machine /\ tab'.read = NoRead
            /\ tab'.stream = "closed" /\ tab'.connection = "unavailable"

\* What the time-out of a reattached run (reattachTimer) does to each field of the view.
LEMMA ReattachTimesOutFields == ASSUME IInv, ReattachTimesOut PROVE TimeoutView
<1>1. tab \in Engine /\ tab.active \in Convs
  BY Awake DEF IInv, TypeOK, ReattachTimesOut
<1> DEFINE a == AbortRead(tab)
           g == [a EXCEPT !.read = NoRead, !.stream = "closed", !.connection = "unavailable", !.timer = NoKey]
           s == [tab EXCEPT !.timer = NoKey]
<1>2. a \in Engine /\ GivesUpRead(tab, a)
  BY <1>1, AbortReadFields
<1>3. tab' = s \/ tab' = g
  BY DEF ReattachTimesOut
<1> HIDE DEF a
<1>4. /\ g \in Engine /\ Who(a, g) /\ Where(a, g) /\ Waiting(a, g) /\ g.machine = a.machine /\ g.read = NoRead
      /\ g.stream = "closed" /\ g.connection = "unavailable"
  <2>1. g \in Engine
    BY <1>2, EngineType, Values, NoReadType
  <2> QED
    BY <1>2, <2>1, EngineFields DEF EmptyEngine, Who, Where, Waiting
<1>5. s \in Engine /\ Alike(tab, s) /\ s.machine = tab.machine /\ s.read = tab.read
  <2>1. s \in Engine
    BY <1>1, EngineType, Values
  <2> QED
    BY <1>1, <2>1, EngineFields DEF EmptyEngine, Alike, Who, Where, Linked, Waiting
<1> HIDE DEF g, s
<1> QED
  BY <1>1, <1>2, <1>3, <1>4, <1>5 DEF TimeoutView

ExpiresView ==
    /\ tab.active \in Convs /\ tab.stream = "connecting"
    /\ tab' \in Engine /\ Who(tab, tab') /\ tab'.position = tab.position
    /\ tab'.machine = tab.machine /\ tab'.recovering /\ tab'.hydrating = tab.hydrating
    /\ tab'.read.kind = "recover" /\ tab'.read.at = Travelling /\ tab'.ended = {} /\ tab'.steers = {}
    /\ tab'.stream = "closed" /\ tab'.connection = "reconnecting"

\* What an expired cursor (onStreamError, event_cursor_expired) does to each field of the view.
LEMMA StreamExpiresFields == ASSUME IInv, StreamExpires PROVE ExpiresView
<1>1. tab \in Engine /\ tab.active \in Convs
  BY Awake DEF IInv, TypeOK, StreamExpires
<1> DEFINE error == IF tab.machine.phase = "submitting" THEN "none" ELSE tab.retryError
           g == [tab EXCEPT !.stream = "closed", !.recovering = TRUE, !.timer = NoKey,
                            !.connection = "reconnecting", !.retryError = error]
<1>2. error \in Errors
  BY <1>1, EngineType, Values
<1>3. tab' = Hydrate(g, "recover") /\ tab.stream = "connecting"
  BY DEF StreamExpires
<1> HIDE DEF error
<1>4. /\ g \in Engine /\ Who(tab, g) /\ Where(tab, g) /\ g.machine = tab.machine /\ g.recovering
      /\ g.hydrating = tab.hydrating /\ g.stream = "closed" /\ g.connection = "reconnecting"
  <2>1. g \in Engine
    BY <1>1, <1>2, EngineType, Values
  <2> QED
    BY <1>1, <2>1, EngineFields DEF EmptyEngine, Who, Where
<1> HIDE DEF g
<1>5. /\ tab' \in Engine /\ Who(g, tab') /\ Linked(g, tab') /\ tab'.position = g.position
      /\ tab'.ended = {} /\ tab'.steers = {} /\ tab'.machine = g.machine
      /\ tab'.recovering = g.recovering /\ tab'.hydrating = g.hydrating
      /\ tab'.read.kind = "recover" /\ tab'.read.at = Travelling
  BY <1>3, <1>4, HydrateFields
<1> QED
  BY <1>1, <1>3, <1>4, <1>5 DEF ExpiresView, Who, Where, Linked

\* A thread that heard the events up to n.
Heeds(e, n, reduced, ends, f) ==
    /\ f \in Engine /\ Who(e, f) /\ Linked(e, f) /\ Waiting(e, f)
    /\ f.position = n /\ f.steers = e.steers
    /\ f.ended = IF e.steers # {} \/ HasPending(e) THEN e.ended \cup ends ELSE e.ended
    /\ f.machine = IF HasPending(e) /\ reduced.machine.phase = "idle" THEN FAIL("unknown") ELSE reduced.machine
    /\ f.read.kind = Touched(e.read).kind /\ f.read.at = Touched(e.read).at

\* What a batch does to each field of the view (handleStreamEvents).
LEMMA AdvancedFields ==
    ASSUME NEW e \in Engine, NEW n \in Nat, NEW reduced \in Reduced, NEW ends \in KeySets
    PROVE  Heeds(e, n, reduced, ends, Expose(Advanced(e, n, reduced, ends)))
<1> DEFINE t == Touch(e)
           timer == IF reduced.machine.phase = "streaming" \/ reduced.settled # NoKey
                    THEN NoKey ELSE t.timer
           ended == IF e.steers # {} \/ HasPending(e) THEN t.ended \cup ends ELSE t.ended
           readEnds == IF e.read.kind = "sync" THEN t.read.ended \cup ends ELSE t.read.ended
           read == [t.read EXCEPT !.ended = readEnds]
           f == [t EXCEPT !.machine = reduced.machine, !.position = n, !.timer = timer,
                          !.ended = ended, !.read = read]
           g == Advanced(e, n, reduced, ends)
           x == Expose(g)
<1>1. t \in Engine /\ Alike(e, t) /\ t.read = Touched(e.read)
  BY TouchFields DEF Touched
<1>2. g \in Engine
  BY AdvancedType
<1>3. t.read \in ReadType
  <2> HIDE DEF t
  <2> QED
    BY <1>1, EngineType
<1>4. g = f
  <2> HIDE DEF timer, ended, t
  <2>1. [t EXCEPT !.read.ended = readEnds] = [t EXCEPT !.read = read]
    BY <1>1, EngineType
  <2>2. g = [t EXCEPT !.machine = reduced.machine, !.position = n, !.timer = timer, !.ended = ended,
                      !.read.ended = readEnds]
    BY <1>1 DEF Advanced, t, timer, ended
  <2>3. f = [t EXCEPT !.machine = reduced.machine, !.position = n, !.timer = timer, !.ended = ended,
                      !.read.ended = readEnds]
    BY <1>1, <2>1, EngineFields DEF EmptyEngine
  <2> QED
    BY <2>2, <2>3
<1>5. read.kind = t.read.kind /\ read.at = t.read.at
  <2> HIDE DEF t, readEnds
  <2> QED
    BY <1>3 DEF ReadType
<1> HIDE DEF t, timer, ended, read, g
<1>6. /\ Who(t, g) /\ Linked(t, g) /\ Waiting(t, g) /\ g.position = n /\ g.steers = t.steers
      /\ g.ended = ended /\ g.machine = reduced.machine /\ g.read = read
  BY <1>1, <1>2, <1>4, EngineFields DEF EmptyEngine, Who, Linked, Waiting
<1>7. /\ x \in Engine /\ Alike(g, x) /\ x.read = g.read
      /\ x.machine = IF HasPending(g) /\ g.machine.phase = "idle" THEN FAIL("unknown") ELSE g.machine
  BY <1>2, ExposeFields
<1> HIDE DEF f, x
<1>8. Who(e, x) /\ Linked(e, x) /\ Waiting(e, x) /\ x.position = n /\ x.steers = e.steers
  BY <1>1, <1>6, <1>7 DEF Alike, Who, Where, Linked, Waiting
<1>9. HasPending(g) <=> HasPending(e)
  BY <1>1, <1>6 DEF HasPending, Alike, Who
<1>10. x.ended = IF e.steers # {} \/ HasPending(e) THEN e.ended \cup ends ELSE e.ended
  BY <1>1, <1>6, <1>7 DEF Alike, Where, ended
<1>11. x.read.kind = Touched(e.read).kind /\ x.read.at = Touched(e.read).at
  BY <1>1, <1>5, <1>6, <1>7
<1>12. x.machine = IF HasPending(e) /\ reduced.machine.phase = "idle" THEN FAIL("unknown") ELSE reduced.machine
  BY <1>6, <1>7, <1>9
<1> QED
  BY <1>7, <1>8, <1>10, <1>11, <1>12 DEF Heeds, x, g

EventsView ==
    /\ tab.active \in Convs /\ tab.stream = "live"
    /\ \E n \in (tab.position + 1) .. Len(log[tab.active]) :
        LET batch == SubSeq(log[tab.active], tab.position + 1, n)
            reduced == Reduce(tab.machine, batch)
        IN \E f \in Engine :
            /\ Heeds(tab, n, reduced, Terminals(batch), f)
            /\ IF reduced.settled = NoKey THEN tab' = f ELSE Asks(f, tab')

\* What a batch of events (handleStreamEvents) does to each field of the view.
LEMMA StreamEventsFields == ASSUME IInv, StreamEvents PROVE EventsView
<1>1. tab \in Engine /\ tab.active \in Convs
  BY Awake DEF IInv, TypeOK, StreamEvents
<1>2. PICK n \in (tab.position + 1) .. Len(log[tab.active]) :
        LET batch == SubSeq(log[tab.active], tab.position + 1, n)
            ends == Terminals(batch)
            reduced == Reduce(tab.machine, batch)
            exposed == Expose(Advanced(tab, n, reduced, ends))
        IN tab' = IF reduced.settled = NoKey THEN exposed
                  ELSE ReadOwner([exposed EXCEPT
                                    !.stop = IF @.run = reduced.settled THEN NoStop ELSE @],
                                 "sync", reduced.settled, ends, n)
  BY DEF StreamEvents
<1>3. tab.position \in Nat /\ tab.machine \in Machine
  BY <1>1, EngineType
<1>4. log[tab.active] \in Seq(Event) /\ Len(log[tab.active]) \in Nat
  BY <1>1, LogLength
<1>5. n \in Nat /\ n <= Len(log[tab.active])
  BY <1>3, <1>4
<1> DEFINE batch == SubSeq(log[tab.active], tab.position + 1, n)
           ends == Terminals(batch)
           reduced == Reduce(tab.machine, batch)
           f == Expose(Advanced(tab, n, reduced, ends))
           s == IF f.stop.run = reduced.settled THEN NoStop ELSE f.stop
           x == [f EXCEPT !.stop = s]
<1>6. batch \in Seq(Event)
  BY <1>3, <1>4, BatchType
<1>7. tab' = IF reduced.settled = NoKey THEN f ELSE ReadOwner(x, "sync", reduced.settled, ends, n)
  BY <1>2
<1> HIDE DEF batch
<1>8. ends \in KeySets
  BY <1>6, LedgerType
<1>9. reduced \in Reduced /\ reduced.settled \in SomeKey
  BY <1>3, <1>6, ReduceType DEF Reduced
<1> HIDE DEF ends, reduced
<1>10. Heeds(tab, n, reduced, ends, f) /\ f \in Engine
  <2>1. Heeds(tab, n, reduced, ends, f)
    BY <1>1, <1>5, <1>8, <1>9, AdvancedFields
  <2> HIDE DEF f
  <2> QED
    BY <2>1 DEF Heeds
<1> HIDE DEF f
<1>11. CASE reduced.settled = NoKey
  <2>1. tab' = f
    BY <1>7, <1>11
  <2> QED
    BY <1>1, <1>10, <1>11, <2>1 DEF EventsView, StreamEvents, batch, ends, reduced
<1>12. CASE reduced.settled # NoKey
  <2>1. x \in Engine /\ Alike(f, x) /\ x.machine = f.machine /\ x.read = f.read
    <3>1. s \in StopType
      BY <1>10, EngineType, NoStopType
    <3> HIDE DEF s
    <3>2. x \in Engine
      BY <1>10, <3>1, EngineType
    <3> QED
      BY <1>10, <3>2, EngineFields DEF EmptyEngine, Alike, Who, Where, Linked, Waiting
  <2> HIDE DEF x
  <2>2. tab' = ReadOwner(x, "sync", reduced.settled, ends, n)
    BY <1>7, <1>12
  <2> DEFINE kind == "sync"
             g == ReadOwner(x, kind, reduced.settled, ends, n)
             run == reduced.settled
             read == [kind |-> kind, at |-> Travelling, run |-> run, ended |-> ends, cursor |-> n]
  <2> HIDE DEF read
  <2>a. kind \in {"sync", "stop"}
    OBVIOUS
  <2>b. run \in SomeKey
    BY <1>9
  <2>c. tab' = g
    BY <2>2
  <2>d. g \in Engine /\ GivesUpRead(x, g) /\ g.read = read
    <3> HIDE DEF run, kind
    <3> QED
      BY <1>5, <1>8, <2>1, <2>a, <2>b, ReadOwnerFields DEF run, read
  <2>e. read.kind = "sync"
    BY DEF read
  <2> HIDE DEF g, kind, run
  <2>3. tab' \in Engine /\ GivesUpRead(x, tab') /\ tab'.read.kind = "sync"
    BY <2>c, <2>d, <2>e
  <2>4. Asks(f, tab')
    BY <2>1, <2>3 DEF Asks, GivesUpRead, Alike, Who, Where, Linked, Waiting
  <2> QED
    BY <1>1, <1>10, <1>12, <2>4 DEF EventsView, StreamEvents, batch, ends, reduced
<1> QED
  BY <1>11, <1>12

ReadExecutesView ==
    /\ tab.active \in Convs /\ tab.read.at = Travelling
    /\ tab' \in Engine /\ Alike(tab, tab') /\ tab'.machine = tab.machine
    /\ tab'.read.kind = tab.read.kind
    /\ tab'.read.at = IF tab.active \in gone THEN Absent ELSE Len(log[tab.active])

\* What the service answering a snapshot read does to each field of the view.
LEMMA ReadExecutesFields == ASSUME IInv, ReadExecutes PROVE ReadExecutesView
<1>1. tab \in Engine /\ tab.active \in Convs
  BY Awake DEF IInv, TypeOK, ReadExecutes
<1> DEFINE n == IF tab.active \in gone THEN Absent ELSE Len(log[tab.active])
           r == [tab.read EXCEPT !.at = n]
<1>2. tab' \in Engine
  BY ReadExecutesQuiet DEF QuietStep
<1>3. tab.read \in ReadType
  BY <1>1, EngineType
<1>4. r.at = n /\ r.kind = tab.read.kind
  <2> HIDE DEF n
  <2> QED
    BY <1>3 DEF ReadType
<1>5. tab' = [tab EXCEPT !.read = r]
  <2>1. tab' = [tab EXCEPT !.read.at = n]
    BY DEF ReadExecutes
  <2> HIDE DEF n
  <2> QED
    BY <1>1, <2>1, EngineType
<1> HIDE DEF r
<1>6. Alike(tab, tab') /\ tab'.machine = tab.machine /\ tab'.read = r
  BY <1>1, <1>2, <1>5, EngineFields DEF EmptyEngine, Alike, Who, Where, Linked, Waiting
<1> QED
  BY <1>1, <1>2, <1>4, <1>6 DEF ReadExecutes, ReadExecutesView

(* What a view shows is of one piece *)

\* A machine has a run in the phases of a run, and the unknown outcome is shown as an error.
Shaped(m) ==
    /\ m \in Machine
    /\ m.run = NoKey <=> m.phase \in {"idle", "submitting", "error"}
    /\ m.error = "unknown" => m.phase = "error"

\* An intent is not out of sight.
Visible(e) == Shaped(e.machine) /\ (HasPending(e) => e.machine.phase # "idle")

\* A tab that reads its owner again follows no stream meanwhile.
RecoverIsQuiet(e) == e.read.kind = "recover" => e.stream = "closed" /\ e.recovering /\ e.steers = {}

\* Without connections that fail or expire, only a storage that fails takes the connection away, and
\* no read is asked for in the middle of a loading.
LoadsOnce(e) ==
    {"fail", "expire"} \cap Faults = {} =>
        /\ e.read.kind # "recover"
        /\ e.connection = "unavailable" => e.broken
        /\ e.hydrating => e.read.kind = "hydrate"

\* Without connections that drop or fail, a tab that is sending is connected, or has no stream.
DefersWhile(e) ==
    {"drop", "fail"} \cap Faults = {} =>
        /\ e.deferred /\ e.machine.phase = "submitting" =>
              e.hydrating \/ e.recovering \/ e.connection # "connected"
        /\ e.machine.phase = "submitting" /\ e.connection # "connected" => e.stream = "closed"
        /\ e.read.kind = "hydrate" => e.connection = "connected"

Sound(e) == Visible(e) /\ RecoverIsQuiet(e) /\ LoadsOnce(e) /\ DefersWhile(e)

\* The transitions of machine-state.ts keep the shape of the run machine.
LEMMA MachineShapes ==
    ASSUME NEW m, Shaped(m)
    PROVE  /\ Shaped(SUBMIT(m)) /\ SUBMIT(m).phase # "idle"
           /\ \A k \in Keys : Shaped(RECEIPT(m, k)) /\ RECEIPT(m, k).phase # "submitting"
                              /\ (m.phase # "idle" => RECEIPT(m, k).phase # "idle")
           /\ Shaped([CANCEL(m) EXCEPT !.error = "none"])
           /\ m.run # NoKey => [CANCEL(m) EXCEPT !.error = "none"].phase = "cancelling"
           /\ Shaped([m EXCEPT !.error = "failed"]) /\ [m EXCEPT !.error = "failed"].phase = m.phase
<1> USE KeysAssumption DEF Shaped, Machine, Phases, Errors
<1>1. Shaped(SUBMIT(m)) /\ SUBMIT(m).phase # "idle"
  BY DEF SUBMIT, Resting, Running
<1>2. ASSUME NEW k \in Keys
      PROVE  Shaped(RECEIPT(m, k)) /\ RECEIPT(m, k).phase # "submitting" /\ (m.phase # "idle" => RECEIPT(m, k).phase # "idle")
  BY DEF RECEIPT, Running
<1>3. Shaped([CANCEL(m) EXCEPT !.error = "none"])
  BY DEF CANCEL
<1>4. m.run # NoKey => [CANCEL(m) EXCEPT !.error = "none"].phase = "cancelling"
  BY DEF CANCEL
<1>5. Shaped([m EXCEPT !.error = "failed"]) /\ [m EXCEPT !.error = "failed"].phase = m.phase
  OBVIOUS
<1> QED
  BY <1>1, <1>2, <1>3, <1>4, <1>5

\* The fixed states of machine-state.ts have the shape.
LEMMA FixedShapes ==
    /\ Shaped(IdleMachine) /\ IdleMachine.phase = "idle" /\ IdleMachine.run = NoKey
    /\ \A error \in Errors : Shaped(FAIL(error)) /\ FAIL(error).phase = "error" /\ FAIL(error).run = NoKey
    /\ \A k \in Keys : /\ Shaped(RECEIPT(SUBMIT(IdleMachine), k))
                       /\ RECEIPT(SUBMIT(IdleMachine), k) = Running("queued", k)
                       /\ Running("queued", k).phase = "queued" /\ Running("queued", k).run = k
  BY KeysAssumption DEF Shaped, Machine, Phases, Errors, IdleMachine, FAIL, RECEIPT, SUBMIT, Resting, Running

\* REATTACH keeps the shape, and a machine at rest takes the head of a snapshot over.
LEMMA HeadShapes ==
    ASSUME NEW m, Shaped(m), NEW view \in Seq(Event)
    PROVE  LET h == HeadMachine(m, view) IN
           /\ Shaped(h)
           /\ h.phase = "submitting" => h = m
           /\ h.phase = "idle" => h = m /\ ExecutionHead(view) = NoKey
           /\ h # m => h.run = ExecutionHead(view) /\ h.run # NoKey
           /\ ExecutionHead(view) # NoKey => ~Resting(h)
<1>1. ExecutionHead(view) \in Keys \cup {NoKey} /\ HeadState(view) \in {"active", "queued"}
  BY HeadType DEF SomeKey, HeadState
<1> DEFINE k == ExecutionHead(view)
           state == HeadState(view)
<1> HIDE DEF k, state
<1>2. ASSUME k \in Keys
      PROVE  LET h == REATTACH(m, k, state) IN
             Shaped(h) /\ (h.phase = "submitting" => h = m) /\ h.phase # "idle" /\ (h # m => h.run = k)
             /\ ~Resting(h)
  BY <1>1, <1>2, KeysAssumption DEF REATTACH, Running, Resting, Shaped, Machine, Phases, Errors, state
<1>3. CASE k = NoKey
  BY <1>3 DEF HeadMachine, k
<1>4. CASE k \in Keys
  BY <1>2, <1>4, KeysAssumption DEF HeadMachine, k, state
<1> QED
  BY <1>1, <1>3, <1>4 DEF k

\* A step of the fold keeps the shape of the machine, and leaves a message that is being sent.
LEMMA EventShapes ==
    ASSUME NEW m, Shaped(m), NEW ev \in Event
    PROVE  LET n == STREAM_EVENT(m, ev) IN
           Shaped(n) /\ (n.phase = "submitting" => m.phase = "submitting")
  BY KeysAssumption DEF STREAM_EVENT, Heard, Resting, Running, IdleMachine, Event, Shaped, Machine, Phases, Errors

\* Folding a batch into the run machine keeps its shape, however long the batch is (event-
\* reducer.ts).
LEMMA ReduceShapes ==
    ASSUME NEW m, Shaped(m), NEW batch \in Seq(Event)
    PROVE  LET r == Reduce(m, batch) IN
           Shaped(r.machine) /\ (r.machine.phase = "submitting" => m.phase = "submitting")
<1>1. PICK f \in [0..Len(batch) -> Reduced] :
        /\ f[0] = [machine |-> m, settled |-> NoKey]
        /\ \A n \in 1..Len(batch) : f[n] = ReduceEvent(f[n - 1], batch[n])
        /\ Reduce(m, batch) = f[Len(batch)]
  BY ReduceRuns DEF Shaped
<1>2. Len(batch) \in Nat /\ \A n \in 1..Len(batch) : batch[n] \in Event
  BY SeqFacts
<1> DEFINE Fine(r) == Shaped(r.machine) /\ (r.machine.phase = "submitting" => m.phase = "submitting")
           T == {n \in Nat : n <= Len(batch) => Fine(f[n])}
<1>3. 0 \in T
  <2>1. f[0].machine = m
    BY <1>1
  <2> QED
    BY <2>1
<1>4. ASSUME NEW n \in Nat, n \in T PROVE n + 1 \in T
  <2>1. SUFFICES ASSUME n + 1 <= Len(batch) PROVE Fine(f[n + 1])
    OBVIOUS
  <2>2. n + 1 \in 1..Len(batch) /\ Fine(f[n]) /\ (n + 1) - 1 = n
    BY <1>2, <1>4, <2>1
  <2>3. f[n + 1] = ReduceEvent(f[n], batch[n + 1]) /\ batch[n + 1] \in Event
    BY <1>1, <1>2, <2>2
  <2>4. f[n + 1].machine = STREAM_EVENT(f[n].machine, batch[n + 1])
    BY <2>3 DEF ReduceEvent
  <2> QED
    BY <2>2, <2>3, <2>4, EventShapes
<1>5. Len(batch) \in T
  <2> HIDE DEF T
  <2> QED
    BY <1>2, <1>3, <1>4, Induction
<1> QED
  BY <1>1, <1>2, <1>5

(* Every step keeps a view of one piece *)

\* Marking the thread as changed gives up at most the read.
LEMMA TouchedKind == ASSUME NEW read PROVE Touched(read).kind \in {read.kind, "none"}
  BY DEF Touched, NoRead

\* Sending a message (submit) keeps the view sound.
LEMMA SubmitSound ==
    ASSUME IInv, Sound(tab), NEW c \in Convs, NEW k \in Keys, Submit(c, k)
    PROVE  Sound(tab')
<1> USE DEF Sound
<1>1. SubmitView(c, k)
  BY SubmitFields
<1>2. Touched(tab.read).kind \in {tab.read.kind, "none"}
  BY TouchedKind
<1>3. Shaped(SUBMIT(tab.machine)) /\ SUBMIT(tab.machine).phase # "idle"
  BY MachineShapes DEF Visible
<1>4. Visible(tab')
  BY <1>1, <1>3 DEF SubmitView, Visible, HasPending
<1>5. RecoverIsQuiet(tab')
  BY <1>1, <1>2 DEF SubmitView, RecoverIsQuiet, Where, Linked, Waiting
<1>6. LoadsOnce(tab')
  BY <1>1, <1>2 DEF SubmitView, LoadsOnce, Linked, Waiting, Touched
<1>7. DefersWhile(tab')
  BY <1>1, <1>2 DEF SubmitView, DefersWhile, Linked, Waiting
<1> QED
  BY <1>4, <1>5, <1>6, <1>7

\* Sending a message during a run (submit, run shown) keeps the view sound.
LEMMA SteerSound == ASSUME IInv, Sound(tab), NEW k \in Keys, Steer(k) PROVE Sound(tab')
<1> USE DEF Sound
<1>1. SteerView(k)
  BY SteerFields
<1>2. Touched(tab.read).kind \in {tab.read.kind, "none"}
  BY TouchedKind
<1>3. Visible(tab')
  BY <1>1 DEF SteerView, Visible, HasPending
<1>4. RecoverIsQuiet(tab')
  BY <1>1, <1>2 DEF SteerView, RecoverIsQuiet, Linked, Waiting
<1>5. LoadsOnce(tab')
  BY <1>1, <1>2 DEF SteerView, LoadsOnce, Linked, Waiting, Touched
<1>6. DefersWhile(tab')
  BY <1>1, <1>2 DEF SteerView, DefersWhile, Linked, Waiting
<1> QED
  BY <1>3, <1>4, <1>5, <1>6

\* The retry of a message whose receipt is known (reconcileKnownReceipt) keeps the view sound.
LEMMA RetryKnownSound == ASSUME IInv, Sound(tab), RetryKnown PROVE Sound(tab')
<1> USE DEF Sound
<1>1. RetryKnownView
  BY RetryKnownFields
<1>2. Visible(tab')
  BY <1>1, FixedShapes DEF RetryKnownView, Visible, HasPending, NoPending
<1>3. RecoverIsQuiet(tab') /\ LoadsOnce(tab') /\ DefersWhile(tab')
  BY <1>1 DEF RetryKnownView, RecoverIsQuiet, LoadsOnce, DefersWhile, Linked
<1> QED
  BY <1>2, <1>3

\* Posting a message again (retry) keeps the view sound.
LEMMA RetrySound == ASSUME IInv, Sound(tab), Retry PROVE Sound(tab')
<1> USE DEF Sound
<1>1. RetryView
  BY RetryFields
<1>2. Visible(tab')
  BY <1>1, MachineShapes DEF RetryView, Visible, HasPending
<1>3. RecoverIsQuiet(tab') /\ LoadsOnce(tab') /\ DefersWhile(tab')
  BY <1>1 DEF RetryView, RecoverIsQuiet, LoadsOnce, DefersWhile, Where, Linked, Waiting
<1> QED
  BY <1>2, <1>3

\* Giving a message up before its receipt (cancelPendingSubmission) keeps the view sound.
LEMMA StopSubmissionSound == ASSUME IInv, Sound(tab), StopSubmission PROVE Sound(tab')
<1> USE DEF Sound
<1>1. StopSubmissionView
  BY StopSubmissionFields
<1>2. Visible(tab')
  BY <1>1, FixedShapes DEF StopSubmissionView, Visible, HasPending, NoPending
<1>3. RecoverIsQuiet(tab') /\ LoadsOnce(tab')
  BY <1>1 DEF StopSubmissionView, RecoverIsQuiet, LoadsOnce, Where, Linked, Waiting
<1>4. DefersWhile(tab')
  BY <1>1, FixedShapes DEF StopSubmissionView, DefersWhile, Linked
<1> QED
  BY <1>2, <1>3, <1>4

\* Stopping the run shown (cancelRun) keeps the view sound.
LEMMA StopRunSound == ASSUME IInv, Sound(tab), StopRun PROVE Sound(tab')
<1> USE DEF Sound
<1>1. StopRunView
  BY StopRunFields
<1>2. Shaped(tab'.machine) /\ tab'.machine.phase = "cancelling"
  BY <1>1, MachineShapes DEF StopRunView, Visible
<1>3. Visible(tab')
  BY <1>2 DEF Visible
<1>4. RecoverIsQuiet(tab') /\ LoadsOnce(tab') /\ DefersWhile(tab')
  BY <1>1, <1>2 DEF StopRunView, RecoverIsQuiet, LoadsOnce, DefersWhile, Alike, Who, Where, Linked, Waiting
<1> QED
  BY <1>3, <1>4

\* A read that gives up the one before it.
LEMMA AsksSound ==
    ASSUME NEW e \in Engine, Sound(e), NEW f, Asks(e, f)
    PROVE  Sound(f)
<1> USE DEF Sound
<1>1. Shaped(FAIL("failed")) /\ FAIL("failed").phase = "error"
  BY FixedShapes, Values
<1>2. Visible(f)
  BY <1>1 DEF Asks, Visible, HasPending, Who
<1>3. RecoverIsQuiet(f)
  BY DEF Asks, RecoverIsQuiet
<1>4. LoadsOnce(f)
  BY DEF Asks, LoadsOnce, Who
<1>5. DefersWhile(f)
  BY <1>1 DEF Asks, DefersWhile, RecoverIsQuiet, Who
<1> QED
  BY <1>2, <1>3, <1>4, <1>5

\* A view of which only the machine changes, and not to one that is being sent.
LEMMA AlikeSound ==
    ASSUME NEW e \in Engine, Sound(e), NEW f, Alike(e, f), f.read.kind \in {e.read.kind, "none"},
           e.read.kind = "hydrate" => f.read.kind = "hydrate",
           Shaped(f.machine), f.machine.phase = "submitting" => e.machine.phase = "submitting",
           HasPending(e) => f.machine.phase # "idle"
    PROVE  Sound(f)
<1> USE DEF Sound
<1>1. Visible(f)
  BY DEF Alike, Who, HasPending, Visible
<1>2. RecoverIsQuiet(f)
  BY DEF Alike, Where, Linked, Waiting, RecoverIsQuiet
<1>3. LoadsOnce(f)
  BY DEF Alike, Who, Linked, Waiting, LoadsOnce
<1>4. DefersWhile(f)
  BY DEF Alike, Who, Linked, Waiting, DefersWhile
<1> QED
  BY <1>1, <1>2, <1>3, <1>4

\* The answer to a stop (cancelRun's callbacks) keeps the view sound.
LEMMA StopAnsweredSound == ASSUME IInv, Sound(tab), StopAnswered PROVE Sound(tab')
<1>1. StopAnsweredView /\ tab \in Engine
  BY StopAnsweredFields DEF IInv, TypeOK
<1>2. Shaped(tab.machine) /\ (HasPending(tab) => tab.machine.phase # "idle")
  BY DEF Sound, Visible
<1>3. CASE Alike(tab, tab') /\ tab'.machine = tab.machine /\ tab'.read = tab.read
  BY <1>1, <1>2, <1>3, AlikeSound
<1>4. ASSUME NEW e \in Engine, Alike(tab, e), e.read = tab.read, Asks(e, tab'),
             e.machine \in {tab.machine, [tab.machine EXCEPT !.error = "failed"]}
      PROVE  Sound(tab')
  <2>1. Shaped(e.machine) /\ e.machine.phase = tab.machine.phase
    BY <1>2, <1>4, MachineShapes
  <2>2. Sound(e)
    BY <1>1, <1>2, <1>4, <2>1, AlikeSound
  <2> QED
    BY <1>4, <2>2, AsksSound
<1> QED
  BY <1>1, <1>3, <1>4 DEF StopAnsweredView

\* Opening a conversation of one's own (newConversation) keeps the view sound.
LEMMA NewSound == ASSUME IInv, Sound(tab), NEW c \in Convs, New(c) PROVE Sound(tab')
<1> USE DEF Sound
<1>1. NewView
  BY NewFields
<1>2. Visible(tab')
  BY <1>1, FixedShapes DEF NewView, Visible, HasPending, NoPending
<1>3. NoRead.kind = "none"
  BY DEF NoRead
<1>4. RecoverIsQuiet(tab') /\ LoadsOnce(tab') /\ DefersWhile(tab')
  BY <1>1, <1>3 DEF NewView, RecoverIsQuiet, LoadsOnce, DefersWhile
<1> QED
  BY <1>2, <1>4

\* What a slot shows is an intent in error, or nothing.
LEMMA RestoredVisible ==
    ASSUME NEW f, Restored(f)
    PROVE  Visible(f) /\ f.machine.phase # "submitting" /\ f.machine.run = NoKey
<1>1. CASE /\ f.pending = NoPending
           /\ f.machine = IF f.broken THEN FAIL("local") ELSE IdleMachine
  BY <1>1, FixedShapes, Values DEF Visible, HasPending, NoPending
<1>2. CASE \E error \in {"unknown", "failed"} : f.machine = FAIL(error)
  BY <1>2, FixedShapes, Values DEF Visible
<1> QED
  BY <1>1, <1>2 DEF Restored

\* A view just opened is sound.
LEMMA OpenedSound == ASSUME NEW f, OpenedView(f) PROVE Sound(f)
<1> USE DEF Sound
<1>1. Visible(f) /\ f.machine.phase # "submitting"
  BY RestoredVisible DEF OpenedView
<1>2. NoRead.kind = "none"
  BY DEF NoRead
<1>3. RecoverIsQuiet(f) /\ LoadsOnce(f)
  BY <1>2 DEF OpenedView, RecoverIsQuiet, LoadsOnce
<1>4. DefersWhile(f)
  BY <1>1, <1>2 DEF OpenedView, DefersWhile
<1> QED
  BY <1>1, <1>3, <1>4

\* The user's reconnect (reconnect) keeps the view sound.
LEMMA ReconnectSound == ASSUME IInv, Sound(tab), Reconnect PROVE Sound(tab')
<1> USE DEF Sound
<1>1. ReconnectView
  BY ReconnectFields
<1>2. CASE tab.broken
  <2>1. Restored(tab') /\ ~tab'.recovering
    BY <1>1, <1>2 DEF ReconnectView
  <2>2. Visible(tab') /\ tab'.machine.phase # "submitting"
    BY <2>1, RestoredVisible
  <2>3. RecoverIsQuiet(tab')
    BY <1>1, <1>2 DEF ReconnectView, RecoverIsQuiet
  <2>4. LoadsOnce(tab')
    BY <1>1, <1>2 DEF ReconnectView, LoadsOnce
  <2>5. DefersWhile(tab')
    BY <1>1, <1>2, <2>2 DEF ReconnectView, DefersWhile
  <2> QED
    BY <2>2, <2>3, <2>4, <2>5
<1>3. CASE ~tab.broken
  <2>1. Visible(tab')
    BY <1>1, <1>3 DEF ReconnectView, Visible, Who, HasPending
  <2>2. RecoverIsQuiet(tab') /\ DefersWhile(tab')
    BY <1>1, <1>3 DEF ReconnectView, RecoverIsQuiet, DefersWhile
  <2>3. LoadsOnce(tab')
    BY <1>1, <1>3 DEF ReconnectView, LoadsOnce
  <2> QED
    BY <2>1, <2>2, <2>3
<1> QED
  BY <1>2, <1>3

\* No read is of no kind, and served nowhere.
LEMMA NoReadKind == NoRead.kind = "none" /\ NoRead.at = Absent
  BY DEF NoRead, Absent

\* Applying a receipt (SUBMIT, RECEIPT) keeps the shape of the run machine.
LEMMA TakenShapes ==
    ASSUME NEW m, Shaped(m), NEW k \in Keys
    PROVE  LET t == TakenMachine(m, k) IN Shaped(t) /\ (t.phase = "submitting" => t = m)
<1>1. CASE Resting(m)
  BY <1>1, FixedShapes DEF TakenMachine
<1>2. CASE ~Resting(m)
  BY <1>2 DEF TakenMachine
<1> QED
  BY <1>1, <1>2

\* A receipt applied or set aside (beginRun then) keeps the view sound.
LEMMA AppliedSound ==
    ASSUME NEW e \in Engine, Sound(e), HasPending(e), NEW k \in Keys, NEW f, Applied(e, f, k)
    PROVE  Sound(f)
<1> USE DEF Sound
<1>1. CASE (e.hydrating \/ e.recovering \/ e.connection # "connected") /\ f.pending = e.pending
  <2>1. f.machine = e.machine /\ f.read = e.read /\ f.stream = e.stream /\ f.pending = e.pending
        /\ f.connection = e.connection /\ f.broken = e.broken /\ Where(e, f) /\ Waiting(e, f)
    BY <1>1 DEF Applied, HasPending, NoPending
  <2>2. Visible(f)
    BY <2>1 DEF Visible, HasPending
  <2>3. RecoverIsQuiet(f) /\ LoadsOnce(f)
    BY <2>1 DEF RecoverIsQuiet, LoadsOnce, Where, Waiting
  <2>4. DefersWhile(f)
    BY <1>1, <2>1 DEF DefersWhile, Waiting
  <2> QED
    BY <2>2, <2>3, <2>4
<1>2. CASE ~e.hydrating /\ ~e.recovering /\ e.connection = "connected"
  <2>1. /\ f.pending = NoPending /\ ~f.deferred /\ f.read = Touched(e.read) /\ f.connection = "connected"
        /\ f.broken = e.broken /\ ~f.hydrating /\ ~f.recovering /\ f.steers = e.steers
    BY <1>2 DEF Applied, Where, Waiting
  <2>2. Touched(e.read).kind \in {e.read.kind, "none"}
    BY TouchedKind
  <2>3. e.read.kind # "recover" /\ f.read.kind # "recover"
    BY <1>2, <2>1, <2>2 DEF RecoverIsQuiet
  <2>4. Shaped(f.machine)
    <3>1. f.machine \in {IdleMachine, e.machine, RECEIPT(e.machine, k), TakenMachine(e.machine, k)}
      BY <1>2 DEF Applied
    <3>2. Shaped(e.machine)
      BY DEF Visible
    <3>3. Shaped(IdleMachine) /\ Shaped(RECEIPT(e.machine, k)) /\ Shaped(TakenMachine(e.machine, k))
      BY <3>2, FixedShapes, MachineShapes, TakenShapes
    <3> QED
      BY <3>1, <3>2, <3>3
  <2>5. Visible(f)
    BY <2>1, <2>4 DEF Visible, HasPending, NoPending
  <2>6. RecoverIsQuiet(f) /\ LoadsOnce(f) /\ DefersWhile(f)
    BY <2>1, <2>3 DEF RecoverIsQuiet, LoadsOnce, DefersWhile
  <2> QED
    BY <2>5, <2>6
<1> QED
  BY <1>1, <1>2 DEF Applied

\* What is noted beside the run machine keeps the view sound.
LEMMA SeenSound ==
    ASSUME NEW e \in Engine, Sound(e), NEW f, Seen(e, f), f.machine = e.machine, f.read = e.read
    PROVE  Sound(f)
<1> USE DEF Sound
<1>1. Visible(f) /\ RecoverIsQuiet(f)
  BY DEF Seen, Where, Linked, Waiting, HasPending, Visible, RecoverIsQuiet
<1>2. LoadsOnce(f) /\ DefersWhile(f)
  BY DEF Seen, Linked, Waiting, LoadsOnce, DefersWhile
<1> QED
  BY <1>1, <1>2

\* The receipt of a create-message call (beginRun then) keeps the view sound.
LEMMA ReceiptSound == ASSUME IInv, Sound(tab), NEW i \in DOMAIN calls, Receipt(i) PROVE Sound(tab')
<1>1. ReceiptView(i) /\ calls[i].key \in Keys /\ tab \in Engine
  BY ReceiptFields, CallFacts
<1> QED
  BY <1>1, AppliedSound, SeenSound DEF ReceiptView

\* The failure of a create-message call (beginRun catch) keeps the view sound.
LEMMA CreateFailsSound ==
    ASSUME IInv, Sound(tab), NEW i \in DOMAIN calls, CreateFails(i)
    PROVE  Sound(tab')
<1>1. CreateFailsView /\ tab \in Engine
  BY CreateFailsFields, CallFacts
<1>2. Shaped(FAIL("failed")) /\ FAIL("failed").phase = "error"
  BY FixedShapes, Values
<1>3. Visible(tab)
  BY DEF Sound
<1>4. Alike(tab, tab') /\ tab'.read = tab.read /\ tab'.machine \in {tab.machine, FAIL("failed")}
  BY <1>1 DEF CreateFailsView
<1>5. /\ Shaped(tab'.machine) /\ (tab'.machine.phase = "submitting" => tab.machine.phase = "submitting")
      /\ (HasPending(tab) => tab'.machine.phase # "idle")
  BY <1>2, <1>3, <1>4 DEF Visible
<1> QED
  BY <1>1, <1>4, <1>5, AlikeSound

\* The end of a call made during a run (submit steer then, catch) keeps the view sound.
LEMMA SteerAnsweredSound ==
    ASSUME IInv, Sound(tab), NEW i \in DOMAIN calls, SteerReceipt(i) \/ SteerFails(i)
    PROVE  Sound(tab')
<1> USE DEF Sound
<1>1. SteerAnsweredView(i) /\ calls[i].key \in Keys
  BY SteerReceiptFields, SteerFailsFields, CallFacts
<1> DEFINE k == calls[i].key
           m == RECEIPT(SUBMIT(tab.machine), k)
<1>2. SteerLeft(tab, tab', k)
  BY <1>1 DEF SteerAnsweredView
<1>3. CASE k \in tab.steers /\ tab'.machine = m
           /\ tab'.read = IF tab.read.kind \in {"sync", "stop"} THEN NoRead ELSE tab.read
  <2>1. Shaped(m) /\ m.phase \notin {"submitting", "idle"}
    <3>1. k \in Keys /\ Shaped(tab.machine)
      BY <1>1 DEF Visible
    <3>2. Shaped(SUBMIT(tab.machine)) /\ SUBMIT(tab.machine).phase # "idle"
      BY <3>1, MachineShapes
    <3> HIDE DEF k
    <3> QED
      BY <3>1, <3>2, MachineShapes
  <2>2. tab'.read.kind \in {tab.read.kind, "none"} /\ (tab.read.kind = "hydrate" => tab'.read.kind = "hydrate")
    BY <1>3, NoReadKind
  <2>3. Visible(tab')
    BY <1>3, <2>1 DEF Visible
  <2>4. RecoverIsQuiet(tab')
    BY <1>3, <2>2 DEF RecoverIsQuiet
  <2>5. LoadsOnce(tab') /\ DefersWhile(tab')
    BY <1>2, <1>3, <2>1, <2>2 DEF SteerLeft, Who, Waiting, LoadsOnce, DefersWhile
  <2> QED
    BY <2>3, <2>4, <2>5
<1>4. CASE tab'.machine = tab.machine /\ tab'.stream = tab.stream /\ tab'.read \in {tab.read, Touched(tab.read)}
  <2>1. tab'.read.kind \in {tab.read.kind, "none"} /\ (tab.read.kind = "hydrate" => tab'.read.kind = "hydrate")
    BY <1>4, TouchedKind DEF Touched
  <2>2. Visible(tab')
    BY <1>2, <1>4 DEF SteerLeft, Who, HasPending, Visible
  <2>3. RecoverIsQuiet(tab')
    BY <1>2, <1>4, <2>1 DEF SteerLeft, Waiting, RecoverIsQuiet
  <2>4. LoadsOnce(tab') /\ DefersWhile(tab')
    BY <1>2, <1>4, <2>1 DEF SteerLeft, Who, Waiting, LoadsOnce, DefersWhile
  <2> QED
    BY <2>2, <2>3, <2>4
<1> QED
  BY <1>1, <1>3, <1>4 DEF SteerAnsweredView

\* A hydration that finds no conversation (hydrate) keeps the view sound.
LEMMA HydrateAbsentSound == ASSUME IInv, Sound(tab), HydrateAbsent PROVE Sound(tab')
<1> USE DEF Sound
<1>1. HydrateAbsentView
  BY HydrateAbsentFields
<1>2. CASE ~tab.deferred /\ tab'.pending = tab.pending /\ tab'.machine = tab.machine
  BY <1>1, <1>2, NoReadKind
  DEF HydrateAbsentView, Visible, HasPending, RecoverIsQuiet, LoadsOnce, DefersWhile
<1>3. CASE /\ HasPending(tab) /\ tab'.pending = NoPending
           /\ tab'.machine = RECEIPT(SUBMIT(IdleMachine), tab.pending.key)
  <2>1. tab.pending.key \in Keys
    BY <1>3, PendingFacts
  <2>2. Shaped(tab'.machine) /\ tab'.machine.phase = "queued"
    BY <1>3, <2>1, FixedShapes
  <2>3. Visible(tab')
    BY <2>2 DEF Visible
  <2> QED
    BY <1>1, <2>2, <2>3, NoReadKind DEF HydrateAbsentView, RecoverIsQuiet, LoadsOnce, DefersWhile
<1> QED
  BY <1>1, <1>2, <1>3 DEF HydrateAbsentView

\* A recovery that finds no conversation (hydrate after an expired cursor) keeps the view sound.
LEMMA RecoverAbsentSound == ASSUME IInv, Sound(tab), RecoverAbsent PROVE Sound(tab')
<1> USE DEF Sound
<1>1. RecoverAbsentView
  BY RecoverAbsentFields
<1>2. CASE OpenedView(tab')
  BY <1>2, OpenedSound
<1>3. CASE /\ Who(tab, tab') /\ Linked(tab, tab') /\ tab'.recovering = tab.recovering
           /\ ~tab'.hydrating /\ tab'.machine = tab.machine /\ tab'.read = NoRead
  <2>1. tab.read.kind = "recover" /\ tab.recovering /\ tab'.recovering
    BY <1>1, <1>3 DEF RecoverAbsentView, RecoverIsQuiet
  <2>2. Visible(tab')
    BY <1>3 DEF Who, HasPending, Visible
  <2> QED
    BY <1>3, <2>1, <2>2, NoReadKind DEF Who, Linked, RecoverIsQuiet, LoadsOnce, DefersWhile
<1> QED
  BY <1>1, <1>2, <1>3 DEF RecoverAbsentView

\* A hydration or a recovery that finds the conversation (hydrate) keeps the view sound.
LEMMA HydrateOwnerSound == ASSUME IInv, Sound(tab), HydrateOwner PROVE Sound(tab')
<1> USE DEF Sound
<1> DEFINE recover == tab.read.kind = "recover"
           base == IF recover \/ tab.deferred THEN IdleMachine ELSE tab.machine
           shown == HeadMachine(base, View)
           settled == tab.pending.key \in Terminals(View)
<1>1. HydrateOwnerView
  BY HydrateOwnerFields
<1>2. View \in Seq(Event) /\ tab'.read.kind = "none" /\ ~tab'.hydrating /\ ~tab'.deferred /\ tab'.broken = tab.broken
  BY <1>1, NoReadKind DEF HydrateOwnerView
<1>3. Shaped(base)
  BY FixedShapes DEF Visible
<1> HIDE DEF base
<1>4. Shaped(shown) /\ (shown.phase = "submitting" => shown = base)
  BY <1>2, <1>3, HeadShapes
<1>5. /\ IF tab.deferred
         THEN HasPending(tab) /\ tab'.pending = NoPending /\ tab'.machine = SettledMachine(shown, settled, tab.pending.key)
         ELSE /\ tab'.pending = tab.pending
              /\ IF HasPending(tab) /\ shown.phase = "idle" THEN \E error \in Errors : tab'.machine = FAIL(error)
                 ELSE tab'.machine = shown
  BY <1>1 DEF HydrateOwnerView, base
<1> HIDE DEF shown, settled
<1>6. Visible(tab')
  <2>1. CASE tab.deferred
    <3>1. tab.pending.key \in Keys
      BY <1>5, <2>1, PendingFacts
    <3>2. SettledMachine(shown, settled, tab.pending.key)
            \in {IdleMachine, shown, RECEIPT(SUBMIT(IdleMachine), tab.pending.key), RECEIPT(SUBMIT(shown), tab.pending.key)}
      BY DEF SettledMachine
    <3>3. Shaped(RECEIPT(SUBMIT(shown), tab.pending.key))
      BY <1>4, <3>1, MachineShapes
    <3>4. Shaped(SettledMachine(shown, settled, tab.pending.key))
      BY <1>4, <3>1, <3>2, <3>3, FixedShapes
    <3> QED
      BY <1>5, <2>1, <3>4 DEF Visible, HasPending, NoPending
  <2>2. CASE ~tab.deferred
    BY <1>4, <1>5, <2>2, FixedShapes DEF Visible, HasPending
  <2> QED
    BY <2>1, <2>2
<1>7. RecoverIsQuiet(tab')
  BY <1>2 DEF RecoverIsQuiet
<1>8. LoadsOnce(tab')
  BY <1>1, <1>2 DEF LoadsOnce, HydrateOwnerView
<1>9. ASSUME {"drop", "fail"} \cap Faults = {}, tab'.machine.phase = "submitting", tab'.connection # "connected"
      PROVE  FALSE
  <2>1. tab'.connection = tab.connection /\ tab.read.kind \in {"hydrate", "recover"}
    BY <1>1, <1>9 DEF HydrateOwnerView
  <2>2. recover
    BY <1>9, <2>1 DEF DefersWhile
  <2>3. base = IdleMachine
    BY <2>2 DEF base
  <2>4. shown.phase # "submitting"
    BY <1>4, <2>3, FixedShapes
  <2>5. CASE tab.deferred
    <3>1. tab.pending.key \in Keys
      BY <1>5, <2>5, PendingFacts
    <3>2. SettledMachine(shown, settled, tab.pending.key)
            \in {IdleMachine, shown, RECEIPT(SUBMIT(IdleMachine), tab.pending.key), RECEIPT(SUBMIT(shown), tab.pending.key)}
      BY DEF SettledMachine
    <3>3. SettledMachine(shown, settled, tab.pending.key).phase # "submitting"
      <4>1. RECEIPT(SUBMIT(shown), tab.pending.key).phase # "submitting"
        BY <1>4, <3>1, MachineShapes
      <4> QED
        BY <2>4, <3>1, <3>2, <4>1, FixedShapes
    <3> QED
      BY <1>5, <1>9, <2>5, <3>3
  <2>6. CASE ~tab.deferred
    BY <1>5, <1>9, <2>4, <2>6, FixedShapes
  <2> QED
    BY <2>5, <2>6
<1>10. DefersWhile(tab')
  BY <1>2, <1>9 DEF DefersWhile
<1> QED
  BY <1>6, <1>7, <1>8, <1>10

\* A hydration that fails (hydrate catch) keeps the view sound.
LEMMA HydrateFailsSound == ASSUME IInv, Sound(tab), HydrateFails PROVE Sound(tab')
<1>1. HydrateFailsView /\ tab \in Engine
  BY HydrateFailsFields DEF IInv, TypeOK
<1> QED
  BY <1>1, AsksSound DEF HydrateFailsView

\* The read's await keeps the view sound.
LEMMA AnsweredSound ==
    ASSUME NEW e \in Engine, Sound(e), e.read.kind \notin {"hydrate", "recover"}
    PROVE  Sound(Answered(e)) /\ Answered(e) \in Engine
<1> DEFINE a == Answered(e)
<1>1. a \in Engine /\ Alike(e, a) /\ a.machine = e.machine /\ a.read = NoRead
  BY AnsweredFields
<1> HIDE DEF a
<1>2. Sound(a)
  BY <1>1, NoReadKind, AlikeSound DEF Sound, Visible
<1> QED
  BY <1>1, <1>2 DEF a

\* A view that rests, by itself or with its stream closed.
LEMMA RestsSound ==
    ASSUME NEW e \in Engine, Sound(e), NEW f, Rests(e, f), e.read.kind # "recover",
           f.connection \in {e.connection, "connected"}, f.machine.phase = "submitting" => Linked(e, f)
    PROVE  Sound(f)
<1> USE DEF Sound
<1>1. f.machine = e.machine /\ f.read = e.read /\ f.deferred = e.deferred /\ f.pending = e.pending /\ f.broken = e.broken
      /\ f.hydrating = e.hydrating /\ f.recovering = e.recovering
  BY DEF Rests, Who, Waiting
<1>2. Visible(f) /\ RecoverIsQuiet(f)
  BY <1>1 DEF HasPending, Visible, RecoverIsQuiet
<1>3. LoadsOnce(f)
  BY <1>1 DEF LoadsOnce
<1>4. DefersWhile(f)
  BY <1>1 DEF DefersWhile, Linked
<1> QED
  BY <1>1, <1>2, <1>3, <1>4

\* adoptOwnerSnapshot keeps the view sound.
LEMMA AdoptedSound ==
    ASSUME NEW e \in Engine, Sound(e), NEW view \in Seq(Event), NEW f, Adopted(e, f, view),
           e.read.kind # "recover"
    PROVE  Sound(f)
<1> USE DEF Sound
<1> DEFINE m == HeadMachine(IdleMachine, view)
<1>1. Shaped(m) /\ m.phase # "submitting"
  BY HeadShapes, FixedShapes
<1> HIDE DEF m
<1>2. f.machine = IF HasPending(e) /\ m.phase = "idle" THEN FAIL("unknown") ELSE m
  BY DEF Adopted, m
<1>3. Shaped(FAIL("unknown")) /\ FAIL("unknown").phase = "error"
  BY FixedShapes, Values
<1>4. /\ f.read = e.read /\ f.deferred = e.deferred /\ f.pending = e.pending /\ f.broken = e.broken
      /\ f.hydrating = e.hydrating /\ f.recovering = e.recovering
      /\ f.connection \in {e.connection, "connected"}
  BY DEF Adopted, Who, Waiting
<1>5. Visible(f) /\ f.machine.phase # "submitting"
  BY <1>1, <1>2, <1>3, <1>4 DEF Visible, HasPending
<1>6. RecoverIsQuiet(f) /\ LoadsOnce(f)
  BY <1>4 DEF RecoverIsQuiet, LoadsOnce
<1>7. DefersWhile(f)
  BY <1>4, <1>5 DEF DefersWhile
<1> QED
  BY <1>5, <1>6, <1>7

\* The read after a run's end (syncWorkspaceFiles) keeps the view sound.
LEMMA SyncOwnerSound == ASSUME IInv, Sound(tab), SyncOwner PROVE Sound(tab')
<1> DEFINE a == Answered(tab)
<1>1. SyncOwnerView /\ tab \in Engine
  BY SyncOwnerFields DEF IInv, TypeOK
<1>2. tab.read.kind = "sync"
  BY <1>1 DEF SyncOwnerView
<1>3. a \in Engine /\ Alike(tab, a) /\ a.machine = tab.machine /\ a.read = NoRead
  BY <1>1, AnsweredFields
<1>4. Sound(a)
  BY <1>1, <1>2, AnsweredSound
<1> HIDE DEF a
<1>5. PICK e \in Engine :
        /\ Rests(a, e) /\ Linked(tab, e)
        /\ \/ tab' = e
           \/ /\ tab.machine.phase = "idle" \/ (HasPending(tab) /\ tab.machine.error = "unknown")
              /\ Rests(e, tab') /\ tab'.stream = "closed" /\ tab'.connection \in {e.connection, "connected"}
           \/ ExecutionHead(View) # NoKey /\ Adopted(e, tab', View)
  BY <1>1 DEF SyncOwnerView, a
<1>6. Linked(a, e) /\ e.read.kind = "none" /\ e.machine = tab.machine
  BY <1>3, <1>5, NoReadKind DEF Alike, Linked, Rests
<1>7. Sound(e)
  <2>1. a.read.kind # "recover" /\ e.connection = a.connection
    BY <1>3, <1>6, NoReadKind DEF Linked
  <2> QED
    BY <1>3, <1>4, <1>5, <1>6, <2>1, RestsSound
<1>8. CASE tab' = e
  BY <1>7, <1>8
<1>9. CASE /\ tab.machine.phase = "idle" \/ (HasPending(tab) /\ tab.machine.error = "unknown")
           /\ Rests(e, tab') /\ tab'.stream = "closed" /\ tab'.connection \in {e.connection, "connected"}
  <2>1. tab.machine.phase \in {"idle", "error"}
    BY <1>9 DEF Sound, Visible, Shaped
  <2>2. tab'.machine.phase # "submitting"
    BY <1>6, <1>9, <2>1 DEF Rests
  <2> QED
    BY <1>5, <1>6, <1>7, <1>9, <2>2, RestsSound
<1>10. CASE Adopted(e, tab', View)
  <2>1. View \in Seq(Event)
    BY <1>1 DEF SyncOwnerView
  <2> QED
    BY <1>5, <1>6, <1>7, <1>10, <2>1, AdoptedSound
<1> QED
  BY <1>5, <1>8, <1>9, <1>10

\* The read after a run's end that finds no conversation (syncWorkspaceFiles) keeps the view sound.
LEMMA SyncAbsentSound == ASSUME IInv, Sound(tab), SyncAbsent PROVE Sound(tab')
<1>1. SyncAbsentView
  BY SyncAbsentFields
<1>2. Visible(tab') /\ RecoverIsQuiet(tab')
  BY <1>1, NoReadKind DEF Sound, SyncAbsentView, Who, HasPending, Visible, RecoverIsQuiet
<1>3. LoadsOnce(tab')
  BY <1>1, NoReadKind DEF Sound, SyncAbsentView, Who, Waiting, LoadsOnce
<1>4. DefersWhile(tab')
  BY <1>1, NoReadKind DEF Sound, SyncAbsentView, Who, Waiting, DefersWhile
<1> QED
  BY <1>2, <1>3, <1>4 DEF Sound

\* The read after a stop (cancelRun) keeps the view sound.
LEMMA StopOwnerSound == ASSUME IInv, Sound(tab), StopOwner PROVE Sound(tab')
<1> DEFINE a == Answered(tab)
<1>1. StopOwnerView /\ tab \in Engine
  BY StopOwnerFields DEF IInv, TypeOK
<1>2. tab.read.kind = "stop" /\ View \in Seq(Event)
  BY <1>1 DEF StopOwnerView
<1>3. Sound(a) /\ a \in Engine /\ a.machine = tab.machine /\ a.read = NoRead
  BY <1>1, <1>2, AnsweredSound, AnsweredFields
<1> HIDE DEF a
<1>4. CASE tab' = a
  BY <1>3, <1>4
<1>5. ASSUME NEW e \in Engine, Alike(a, e), e.read = NoRead, Adopted(e, tab', View) PROVE Sound(tab')
  <2> DEFINE x == [e EXCEPT !.machine = a.machine]
  <2>1. x \in Engine /\ Alike(a, x) /\ x.machine = a.machine /\ x.read = NoRead /\ Alike(e, x)
    <3>1. x \in Engine
      BY <1>3, <1>5, EngineType
    <3> QED
      BY <1>3, <1>5, <3>1, EngineFields DEF EmptyEngine, Alike, Who, Where, Linked, Waiting
  <2> HIDE DEF x
  <2>2. Sound(x)
    BY <1>3, <2>1, NoReadKind, AlikeSound DEF Sound, Visible
  <2>3. Adopted(x, tab', View)
    BY <1>5, <2>1 DEF Adopted, Alike, Who, Where, Linked, Waiting, HasPending
  <2> QED
    BY <1>2, <2>1, <2>2, <2>3, NoReadKind, AdoptedSound
<1> QED
  BY <1>1, <1>4, <1>5 DEF StopOwnerView, a

\* A read after a run's end or a stop that fails keeps the view sound.
LEMMA ReadFailsSound == ASSUME IInv, Sound(tab), ReadFails PROVE Sound(tab')
<1>1. ReadFailsView /\ tab \in Engine
  BY ReadFailsFields DEF IInv, TypeOK
<1>2. Sound(Answered(tab)) /\ tab' = Answered(tab)
  BY <1>1, AnsweredSound DEF ReadFailsView
<1> QED
  BY <1>2

\* A stream that connects (onConnected) keeps the view sound.
LEMMA StreamConnectsSound == ASSUME IInv, Sound(tab), StreamConnects PROVE Sound(tab')
<1>1. tab.stream = "connecting" /\ LinkView("live", "connected")
  BY StreamConnectsFields
<1>2. Visible(tab')
  BY <1>1 DEF Sound, LinkView, Who, HasPending, Visible
<1>3. RecoverIsQuiet(tab') /\ LoadsOnce(tab')
  BY <1>1 DEF Sound, LinkView, Who, Waiting, RecoverIsQuiet, LoadsOnce
<1>4. DefersWhile(tab')
  BY <1>1 DEF Sound, LinkView, Who, Waiting, DefersWhile
<1> QED
  BY <1>2, <1>3, <1>4 DEF Sound

\* A stream that breaks (onReconnecting) keeps the view sound.
LEMMA StreamDropsSound == ASSUME IInv, Sound(tab), StreamDrops PROVE Sound(tab')
<1>1. "drop" \in Faults /\ LinkView("connecting", "reconnecting")
  BY StreamDropsFields DEF StreamDrops
<1>2. Visible(tab')
  BY <1>1 DEF Sound, LinkView, Who, HasPending, Visible
<1>3. RecoverIsQuiet(tab') /\ LoadsOnce(tab')
  BY <1>1 DEF Sound, LinkView, Waiting, RecoverIsQuiet, LoadsOnce
<1>4. DefersWhile(tab')
  BY <1>1 DEF DefersWhile
<1> QED
  BY <1>2, <1>3, <1>4 DEF Sound

\* A stream that ends for good (onStreamError) keeps the view sound.
LEMMA StreamFailsSound == ASSUME IInv, Sound(tab), StreamFails PROVE Sound(tab')
<1>1. "fail" \in Faults /\ LinkView("closed", "unavailable")
  BY StreamFailsFields DEF StreamFails
<1>2. Visible(tab') /\ RecoverIsQuiet(tab')
  BY <1>1 DEF Sound, LinkView, Who, HasPending, Visible, RecoverIsQuiet
<1>3. LoadsOnce(tab') /\ DefersWhile(tab')
  BY <1>1 DEF LoadsOnce, DefersWhile
<1> QED
  BY <1>2, <1>3 DEF Sound

\* The time-out of a reattached run (reattachTimer) keeps the view sound.
LEMMA ReattachTimesOutSound == ASSUME IInv, Sound(tab), ReattachTimesOut PROVE Sound(tab')
<1>1. TimeoutView /\ "fail" \in Faults /\ tab \in Engine
  BY ReattachTimesOutFields DEF ReattachTimesOut, IInv, TypeOK
<1>2. LoadsOnce(tab') /\ DefersWhile(tab')
  BY <1>1 DEF LoadsOnce, DefersWhile
<1>3. CASE Alike(tab, tab') /\ tab'.machine = tab.machine /\ tab'.read = tab.read
  BY <1>1, <1>3, AlikeSound DEF Sound, Visible
<1>4. ASSUME NEW e \in Engine, GivesUpRead(tab, e), Who(e, tab'), tab'.machine = e.machine, tab'.read = NoRead
      PROVE  Visible(tab') /\ RecoverIsQuiet(tab')
  BY <1>4, NoReadKind, FixedShapes, Values DEF Sound, GivesUpRead, Who, HasPending, Visible, RecoverIsQuiet
<1> QED
  BY <1>1, <1>2, <1>3, <1>4 DEF TimeoutView, Sound

\* An expired cursor (onStreamError, event_cursor_expired) keeps the view sound.
LEMMA StreamExpiresSound == ASSUME IInv, Sound(tab), StreamExpires PROVE Sound(tab')
<1>1. ExpiresView /\ "expire" \in Faults
  BY StreamExpiresFields DEF StreamExpires
<1>2. Visible(tab') /\ RecoverIsQuiet(tab')
  BY <1>1 DEF Sound, ExpiresView, Who, HasPending, Visible, RecoverIsQuiet
<1>3. LoadsOnce(tab') /\ DefersWhile(tab')
  BY <1>1 DEF ExpiresView, LoadsOnce, DefersWhile
<1> QED
  BY <1>2, <1>3 DEF Sound

\* A batch of events (handleStreamEvents) keeps the view sound.
LEMMA StreamEventsSound == ASSUME IInv, Sound(tab), StreamEvents PROVE Sound(tab')
<1>1. EventsView /\ tab \in Engine
  BY StreamEventsFields DEF IInv, TypeOK
<1>2. PICK n \in (tab.position + 1) .. Len(log[tab.active]) :
        LET batch == SubSeq(log[tab.active], tab.position + 1, n)
            reduced == Reduce(tab.machine, batch)
        IN \E f \in Engine :
            /\ Heeds(tab, n, reduced, Terminals(batch), f)
            /\ IF reduced.settled = NoKey THEN tab' = f ELSE Asks(f, tab')
  BY <1>1 DEF EventsView
<1> DEFINE batch == SubSeq(log[tab.active], tab.position + 1, n)
           reduced == Reduce(tab.machine, batch)
<1>3. PICK f \in Engine :
        /\ Heeds(tab, n, reduced, Terminals(batch), f)
        /\ IF reduced.settled = NoKey THEN tab' = f ELSE Asks(f, tab')
  BY <1>2
<1>4. tab.active \in Convs /\ tab.stream = "live" /\ tab.position \in Nat
  BY <1>1, EngineType DEF EventsView
<1>5. log[tab.active] \in Seq(Event) /\ Len(log[tab.active]) \in Nat
  BY <1>4, LogLength
<1>6. batch \in Seq(Event)
  BY <1>4, <1>5, BatchType
<1> HIDE DEF batch
<1>7. Shaped(reduced.machine) /\ (reduced.machine.phase = "submitting" => tab.machine.phase = "submitting")
  BY <1>6, ReduceShapes DEF Sound, Visible
<1> HIDE DEF reduced
<1>8. /\ Shaped(f.machine) /\ (f.machine.phase = "submitting" => tab.machine.phase = "submitting")
      /\ (HasPending(tab) => f.machine.phase # "idle")
  BY <1>3, <1>7, FixedShapes, Values DEF Heeds
<1>9. Touched(tab.read).kind \in {tab.read.kind, "none"} /\ f.read.kind = Touched(tab.read).kind
      /\ (tab.read.kind = "hydrate" => f.read.kind = "hydrate") /\ tab.read.kind # "recover"
  BY <1>3, <1>4, TouchedKind DEF Heeds, Touched, Sound, RecoverIsQuiet
<1>10. Sound(f)
  <2>1. Visible(f) /\ RecoverIsQuiet(f)
    BY <1>3, <1>8, <1>9 DEF Heeds, Who, HasPending, Visible, RecoverIsQuiet
  <2>2. LoadsOnce(f)
    BY <1>3, <1>9 DEF Heeds, Who, Linked, Waiting, Sound, LoadsOnce
  <2>3. DefersWhile(f)
    BY <1>3, <1>8, <1>9 DEF Heeds, Who, Linked, Waiting, Sound, DefersWhile
  <2> QED
    BY <2>1, <2>2, <2>3 DEF Sound
<1> QED
  BY <1>3, <1>10, AsksSound

\* The service answering a snapshot read keeps the view sound.
LEMMA ReadExecutesSound == ASSUME IInv, Sound(tab), ReadExecutes PROVE Sound(tab')
<1>1. ReadExecutesView /\ tab \in Engine
  BY ReadExecutesFields DEF IInv, TypeOK
<1> QED
  BY <1>1, AlikeSound DEF ReadExecutesView, Sound, Visible

\* A command of the user keeps the view sound.
LEMMA UserSound == ASSUME IInv, Sound(tab), User PROVE Sound(tab')
<1>1. ASSUME NEW c \in Convs, NEW k \in Keys, Submit(c, k) PROVE Sound(tab')
  BY <1>1, SubmitSound
<1>2. ASSUME NEW k \in Keys, Steer(k) PROVE Sound(tab')
  BY <1>2, SteerSound
<1>3. CASE RetryKnown
  BY <1>3, RetryKnownSound
<1>4. CASE Retry
  BY <1>4, RetrySound
<1>5. CASE StopSubmission
  BY <1>5, StopSubmissionSound
<1>6. CASE StopRun
  BY <1>6, StopRunSound
<1>7. CASE Reconnect
  BY <1>7, ReconnectSound
<1>8. CASE Reload \/ Remount
  BY <1>8, RestartFields, OpenedSound DEF Reload, Remount
<1>9. ASSUME NEW c \in Convs, New(c) PROVE Sound(tab')
  BY <1>9, NewSound
<1>10. ASSUME NEW c \in Convs, Select(c) PROVE Sound(tab')
  BY <1>10, SelectFields, OpenedSound
<1> QED
  BY <1>1, <1>2, <1>3, <1>4, <1>5, <1>6, <1>7, <1>8, <1>9, <1>10 DEF User

\* The answer of a call or a read keeps the view sound.
LEMMA AnswersSound == ASSUME IInv, Sound(tab), Answers PROVE Sound(tab')
<1>1. ASSUME NEW i \in DOMAIN calls, Receipt(i) PROVE Sound(tab')
  BY <1>1, ReceiptSound
<1>2. ASSUME NEW i \in DOMAIN calls, CreateFails(i) PROVE Sound(tab')
  BY <1>2, CreateFailsSound
<1>3. ASSUME NEW i \in DOMAIN calls, SteerReceipt(i) \/ SteerFails(i) PROVE Sound(tab')
  BY <1>3, SteerAnsweredSound
<1>4. CASE StopAnswered
  BY <1>4, StopAnsweredSound
<1>5. CASE HydrateAbsent
  BY <1>5, HydrateAbsentSound
<1>6. CASE RecoverAbsent
  BY <1>6, RecoverAbsentSound
<1>7. CASE HydrateOwner
  BY <1>7, HydrateOwnerSound
<1>8. CASE HydrateFails
  BY <1>8, HydrateFailsSound
<1>9. CASE HydrateForbidden
  BY <1>9, HydrateForbiddenFields, OpenedSound
<1>10. CASE SyncOwner
  BY <1>10, SyncOwnerSound
<1>11. CASE SyncAbsent
  BY <1>11, SyncAbsentSound
<1>12. CASE StopOwner
  BY <1>12, StopOwnerSound
<1>13. CASE ReadFails
  BY <1>13, ReadFailsSound
<1> QED
  BY <1>1, <1>2, <1>3, <1>4, <1>5, <1>6, <1>7, <1>8, <1>9, <1>10, <1>11, <1>12, <1>13 DEF Answers

\* The stream, the service and nothing happening keep the view sound.
LEMMA OthersSound == ASSUME IInv, Sound(tab), Stream \/ Service \/ UNCHANGED vars PROVE Sound(tab')
<1>1. CASE Stream
  BY <1>1, StreamConnectsSound, StreamDropsSound, StreamFailsSound, ReattachTimesOutSound,
     StreamExpiresSound, StreamEventsSound DEF Stream
<1>2. CASE tab' = tab
  <2> DEFINE f == tab'
  <2>1. f = tab
    BY <1>2
  <2> HIDE DEF f
  <2>2. Sound(f)
    BY <2>1
  <2> QED
    BY <2>2 DEF f
<1>3. Service => ReadExecutes \/ tab' = tab
  BY DEF Service, Accept, Refuse, Start, Complete, Vanish
<1> QED
  BY <1>1, <1>2, <1>3, ReadExecutesSound DEF vars

\* Every step keeps the view sound.
LEMMA SoundNext == ASSUME IInv, Sound(tab), [Next]_vars PROVE Sound(tab')
  BY UserSound, AnswersSound, OthersSound DEF Next

\* The view of an engine that has not begun is sound.
LEMMA SoundInit == ASSUME Init PROVE Sound(tab)
<1>1. tab.machine = IdleMachine /\ tab.read = NoRead /\ tab.pending = NoPending /\ ~tab.deferred /\ ~tab.hydrating
      /\ tab.connection = "connected"
  BY DEF Init, EmptyEngine
<1> QED
  BY <1>1, FixedShapes, NoReadKind
  DEF Sound, Visible, RecoverIsQuiet, LoadsOnce, DefersWhile, HasPending, NoPending

\* The view is sound in every behaviour, whatever the faults.
LEMMA SoundAlways == Spec => [](IInv /\ Sound(tab))
<1>1. Init => IInv /\ Sound(tab)
  BY InvInit, SoundInit
<1>2. IInv /\ Sound(tab) /\ [Next]_vars => IInv' /\ Sound(tab)'
  <2>1. ASSUME IInv, Sound(tab), [Next]_vars PROVE IInv' /\ Sound(tab')
    BY <2>1, InvNext, SoundNext
  <2> QED
    BY <2>1
<1> QED
  BY <1>1, <1>2, PTL DEF Spec

\* A message that waits for its receipt is shown as being sent, or as of unknown outcome with the
\* offer to send it again (exposeUnconfirmedSubmission): never out of sight, whatever the faults.
THEOREM PendingIsVisible == Spec => []NoHiddenPending
<1>1. IInv /\ Sound(tab) => NoHiddenPending
  BY DEF Sound, Visible, NoHiddenPending
<1> QED
  BY <1>1, SoundAlways, PTL

(* Loading ends with its read *)

\* What a step from view e to view f does to "loading".
Loading(e, f) ==
    /\ f.hydrating /\ ~e.hydrating => f.read.kind = "hydrate"
    /\ f.hydrating /\ EndsLoading(e) /\ ~EndsLoading(f) => e.read.kind = "recover" /\ f.connection = "unavailable"

\* A view with the flag and the kind of read of before.
LEMMA SameLoading ==
    ASSUME NEW e, NEW f, f.hydrating = e.hydrating, f.read.kind = e.read.kind \/ ~EndsLoading(e)
    PROVE  Loading(e, f)
  BY DEF Loading, EndsLoading

\* A read that closes a stop ends no loading, whether it is touched or not.
LEMMA TouchedLoading ==
    ASSUME NEW e, NEW f, f.hydrating = e.hydrating, f.read \in {e.read, Touched(e.read)}
    PROVE  Loading(e, f)
<1>1. f.read.kind = e.read.kind \/ ~EndsLoading(e)
  BY DEF Touched, EndsLoading
<1> QED
  BY <1>1, SameLoading

\* Asking for a snapshot aborts the read before it, whose loading ends or has lost the connection.
LEMMA AsksLoading ==
    ASSUME NEW e, NEW f, NEW g, e.hydrating = f.hydrating, e.read.kind = f.read.kind \/ ~EndsLoading(e),
           f.read.kind \in {"recover", "hydrate"} => e.read.kind = f.read.kind, Asks(f, g)
    PROVE  Loading(e, g)
  BY DEF Asks, Loading, EndsLoading

\* A view just opened loads only what it reads.
LEMMA OpenedLoading == ASSUME OpenedView(tab') PROVE Loading(tab, tab')
  BY DEF OpenedView, Loading, EndsLoading

\* A command of the user leaves no loading without its read.
LEMMA UserLoading == ASSUME IInv, User PROVE Loading(tab, tab')
<1>1. ASSUME NEW c \in Convs, NEW k \in Keys, Submit(c, k) PROVE Loading(tab, tab')
  BY <1>1, SubmitFields, TouchedLoading DEF SubmitView, Waiting
<1>2. ASSUME NEW k \in Keys, Steer(k) PROVE Loading(tab, tab')
  BY <1>2, SteerFields, TouchedLoading DEF SteerView, Waiting
<1>3. CASE RetryKnown
  BY <1>3, RetryKnownFields DEF RetryKnownView, Loading, EndsLoading
<1>4. CASE Retry
  BY <1>4, RetryFields, TouchedLoading DEF RetryView, Waiting
<1>5. CASE StopSubmission
  BY <1>5, StopSubmissionFields, TouchedLoading DEF StopSubmissionView, Waiting
<1>6. CASE StopRun
  BY <1>6, StopRunFields, TouchedLoading DEF StopRunView, Alike, Waiting
<1>7. CASE Reconnect
  <2>1. ReconnectView
    BY <1>7, ReconnectFields
  <2>2. CASE tab'.read.kind \in {"hydrate", "recover"} /\ (tab'.hydrating = tab.hydrating \/ tab'.read.kind = "hydrate")
    BY <2>2 DEF Loading, EndsLoading
  <2>3. CASE tab'.hydrating = tab.hydrating /\ tab'.read = tab.read
    BY <2>3, TouchedLoading
  <2> QED
    BY <2>1, <2>2, <2>3 DEF ReconnectView
<1>8. CASE Reload \/ Remount
  BY <1>8, RestartFields, OpenedLoading DEF Reload, Remount
<1>9. ASSUME NEW c \in Convs, New(c) PROVE Loading(tab, tab')
  BY <1>9, NewFields DEF NewView, Loading
<1>10. ASSUME NEW c \in Convs, Select(c) PROVE Loading(tab, tab')
  BY <1>10, SelectFields, OpenedLoading
<1> QED
  BY <1>1, <1>2, <1>3, <1>4, <1>5, <1>6, <1>7, <1>8, <1>9, <1>10 DEF User

\* The answer of a create-message call or of a stop leaves no loading without its read.
LEMMA CallsLoading ==
    ASSUME IInv, (\E i \in DOMAIN calls : Receipt(i) \/ CreateFails(i) \/ SteerReceipt(i) \/ SteerFails(i)) \/ StopAnswered
    PROVE  Loading(tab, tab')
<1>1. ASSUME NEW i \in DOMAIN calls, Receipt(i) PROVE Loading(tab, tab')
  BY <1>1, ReceiptFields, TouchedLoading DEF ReceiptView, Applied, Seen, Waiting
<1>2. ASSUME NEW i \in DOMAIN calls, CreateFails(i) PROVE Loading(tab, tab')
  BY <1>2, CreateFailsFields, TouchedLoading DEF CreateFailsView, Alike, Waiting
<1>3. ASSUME NEW i \in DOMAIN calls, SteerReceipt(i) \/ SteerFails(i) PROVE Loading(tab, tab')
  <2>1. SteerAnsweredView(i)
    BY <1>3, SteerReceiptFields, SteerFailsFields
  <2>2. tab'.hydrating = tab.hydrating
    BY <2>1 DEF SteerAnsweredView, SteerLeft, Waiting
  <2>3. CASE tab'.read \in {tab.read, Touched(tab.read)}
    BY <2>2, <2>3, TouchedLoading
  <2>4. CASE tab.read.kind \in {"sync", "stop"}
    BY <2>2, <2>4, SameLoading DEF EndsLoading
  <2> QED
    BY <2>1, <2>3, <2>4 DEF SteerAnsweredView
<1>4. CASE StopAnswered
  <2>1. StopAnsweredView
    BY <1>4, StopAnsweredFields
  <2>2. CASE Alike(tab, tab') /\ tab'.read = tab.read
    BY <2>2, TouchedLoading DEF Alike, Waiting
  <2>3. ASSUME NEW e \in Engine, Alike(tab, e), e.read = tab.read, Asks(e, tab') PROVE Loading(tab, tab')
    BY <2>3, AsksLoading DEF Alike, Waiting
  <2> QED
    BY <2>1, <2>2, <2>3 DEF StopAnsweredView
<1> QED
  BY <1>1, <1>2, <1>3, <1>4

\* The answer of a read leaves no loading without its read.
LEMMA ReadsLoading ==
    ASSUME IInv, \/ HydrateAbsent \/ RecoverAbsent \/ HydrateOwner \/ HydrateFails \/ HydrateForbidden
                 \/ SyncOwner \/ SyncAbsent \/ StopOwner \/ ReadFails
    PROVE  Loading(tab, tab')
<1>1. CASE HydrateAbsent
  BY <1>1, HydrateAbsentFields DEF HydrateAbsentView, Loading
<1>2. CASE RecoverAbsent
  BY <1>2, RecoverAbsentFields, OpenedLoading DEF RecoverAbsentView, Loading
<1>3. CASE HydrateOwner
  BY <1>3, HydrateOwnerFields DEF HydrateOwnerView, Loading
<1>4. CASE HydrateFails
  BY <1>4, HydrateFailsFields, AsksLoading DEF HydrateFailsView
<1>5. CASE HydrateForbidden
  BY <1>5, HydrateForbiddenFields, OpenedLoading
<1>6. CASE SyncOwner
  <2>1. PICK e \in Engine : Rests(Answered(tab), e) /\ (tab' = e \/ Rests(e, tab') \/ Adopted(e, tab', View))
    BY <1>6, SyncOwnerFields DEF SyncOwnerView
  <2>2. Answered(tab).hydrating = tab.hydrating /\ ~EndsLoading(tab)
    BY <1>6, AnsweredFields DEF SyncOwner, EndsLoading, IInv, TypeOK, Alike, Waiting
  <2>3. tab'.hydrating = tab.hydrating
    BY <2>1, <2>2 DEF Rests, Adopted, Waiting
  <2> QED
    BY <2>2, <2>3, SameLoading
<1>7. CASE SyncAbsent
  BY <1>7, SyncAbsentFields, SameLoading DEF SyncAbsentView, Waiting, EndsLoading
<1>8. CASE StopOwner \/ ReadFails
  <2>1. Answered(tab).hydrating = tab.hydrating /\ ~EndsLoading(tab)
    BY <1>8, AnsweredFields DEF StopOwner, ReadFails, EndsLoading, IInv, TypeOK, Alike, Waiting
  <2>2. \/ tab' = Answered(tab)
        \/ \E e \in Engine : Alike(Answered(tab), e) /\ Adopted(e, tab', View)
    BY <1>8, StopOwnerFields, ReadFailsFields DEF StopOwnerView, ReadFailsView
  <2>3. tab'.hydrating = tab.hydrating
    BY <2>1, <2>2 DEF Adopted, Alike, Waiting
  <2> QED
    BY <2>1, <2>3, SameLoading
<1> QED
  BY <1>1, <1>2, <1>3, <1>4, <1>5, <1>6, <1>7, <1>8

\* The stream, the service and nothing happening leave no loading without its read.
LEMMA OthersLoading == ASSUME IInv, Stream \/ Service PROVE Loading(tab, tab')
<1>1. CASE StreamConnects \/ StreamDrops \/ StreamFails
  BY <1>1, StreamConnectsFields, StreamDropsFields, StreamFailsFields, TouchedLoading DEF LinkView, Waiting
<1>2. CASE ReattachTimesOut
  <2>1. TimeoutView
    BY <1>2, ReattachTimesOutFields
  <2>2. CASE Alike(tab, tab') /\ tab'.read = tab.read
    BY <2>2, TouchedLoading DEF Alike, Waiting
  <2>3. ASSUME NEW e \in Engine, GivesUpRead(tab, e), Waiting(e, tab'), tab'.connection = "unavailable"
        PROVE  Loading(tab, tab')
    BY <2>3 DEF GivesUpRead, Waiting, Loading, EndsLoading
  <2> QED
    BY <2>1, <2>2, <2>3 DEF TimeoutView
<1>3. CASE StreamExpires
  BY <1>3, StreamExpiresFields DEF ExpiresView, Loading, EndsLoading
<1>4. CASE StreamEvents
  <2>1. PICK f \in Engine : /\ Waiting(tab, f) /\ f.read.kind = Touched(tab.read).kind
                            /\ tab' = f \/ Asks(f, tab')
    BY <1>4, StreamEventsFields DEF EventsView, Heeds
  <2>2. /\ f.hydrating = tab.hydrating /\ (f.read.kind = tab.read.kind \/ ~EndsLoading(tab))
        /\ (f.read.kind \in {"recover", "hydrate"} => tab.read.kind = f.read.kind)
    BY <2>1, NoReadKind DEF Waiting, Touched, EndsLoading
  <2> QED
    BY <2>1, <2>2, SameLoading, AsksLoading
<1>5. CASE ReadExecutes
  BY <1>5, ReadExecutesFields, SameLoading DEF ReadExecutesView, Alike, Waiting
<1>6. CASE tab' = tab
  BY <1>6 DEF Loading
<1>7. Service => ReadExecutes \/ tab' = tab
  BY DEF Service, Accept, Refuse, Start, Complete, Vanish
<1> QED
  BY <1>1, <1>2, <1>3, <1>4, <1>5, <1>6, <1>7 DEF Stream

\* Every step leaves no loading without its read.
LEMMA LoadingNext == ASSUME IInv, Next PROVE Loading(tab, tab')
  BY UserLoading, CallsLoading, ReadsLoading, OthersLoading DEF Next, Answers

\* "Loading" begins with the read that ends it (hydrate), and what takes the place of that read, a
\* recovery among it, ends the loading or is such a read: whatever the faults, only a recovery may
\* leave it behind, in a tab that says that it lost the connection.
THEOREM LoadingEnds == Spec => LoadingIsRead
<1>1. IInv /\ [Next]_vars =>
        [/\ tab'.hydrating /\ ~tab.hydrating => tab'.read.kind = "hydrate"
         /\ tab'.hydrating /\ EndsLoading(tab) /\ ~EndsLoading(tab') =>
                tab.read.kind = "recover" /\ tab'.connection = "unavailable"]_vars
  BY LoadingNext DEF Loading
<1> QED
  BY <1>1, Inductive, PTL DEF LoadingIsRead, Spec

\* No connection fails for good, none expires.
StreamsLast == {"fail", "expire"} \cap Faults = {}

\* Where no recovery can come between, "loading" (hydrating) is shown while the hydration reads, and
\* never longer: no other read, stop or receipt takes the place of the read that ends it.
THEOREM LoadingIsHydration == ASSUME StreamsLast PROVE Spec => [](tab.hydrating => tab.read.kind = "hydrate")
<1>1. IInv /\ Sound(tab) => (tab.hydrating => tab.read.kind = "hydrate")
  BY DEF Sound, LoadsOnce, StreamsLast
<1> QED
  BY <1>1, SoundAlways, PTL

(* A recovery ends with its read *)

\* The conversation shown, and what is still a local draft.
Sited(e, f) == f.active = e.active /\ f.drafts = e.drafts

\* What a step from view e to view f does to a recovery.
Recovers(e, f) ==
    /\ f.recovering =>
          \/ f.read.kind = "recover" \/ f.active \in f.drafts
          \/ e.recovering /\ e.read.kind # "recover" /\ Sited(e, f)
    /\ f.read.kind = "recover" =>
          \/ f.read.at = Travelling
          \/ e.read.kind = "recover" /\ f.read.at = e.read.at /\ f.active = e.active

\* A view that recovers no more, with the read of before.
LEMMA CalmRecovers ==
    ASSUME NEW e, NEW f, ~f.recovering, f.read \in {e.read, Touched(e.read), NoRead},
           e.read.kind = "recover" => f.active = e.active
    PROVE  Recovers(e, f)
  BY NoReadKind DEF Recovers, Touched

\* A view of the same conversation, with the flag of before and the kind of read.
LEMMA SameRecovers ==
    ASSUME NEW e, NEW f, f.recovering = e.recovering, Sited(e, f),
           \/ f.read \in {e.read, Touched(e.read)}
           \/ e.read.kind # "recover" /\ f.read.kind # "recover"
    PROVE  Recovers(e, f)
  BY NoReadKind DEF Recovers, Touched, Sited

\* Asking for a snapshot aborts the recovery before it.
LEMMA AsksRecovers ==
    ASSUME NEW e, NEW f, NEW g, f.recovering = e.recovering, e.read.kind = "recover" => f.read.kind = "recover",
           Asks(f, g), Sited(e, g)
    PROVE  Recovers(e, g)
  BY DEF Asks, Recovers, Sited

\* A view just opened recovers nothing.
LEMMA OpenedRecovers == ASSUME OpenedView(tab') PROVE Recovers(tab, tab')
  BY NoReadKind DEF OpenedView, Recovers

\* A step of the engine on its own shows the same conversation.
LEMMA KeptSited == ASSUME QuietStep \/ DropStep PROVE Sited(tab, tab')
  BY DEF QuietStep, DropStep, Kept, Parted, Sited

\* A command of the user leaves no recovery without its read.
LEMMA UserRecovers == ASSUME IInv, User PROVE Recovers(tab, tab')
<1>1. ASSUME NEW c \in Convs, NEW k \in Keys, Submit(c, k) PROVE Recovers(tab, tab')
  <2>1. SubmitView(c, k)
    BY <1>1, SubmitFields
  <2>2. tab.read.kind = "recover" => tab.active \in Convs
    BY Awake
  <2>3. tab.read.kind = "recover" => tab'.active = tab.active
    BY <2>1, <2>2, ChatAssumption DEF SubmitView
  <2> QED
    BY <2>1, <2>3, CalmRecovers DEF SubmitView, Waiting
<1>2. ASSUME NEW k \in Keys, Steer(k) PROVE Recovers(tab, tab')
  BY <1>2, SteerFields, CalmRecovers DEF SteerView, Waiting
<1>3. CASE RetryKnown
  BY <1>3, RetryKnownFields DEF RetryKnownView, Recovers
<1>4. CASE Retry
  BY <1>4, RetryFields, CalmRecovers DEF RetryView, Waiting
<1>5. CASE StopSubmission
  BY <1>5, StopSubmissionFields, SameRecovers DEF StopSubmissionView, Waiting, Sited
<1>6. CASE StopRun
  BY <1>6, StopRunFields, StopRunQuiet, KeptSited, SameRecovers DEF StopRunView, Alike, Waiting
<1>7. CASE Reconnect
  <2>1. ReconnectView
    BY <1>7, ReconnectFields
  <2>2. CASE tab'.read.kind = "recover" /\ tab'.read.at = Travelling
    BY <2>2 DEF Recovers
  <2>3. CASE ~tab'.recovering /\ tab'.read = tab.read
    BY <2>1, <2>3, CalmRecovers DEF ReconnectView
  <2>4. CASE ~tab'.recovering /\ tab'.read.kind = "hydrate"
    BY <2>4 DEF Recovers
  <2> QED
    BY <2>1, <2>2, <2>3, <2>4 DEF ReconnectView
<1>8. CASE Reload \/ Remount
  BY <1>8, RestartFields, OpenedRecovers DEF Reload, Remount
<1>9. ASSUME NEW c \in Convs, New(c) PROVE Recovers(tab, tab')
  BY <1>9, NewFields, NoReadKind DEF NewView, Recovers
<1>10. ASSUME NEW c \in Convs, Select(c) PROVE Recovers(tab, tab')
  BY <1>10, SelectFields, OpenedRecovers
<1> QED
  BY <1>1, <1>2, <1>3, <1>4, <1>5, <1>6, <1>7, <1>8, <1>9, <1>10 DEF User

\* A receipt that comes during a recovery is set aside, or is of another view.
LEMMA ReceiptRecovers == ASSUME IInv, NEW i \in DOMAIN calls, Receipt(i) PROVE Recovers(tab, tab')
<1>1. ReceiptView(i)
  BY ReceiptFields
<1>2. tab'.recovering = tab.recovering /\ tab'.active = tab.active
  BY <1>1 DEF ReceiptView, Applied, Seen, Waiting
<1>3. tab'.read \in {tab.read, Touched(tab.read)}
  BY <1>1 DEF ReceiptView, Applied
<1>4. CASE tab.recovering
  <2>1. PICK u \in KeySets :
          LET written == [tab EXCEPT !.unsaved = u] IN
          tab' = written \/ tab' = Received(written, calls[i].key)
    <3>1. PICK works \in BOOLEAN :
            LET k == calls[i].key
                mine == calls[i].owner = "engine"
                written == [tab EXCEPT !.unsaved = IF ~mine THEN @ ELSE IF works THEN @ \ {k} ELSE @ \cup {k}]
            IN tab' = written \/ tab' = Received(written, k)
      BY DEF Receipt, Works
    <3> DEFINE u == IF calls[i].owner # "engine" THEN tab.unsaved
                    ELSE IF works THEN tab.unsaved \ {calls[i].key} ELSE tab.unsaved \cup {calls[i].key}
    <3>2. u \in KeySets
      BY CallFacts, EngineType DEF KeySets, IInv, TypeOK
    <3>3. LET written == [tab EXCEPT !.unsaved = u] IN
          tab' = written \/ tab' = Received(written, calls[i].key)
      BY <3>1
    <3> HIDE DEF u
    <3> QED
      BY <3>2, <3>3
  <2> DEFINE written == [tab EXCEPT !.unsaved = u]
             aside == [written EXCEPT !.deferred = TRUE]
  <2>2. tab \in Engine
    BY DEF IInv, TypeOK
  <2>3. /\ written \in Engine
        /\ written.recovering = tab.recovering /\ written.drafts = tab.drafts /\ written.active = tab.active
    <3>1. written \in Engine
      BY <2>2, EngineType
    <3> QED
      BY <2>2, <3>1, EngineFields DEF EmptyEngine
  <2>4. tab' = written \/ tab' = Received(written, calls[i].key)
    BY <2>1
  <2> HIDE DEF written
  <2>5. tab' = written \/ tab' = aside
    BY <1>4, <2>3, <2>4 DEF Received
  <2>6. aside.drafts = written.drafts /\ aside.active = written.active
    BY <2>3, EngineFields DEF EmptyEngine
  <2>7. Sited(tab, tab')
    BY <2>3, <2>5, <2>6 DEF Sited
  <2> QED
    BY <1>2, <1>3, <2>7, SameRecovers
<1>5. CASE ~tab.recovering
  BY <1>2, <1>3, <1>5, CalmRecovers
<1> QED
  BY <1>4, <1>5

\* The answer of a create-message call or of a stop leaves no recovery without its read.
LEMMA CallsRecovers ==
    ASSUME IInv, (\E i \in DOMAIN calls : Receipt(i) \/ CreateFails(i) \/ SteerReceipt(i) \/ SteerFails(i)) \/ StopAnswered
    PROVE  Recovers(tab, tab')
<1>1. ASSUME NEW i \in DOMAIN calls, CreateFails(i) PROVE Recovers(tab, tab')
  <2>1. Sited(tab, tab')
    BY <1>1, CreateFailsFoot DEF CreateFailsStep, Kept, Sited
  <2> QED
    BY <1>1, <2>1, CreateFailsFields, SameRecovers DEF CreateFailsView, Alike, Waiting
<1>2. ASSUME NEW i \in DOMAIN calls, SteerReceipt(i) \/ SteerFails(i) PROVE Recovers(tab, tab')
  <2>1. Sited(tab, tab')
    BY <1>2, SteerReceiptFoot, SteerFailsFoot DEF SteerAnswered, Kept, Sited
  <2>2. SteerAnsweredView(i)
    BY <1>2, SteerReceiptFields, SteerFailsFields
  <2>3. tab'.recovering = tab.recovering
    BY <2>2 DEF SteerAnsweredView, SteerLeft, Waiting
  <2>4. \/ tab'.read \in {tab.read, Touched(tab.read)}
        \/ tab.read.kind # "recover" /\ tab'.read.kind # "recover"
    BY <2>2, NoReadKind DEF SteerAnsweredView
  <2> QED
    BY <2>1, <2>3, <2>4, SameRecovers
<1>3. CASE StopAnswered
  <2>1. StopAnsweredView /\ Sited(tab, tab')
    BY <1>3, StopAnsweredFields, StopAnsweredQuiet, KeptSited
  <2>2. CASE Alike(tab, tab') /\ tab'.read = tab.read
    BY <2>1, <2>2, SameRecovers DEF Alike, Waiting
  <2>3. ASSUME NEW e \in Engine, Alike(tab, e), e.read = tab.read, Asks(e, tab') PROVE Recovers(tab, tab')
    BY <2>1, <2>3, AsksRecovers DEF Alike, Waiting
  <2> QED
    BY <2>1, <2>2, <2>3 DEF StopAnsweredView
<1> QED
  BY <1>1, <1>2, <1>3, ReceiptRecovers

\* The recovery of a conversation that is gone, whose intent the storage could not retire.
StaysGone ==
    /\ tab.read.kind = "recover" /\ tab.read.at = Absent /\ Sited(tab, tab')
    /\ tab'.read = NoRead /\ \E works \in Works : ~AbandonWorks(tab, works)

\* The answer of a read leaves no recovery without it, but for the one of StaysGone.
LEMMA ReadsRecovers ==
    ASSUME IInv, \/ HydrateAbsent \/ RecoverAbsent \/ HydrateOwner \/ HydrateFails \/ HydrateForbidden
                 \/ SyncOwner \/ SyncAbsent \/ StopOwner \/ ReadFails
    PROVE  Recovers(tab, tab') \/ StaysGone
<1>1. CASE HydrateAbsent
  <2>1. Sited(tab, tab')
    BY <1>1, HydrateAbsentStep, KeptSited
  <2> QED
    BY <1>1, <2>1, HydrateAbsentFields, SameRecovers, NoReadKind DEF HydrateAbsentView
<1>2. CASE RecoverAbsent
  <2> DEFINE a == Answered(tab)
             x == [a EXCEPT !.hydrating = FALSE]
  <2>1. RecoverAbsentView
    BY <1>2, RecoverAbsentFields
  <2>2. CASE OpenedView(tab')
    BY <2>2, OpenedRecovers
  <2>3. CASE ~OpenedView(tab')
    <3>1. Sited(tab, tab')
      <4>1. tab'.active = tab.active
        BY <2>1, <2>3 DEF RecoverAbsentView, Who
      <4>2. ~RecoverAbsentStep
        BY <4>1 DEF RecoverAbsentStep
      <4> QED
        BY <1>2, <4>2, RecoverAbsentFoot, KeptSited
    <3>2. tab.read.kind = "recover" /\ tab.read.at = Absent /\ tab'.read = NoRead
      BY <2>1, <2>3 DEF RecoverAbsentView
    <3>3. \E works \in Works : ~AbandonWorks(tab, works)
      <4>1. ~\E works \in Works, c \in EvictTargets(tab) : tab' = Evict(Forgotten(a), c, works)
        <5> SUFFICES ASSUME NEW works \in Works, NEW c \in EvictTargets(tab), tab' = Evict(Forgotten(a), c, works)
                     PROVE  FALSE
          OBVIOUS
        <5>1. tab \in Engine /\ tab.active \in Convs /\ Listed(tab)
          BY <3>2, Awake DEF IInv, TypeOK
        <5>2. Quiet(tab, a)
          BY <5>1, AnsweredType
        <5>3. Dropped(a, Forgotten(a))
          BY <5>2, ForgottenType DEF Quiet
        <5> HIDE DEF a
        <5>4. /\ Forgotten(a) \in Engine /\ Forgotten(a).active = tab.active /\ Listed(Forgotten(a))
              /\ c \in EvictTargets(Forgotten(a))
          BY <5>1, <5>2, <5>3 DEF Quiet, Kept, Dropped, Parted, Listed, EvictTargets, FreshConvs
        <5>5. OpenedView(Evict(Forgotten(a), c, works))
          BY <5>1, <5>4, EvictOpens DEF Works
        <5> QED
          BY <2>3, <5>5
      <4> QED
        BY <1>2, <4>1 DEF RecoverAbsent
    <3> QED
      BY <3>1, <3>2, <3>3 DEF StaysGone
  <2> QED
    BY <2>2, <2>3
<1>3. CASE HydrateOwner
  <2>1. Sited(tab, tab') /\ HydrateOwnerView
    BY <1>3, HydrateOwnerStep, HydrateOwnerFields, KeptSited
  <2>2. CASE tab.read.kind = "recover"
    BY <2>1, <2>2, NoReadKind DEF HydrateOwnerView, Recovers
  <2>3. CASE tab.read.kind # "recover"
    BY <2>1, <2>3, SameRecovers, NoReadKind DEF HydrateOwnerView
  <2> QED
    BY <2>2, <2>3
<1>4. CASE HydrateFails
  <2>1. Sited(tab, tab') /\ Asks(tab, tab')
    BY <1>4, HydrateFailsQuiet, HydrateFailsFields, KeptSited DEF HydrateFailsView
  <2> QED
    BY <2>1, AsksRecovers
<1>5. CASE HydrateForbidden
  BY <1>5, HydrateForbiddenFields, OpenedRecovers
<1>6. CASE SyncOwner
  <2>1. Sited(tab, tab')
    BY <1>6, SyncOwnerQuiet, KeptSited
  <2>2. PICK e \in Engine : Rests(Answered(tab), e) /\ (tab' = e \/ Rests(e, tab') \/ Adopted(e, tab', View))
    BY <1>6, SyncOwnerFields DEF SyncOwnerView
  <2>3. /\ Answered(tab).recovering = tab.recovering /\ Answered(tab).read = NoRead
        /\ tab.read.kind # "recover"
    BY <1>6, AnsweredFields DEF SyncOwner, IInv, TypeOK, Alike, Waiting
  <2>4. tab'.recovering = tab.recovering /\ tab'.read = NoRead
    BY <2>2, <2>3 DEF Rests, Adopted, Waiting
  <2> QED
    BY <2>1, <2>3, <2>4, SameRecovers, NoReadKind
<1>7. CASE SyncAbsent
  BY <1>7, SyncAbsentFields, SyncAbsentQuiet, KeptSited, SameRecovers, NoReadKind DEF SyncAbsentView, Waiting
<1>8. CASE StopOwner \/ ReadFails
  <2>1. Sited(tab, tab')
    BY <1>8, StopOwnerQuiet, ReadFailsQuiet, KeptSited
  <2>2. /\ Answered(tab).recovering = tab.recovering /\ Answered(tab).read = NoRead
        /\ tab.read.kind # "recover"
    BY <1>8, AnsweredFields DEF StopOwner, ReadFails, IInv, TypeOK, Alike, Waiting
  <2>3. \/ tab' = Answered(tab)
        \/ \E e \in Engine : Alike(Answered(tab), e) /\ e.read = NoRead /\ Adopted(e, tab', View)
    BY <1>8, <2>2, StopOwnerFields, ReadFailsFields DEF StopOwnerView, ReadFailsView
  <2>4. tab'.recovering = tab.recovering /\ tab'.read = NoRead
    BY <2>2, <2>3 DEF Adopted, Alike, Waiting
  <2> QED
    BY <2>1, <2>2, <2>4, SameRecovers, NoReadKind
<1> QED
  BY <1>1, <1>2, <1>3, <1>4, <1>5, <1>6, <1>7, <1>8

\* The stream leaves no recovery without its read.
LEMMA StreamRecovers == ASSUME IInv, Stream PROVE Recovers(tab, tab')
<1>0. Sited(tab, tab')
  BY StreamIsQuiet, KeptSited
<1>1. CASE StreamConnects \/ StreamDrops \/ StreamFails
  BY <1>0, <1>1, StreamConnectsFields, StreamDropsFields, StreamFailsFields, SameRecovers DEF LinkView, Waiting
<1>2. CASE ReattachTimesOut
  <2>1. TimeoutView
    BY <1>2, ReattachTimesOutFields
  <2>2. CASE Alike(tab, tab') /\ tab'.read = tab.read
    BY <1>0, <2>2, SameRecovers DEF Alike, Waiting
  <2>3. ASSUME NEW e \in Engine, GivesUpRead(tab, e), Waiting(e, tab'), tab'.read = NoRead
        PROVE  Recovers(tab, tab')
    BY <1>0, <2>3, NoReadKind DEF GivesUpRead, Waiting, Recovers
  <2> QED
    BY <2>1, <2>2, <2>3 DEF TimeoutView
<1>3. CASE StreamExpires
  BY <1>3, StreamExpiresFields DEF ExpiresView, Recovers
<1>4. CASE StreamEvents
  <2>1. PICK f \in Engine : /\ Waiting(tab, f) /\ f.read.kind = Touched(tab.read).kind
                            /\ f.read.at = Touched(tab.read).at
                            /\ tab' = f \/ Asks(f, tab')
    BY <1>4, StreamEventsFields DEF EventsView, Heeds
  <2>2. f.recovering = tab.recovering /\ (tab.read.kind = "recover" <=> f.read.kind = "recover")
    BY <2>1, NoReadKind DEF Waiting, Touched
  <2>3. f.read.kind = "recover" => f.read.at = tab.read.at
    BY <2>1, NoReadKind DEF Touched
  <2>4. CASE tab' = f
    BY <1>0, <2>2, <2>3, <2>4 DEF Recovers, Sited
  <2>5. CASE Asks(f, tab')
    BY <1>0, <2>2, <2>5, AsksRecovers
  <2> QED
    BY <2>1, <2>4, <2>5
<1> QED
  BY <1>1, <1>2, <1>3, <1>4 DEF Stream

\* Where the storage works, no open record is out of sight: the view of its conversation holds its
\* intent, and no intent is prepared without a record.
Mirrors ==
    /\ ~tab.broken /\ tab.prepared = NoKey
    /\ tab.active \in Convs /\ slot[tab.active].state = "pending" => HasPending(tab)
    /\ \A c \in Convs : slot[c].state = "pending" => c \in tab.drawn

\* A step that opens no record.
Seals == \A c \in Convs : slot'[c].state = "pending" => slot[c].state = "pending"

\* A step that opens no intent opens no record.
LEMMA ShutsSeals == ASSUME IInv', Shuts PROVE Seals
  BY KeysAssumption DEF IInv, SlotTrue, Shuts, OpenIntent, Seals

\* A step that opens no record and keeps the intent of the one shown.
LEMMA SealsMirrors ==
    ASSUME Mirrors, Seals, tab.drawn \subseteq tab'.drawn, ~tab'.broken, tab'.prepared = NoKey,
           tab'.active \in Convs /\ slot'[tab'.active].state = "pending" => HasPending(tab')
    PROVE  Mirrors'
  BY DEF Mirrors, Seals

\* A step of the view that holds the same intent.
LEMMA HomeMirrors ==
    ASSUME Mirrors, Seals, Home(tab, tab'), tab'.pending.key = tab.pending.key, tab'.prepared = NoKey
    PROVE  Mirrors'
<1>1. tab'.active \in Convs /\ slot'[tab'.active].state = "pending" => HasPending(tab')
  BY DEF Mirrors, Seals, Home, HasPending
<1> QED
  BY <1>1, SealsMirrors DEF Home, Mirrors

\* A step that leaves an engine's intents alone, or takes the receipt that was set aside.
LEMMA QuietMirrors == ASSUME IInv, Noted, "disk" \notin Faults, Mirrors, QuietStep \/ DropStep PROVE Mirrors'
<1>1. Seals
  BY DEF QuietStep, DropStep, Seals
<1>2. CASE QuietStep
  BY <1>1, <1>2, HomeMirrors DEF QuietStep, Kept, Home, Mirrors
<1>3. CASE DropStep
  <2>1. HasPending(tab) /\ tab.pending.key \in past.received
    BY <1>3 DEF DropStep, IInv, Held
  <2>2. slot[tab.active].state # "pending"
    BY <2>1, PendingFacts DEF Noted, OpenIntent
  <2> QED
    BY <1>1, <1>3, <2>2, SealsMirrors DEF DropStep, Parted, Mirrors
<1> QED
  BY <1>2, <1>3

\* What a view opened by working reads holds of the record of its conversation.
LEMMA ActivateHolds ==
    ASSUME NEW e \in Engine, NEW c \in Convs, NEW hydrate \in BOOLEAN, slot \in [Convs -> Slot]
    PROVE  \A works \in BOOLEAN :
               LET f == Activate(e, c, hydrate, works) IN
               /\ f.active = c /\ f.broken = ~works /\ f.drawn = e.drawn /\ f.prepared = NoKey
               /\ \/ f.pending = NoPending /\ (works => slot[c].state # "pending")
                  \/ slot[c].state = "pending" /\ f.pending = [key |-> slot[c].key, id |-> 0]
<1> TAKE works \in BOOLEAN
<1> DEFINE f == Activate(e, c, hydrate, works)
<1>1. f.drawn = e.drawn /\ f.prepared = NoKey
  <2>1. Shows(e, c, f)
    BY ActivateType
  <2> HIDE DEF f
  <2> QED
    BY <2>1 DEF Shows
<1>2. /\ f \in Engine /\ f.active = c /\ f.position = 0 /\ f.ended = {} /\ f.steers = {} /\ f.stop = NoStop
      /\ ~f.deferred /\ f.stream = "closed" /\ ~f.recovering /\ f.unsaved = e.unsaved
      /\ f.broken = ~works /\ f.connection = IF works THEN "connected" ELSE "unavailable"
      /\ \/ /\ f.pending = NoPending /\ (works => slot[c].state # "pending")
            /\ f.machine = IF works THEN IdleMachine ELSE FAIL("local")
         \/ /\ works /\ slot[c].state = "pending" /\ f.pending = [key |-> slot[c].key, id |-> 0]
            /\ \E error \in {"unknown", "failed"} : f.machine = FAIL(error)
      /\ \/ ~f.hydrating /\ f.read = NoRead
         \/ works /\ f.hydrating /\ f.read.kind = "hydrate" /\ f.read.at = Travelling
  BY ActivateFields
<1> HIDE DEF f
<1>3. /\ f.active = c /\ f.broken = ~works
      /\ \/ f.pending = NoPending /\ (works => slot[c].state # "pending")
         \/ slot[c].state = "pending" /\ f.pending = [key |-> slot[c].key, id |-> 0]
  BY <1>2
<1>4. /\ f.active = c /\ f.broken = ~works /\ f.drawn = e.drawn /\ f.prepared = NoKey
      /\ \/ f.pending = NoPending /\ (works => slot[c].state # "pending")
         \/ slot[c].state = "pending" /\ f.pending = [key |-> slot[c].key, id |-> 0]
  BY <1>1, <1>3
<1> QED
  BY <1>4 DEF f

\* A view of a conversation holds the intent of its record.
LEMMA ActivateMirrors ==
    ASSUME IInv, Mirrors, Seals, NEW e \in Engine, tab.drawn \subseteq e.drawn, NEW c \in Convs, NEW hydrate \in BOOLEAN,
           tab' = Activate(e, c, hydrate, TRUE)
    PROVE  Mirrors'
<1> DEFINE f == Activate(e, c, hydrate, TRUE)
<1>1. /\ f.active = c /\ f.broken = ~TRUE /\ f.drawn = e.drawn /\ f.prepared = NoKey
      /\ \/ f.pending = NoPending /\ (TRUE => slot[c].state # "pending")
         \/ slot[c].state = "pending" /\ f.pending = [key |-> slot[c].key, id |-> 0]
  BY ActivateHolds DEF IInv, TypeOK
<1>2. tab' = f
  OBVIOUS
<1> HIDE DEF f
<1>3. slot[c].state = "pending" => slot[c].key # NoKey
  BY DEF IInv, SlotTrue
<1>4. slot[c].state = "pending" => HasPending(tab')
  <2>1. slot[c].state = "pending" => f.pending.key = slot[c].key
    BY <1>1
  <2> QED
    BY <1>2, <1>3, <2>1 DEF HasPending
<1>5. tab'.active = c /\ ~tab'.broken /\ tab'.drawn = e.drawn /\ tab'.prepared = NoKey
  BY <1>1, <1>2
<1> QED
  BY <1>4, <1>5, SealsMirrors DEF Seals

\* A view that another conversation is evicted for holds the intent of its record.
LEMMA EvictMirrors ==
    ASSUME IInv, Mirrors, Seals, NEW e \in Engine, e.active = tab.active, tab.active \in Convs, Listed(e),
           e.drawn = tab.drawn, NEW c \in EvictTargets(e), tab' = Evict(e, c, TRUE)
    PROVE  Mirrors'
<1> DEFINE list == (e.list \ {e.active}) \cup {c}
           drafts == e.drafts \ {e.active}
           drawn == e.drawn \cup {c}
           left == [e EXCEPT !.list = list, !.drafts = drafts, !.drawn = drawn]
           listed == c \in e.list
<1>1. e.list \in ConvSets /\ e.drafts \in ConvSets /\ e.drawn \in ConvSets
  BY EngineType
<1>2. c \in Convs
  BY <1>1 DEF EvictTargets, FreshConvs, ConvSets
<1>3. list \in ConvSets /\ drafts \in ConvSets /\ drawn \in ConvSets /\ tab.drawn \subseteq drawn
  BY <1>1, <1>2 DEF ConvSets
<1>4. tab' = Activate(left, c, listed, TRUE) /\ listed \in BOOLEAN
  BY DEF Evict
<1> HIDE DEF list, drafts, drawn, listed
<1>5. left \in Engine
  BY <1>3, EngineType
<1>6. left.drawn = drawn
  BY <1>5, EngineFields DEF EmptyEngine
<1> HIDE DEF left
<1> QED
  BY <1>2, <1>3, <1>4, <1>5, <1>6, ActivateMirrors

\* A submission is saved and sent, or not taken at all.
LEMMA SubmitMirrors ==
    ASSUME IInv, Noted, "disk" \notin Faults, Mirrors, NEW c \in Convs, NEW k \in Keys, Submit(c, k)
    PROVE  Mirrors'
<1> DEFINE f == Flushed(tab, slot)
<1>1. /\ SubmitView(c, k) /\ past.home[k] = NoConv /\ tab.unsaved = {}
      /\ tab.active \in {c, NoConv} /\ ~HasPending(tab)
  BY SubmitFields DEF Submit, Mirrors, FreshKeys, Noted, SubmitView
<1>2. f = slot
  <2>1. slot \in [Convs -> Slot] /\ tab \in Engine
    BY DEF IInv, TypeOK
  <2>2. f \in [Convs -> Slot] /\ \A d \in Convs : f[d] = slot[d]
    BY <1>1, <2>1, FlushedType
  <2> HIDE DEF f
  <2> QED
    BY <2>1, <2>2
<1>3. slot[c].state # "pending"
  <2>1. CASE tab.active = c
    BY <1>1, <2>1 DEF Mirrors
  <2>2. CASE tab.active = NoConv
    <3>1. c \notin tab.drawn
      BY <2>2 DEF Submit, FreshConvs
    <3> QED
      BY <3>1 DEF Mirrors
  <2> QED
    BY <1>1, <2>1, <2>2
<1>4. CanSave(slot[c], k, TRUE)
  <2>1. slot[c].key # k
    BY <1>1, ChatAssumption, KeysAssumption DEF IInv, SlotTrue
  <2> QED
    BY <1>3, <2>1 DEF CanSave, Closed
<1> HIDE DEF f
<1>5. slot' = [slot EXCEPT ![c] = Saved(@, k)] /\ calls' = NewCall(k, c, "create")
  <2>1. CanSave(Flushed(tab, slot)[c], k, TRUE)
    BY <1>2, <1>4 DEF f
  <2>2. /\ slot' = [Flushed(tab, slot) EXCEPT ![c] = Saved(@, k)]
        /\ calls' = NewCall(k, c, "create")
    BY <2>1 DEF Submit, Works
  <2> QED
    BY <1>2, <2>2 DEF f
<1>6. tab'.pending.key = k /\ tab'.prepared = NoKey /\ tab'.active = c
  <2>1. PICK saved \in BOOLEAN, posted \in BOOLEAN : SubmitStep(c, k, saved, posted)
    BY SubmitFoot
  <2>2. calls' # calls
    <3>1. calls \in Seq(Call)
      BY DEF IInv, TypeOK
    <3>2. Len(calls') = Len(calls) + 1 /\ Len(calls) \in Nat
      BY <1>5, <3>1, SeqFacts DEF NewCall
    <3> QED
      BY <3>2
  <2>3. posted
    BY <2>1, <2>2 DEF SubmitStep
  <2> QED
    BY <2>1, <2>3 DEF SubmitStep
<1>7. HasPending(tab')
  BY <1>6, KeysAssumption DEF HasPending
<1>8. \A d \in Convs \ {c} : slot'[d] = slot[d]
  BY <1>5 DEF IInv, TypeOK
<1>9. c \in tab'.drawn /\ tab.drawn \subseteq tab'.drawn /\ ~tab'.broken
  <2>1. PICK saved \in BOOLEAN, posted \in BOOLEAN : SubmitStep(c, k, saved, posted)
    BY SubmitFoot
  <2> QED
    BY <1>1, <2>1 DEF SubmitStep, SubmitView, Listed
<1> QED
  BY <1>6, <1>7, <1>8, <1>9 DEF Mirrors

\* Giving an intent up retires its record.
LEMMA GivenUpSeals ==
    ASSUME IInv, IInv', Mirrors, AbandonRecords(tab), \E works \in BOOLEAN : AbandonWorks(tab, works)
    PROVE  Seals /\ (tab.active \in Convs => slot'[tab.active].state # "pending")
<1>1. GivenUp(Intent(tab), tab.active)
  BY AbandonFoot
<1>2. Seals
  BY <1>1, GivenUpShuts, ShutsSeals
<1>3. ASSUME tab.active \in Convs, slot[tab.active].state = "pending" PROVE slot'[tab.active].state # "pending"
  <2>1. Intent(tab) # NoKey
    BY <1>3 DEF Mirrors, Intent, HasPending
  <2> QED
    BY <1>1, <1>3, <2>1 DEF GivenUp
<1> QED
  BY <1>2, <1>3 DEF Seals

\* A command of the user leaves no record out of sight.
LEMMA UserMirrors == ASSUME IInv, IInv', Noted, "disk" \notin Faults, Mirrors, User PROVE Mirrors'
<1>1. ASSUME NEW c \in Convs, NEW k \in Keys, Submit(c, k) PROVE Mirrors'
  BY <1>1, SubmitMirrors
<1>2. ASSUME NEW k \in Keys, Steer(k) PROVE Mirrors'
  <2>1. SteerStep(k)
    BY <1>2, SteerFoot
  <2>2. Seals
    BY <2>1, FlushShuts DEF Seals, SteerStep
  <2> QED
    BY <2>1, <2>2, HomeMirrors DEF SteerStep, Mirrors
<1>3. CASE RetryKnown
  <2>1. RetryKnownStep
    BY <1>3, RetryKnownFoot
  <2>2. /\ slot'[tab.active].state = "acknowledged"
        /\ \A d \in Convs \ {tab.active} : slot'[d] = slot[d]
    BY <2>1, RetryKnownSlots
  <2>3. Seals
    BY <2>2 DEF Seals
  <2> QED
    BY <2>1, <2>2, <2>3, SealsMirrors DEF RetryKnownStep, Home, Mirrors
<1>4. CASE Retry
  <2>1. RetryStep /\ slot' = slot
    BY <1>4, RetryFoot, RetrySame
  <2> QED
    BY <2>1, HomeMirrors DEF RetryStep, Seals
<1>5. CASE StopSubmission
  <2>1. StopSubmissionStep
    BY <1>5, StopSubmissionFoot
  <2>2. Seals /\ slot'[tab.active].state # "pending"
    BY <2>1, GivenUpSeals DEF StopSubmissionStep
  <2> QED
    BY <2>1, <2>2, SealsMirrors DEF StopSubmissionStep, Home, Mirrors
<1>6. ASSUME NEW c \in Convs, New(c) PROVE Mirrors'
  <2>1. NewStep /\ NewView
    BY <1>6, NewFoot, NewFields
  <2>2. Seals
    BY <2>1, GivenUpSeals DEF NewStep
  <2>3. slot'[tab'.active].state # "pending"
    BY <2>1, <2>2 DEF NewView, Mirrors, Seals
  <2> QED
    BY <2>1, <2>2, <2>3, SealsMirrors DEF NewStep, NewView
<1>7. CASE StopRun
  BY <1>7, StopRunQuiet, QuietMirrors
<1>8. CASE Reconnect
  <2>1. QuietStep
    BY <1>8, ReconnectStep DEF Mirrors
  <2> QED
    BY <2>1, QuietMirrors
<1>9. CASE Reload \/ Remount
  <2> DEFINE e == [tab EXCEPT !.unsaved = {}]
  <2>1. PICK owner : Restart(owner)
    BY <1>9 DEF Reload, Remount
  <2>2. tab \in Engine /\ tab.active \in Convs
    BY <2>1, EngineType DEF IInv, TypeOK, Restart, SomeConv
  <2>3. tab' = Activate(e, tab.active, TRUE, TRUE) /\ slot' = slot
    BY <2>1 DEF Restart, Works
  <2>4. e \in Engine
    BY <2>2, EngineType, Values
  <2>5. e.drawn = tab.drawn
    BY <2>2, <2>4, EngineFields DEF EmptyEngine
  <2> HIDE DEF e
  <2> QED
    BY <2>2, <2>3, <2>4, <2>5, ActivateMirrors DEF Seals
<1>10. ASSUME NEW c \in Convs, Select(c) PROVE Mirrors'
  <2>1. tab' = Activate(tab, c, TRUE, TRUE) /\ slot' = slot /\ tab \in Engine
    BY <1>10 DEF Select, Works, IInv, TypeOK
  <2> QED
    BY <2>1, ActivateMirrors DEF Seals
<1> QED
  BY <1>1, <1>2, <1>3, <1>4, <1>5, <1>6, <1>7, <1>8, <1>9, <1>10 DEF User

\* The answer of a call or a read leaves no record out of sight.
LEMMA AnswersMirrors == ASSUME IInv, IInv', Noted, "disk" \notin Faults, Mirrors, Answers PROVE Mirrors'
<1>0. Seals
  BY AnswersShut, ShutsSeals
<1>1. ASSUME NEW i \in DOMAIN calls, Receipt(i) PROVE Mirrors'
  <2>1. ReceiptStep(i, TRUE)
    BY <1>1, ReceiptFoot DEF Works
  <2>2. CASE tab'.pending.key = tab.pending.key /\ tab'.prepared = NoKey
    BY <1>0, <2>1, <2>2, HomeMirrors DEF ReceiptStep
  <2>3. CASE ~(tab'.pending.key = tab.pending.key /\ tab'.prepared = NoKey)
    <3>1. Holds(i) /\ HasPending(tab) /\ tab'.prepared = NoKey
      BY <2>1, <2>3 DEF ReceiptStep, Taken, Mirrors, HasPending, NoPending
    <3>2. slot[tab.active].key = calls[i].key /\ slot[tab.active].state \in {"pending", "acknowledged"}
      BY <3>1, PendingFacts DEF Holds
    <3>3. slot' = [slot EXCEPT ![tab.active] = Acknowledged(@, calls[i].key)]
      BY <2>1, <3>1 DEF ReceiptStep, Holds
    <3>4. slot'[tab.active].state # "pending"
      BY <3>1, <3>2, <3>3, PendingFacts DEF IInv, TypeOK, Acknowledged, Matches
    <3> QED
      BY <1>0, <2>1, <3>1, <3>4, SealsMirrors DEF ReceiptStep, Home, Mirrors
  <2> QED
    BY <2>2, <2>3
<1>2. ASSUME NEW i \in DOMAIN calls, CreateFails(i) PROVE Mirrors'
  BY <1>0, <1>2, CreateFailsFoot, HomeMirrors DEF CreateFailsStep, Kept, Home, Mirrors
<1>3. ASSUME NEW i \in DOMAIN calls, SteerReceipt(i) \/ SteerFails(i) PROVE Mirrors'
  BY <1>0, <1>3, SteerReceiptFoot, SteerFailsFoot, HomeMirrors DEF SteerAnswered, Kept, Home, Mirrors
<1>4. CASE RecoverAbsent
  <2>1. CASE QuietStep
    BY <2>1, QuietMirrors
  <2>2. CASE ~QuietStep
    <3> DEFINE a == Answered(tab)
               e == Forgotten(a)
    <3>1. tab \in Engine /\ tab.active \in Convs /\ Listed(tab)
      BY <1>4, Awake DEF IInv, TypeOK, RecoverAbsent
    <3>2. Quiet(tab, a) /\ Dropped(a, e)
      BY <3>1, AnsweredType, ForgottenType DEF Quiet
    <3>3. PICK c \in EvictTargets(tab) : tab' = Evict(e, c, TRUE)
      <4>1. ~(UNCHANGED <<slot, calls, past>> /\ tab' = [a EXCEPT !.hydrating = FALSE])
        <5> SUFFICES ASSUME UNCHANGED <<slot, calls, past>>, tab' = [a EXCEPT !.hydrating = FALSE] PROVE FALSE
          OBVIOUS
        <5>1. a \in Engine
          BY <3>2 DEF Quiet
        <5> HIDE DEF a
        <5>2. Quiet(a, tab')
          <6>1. tab' \in Engine
            BY <5>1, EngineType, Values
          <6> QED
            BY <5>1, <6>1, EngineFields DEF Quiet, Kept, Near, ReadAt, EmptyEngine
        <5>3. Quiet(tab, tab')
          BY <3>2, <5>2, QuietTwice DEF a
        <5> QED
          BY <1>4, <2>2, <3>1, <5>3, QuietIsStep DEF RecoverAbsent
      <4> QED
        BY <1>4, <4>1 DEF RecoverAbsent, Works
    <3> HIDE DEF a, e
    <3>4. /\ e \in Engine /\ e.active = tab.active /\ Listed(e) /\ e.drawn = tab.drawn
          /\ c \in EvictTargets(e)
      BY <3>1, <3>2 DEF Quiet, Kept, Dropped, Parted, Listed, EvictTargets, FreshConvs
    <3> QED
      BY <1>0, <3>1, <3>3, <3>4, EvictMirrors
  <2> QED
    BY <2>1, <2>2
<1>5. CASE HydrateForbidden
  <2> DEFINE a == Answered(tab)
  <2>1. tab \in Engine /\ tab.active \in Convs /\ Listed(tab)
    BY <1>5, Awake DEF IInv, TypeOK, HydrateForbidden
  <2>2. Quiet(tab, a)
    BY <2>1, AnsweredType
  <2>3. PICK c \in EvictTargets(tab) : tab' = Evict(a, c, TRUE)
    BY <1>5 DEF HydrateForbidden, Works
  <2> HIDE DEF a
  <2>4. a \in Engine /\ a.active = tab.active /\ Listed(a) /\ a.drawn = tab.drawn /\ c \in EvictTargets(a)
    BY <2>1, <2>2 DEF Quiet, Kept, Listed, EvictTargets, FreshConvs
  <2> QED
    BY <1>0, <2>1, <2>3, <2>4, EvictMirrors
<1>6. CASE HydrateAbsent \/ HydrateOwner
  BY <1>6, HydrateAbsentStep, HydrateOwnerStep, QuietMirrors
<1>7. CASE StopAnswered \/ HydrateFails \/ SyncOwner \/ SyncAbsent \/ StopOwner \/ ReadFails
  BY <1>7, StopAnsweredQuiet, HydrateFailsQuiet, SyncOwnerQuiet, SyncAbsentQuiet, StopOwnerQuiet,
     ReadFailsQuiet, QuietMirrors
<1> QED
  BY <1>1, <1>2, <1>3, <1>4, <1>5, <1>6, <1>7 DEF Answers

\* Every step leaves no record out of sight.
LEMMA MirrorsNext == ASSUME IInv, IInv', Noted, "disk" \notin Faults, Mirrors, Next PROVE Mirrors'
<1>1. CASE Service
  <2>1. tab' = tab \/ ReadExecutes
    BY <1>1 DEF Service, Accept, Refuse, Start, Complete, Vanish
  <2>2. slot' = slot
    BY <1>1 DEF Service, Accept, Refuse, Start, Complete, Vanish, ReadExecutes
  <2>3. CASE tab' = tab
    BY <2>2, <2>3 DEF Mirrors, HasPending
  <2>4. CASE ReadExecutes
    BY <2>4, ReadExecutesQuiet, QuietMirrors
  <2> QED
    BY <2>1, <2>3, <2>4
<1> QED
  BY <1>1, UserMirrors, AnswersMirrors, StreamIsQuiet, QuietMirrors DEF Next

\* A storage that works retires the intent of a view.
LEMMA MirrorsRetires ==
    ASSUME IInv, Mirrors, "disk" \notin Faults, NEW works \in Works
    PROVE  AbandonWorks(tab, works)
<1> SUFFICES ASSUME Intent(tab) # NoKey PROVE CanAbandon(slot[tab.active], Intent(tab), works)
  BY DEF AbandonWorks
<1>1. HasPending(tab) /\ Intent(tab) = tab.pending.key /\ works
  BY DEF Intent, Mirrors, Works
<1> QED
  BY <1>1, PendingFacts DEF CanAbandon, Matches, Closed

\* Every step leaves no recovery without its read, or without the new conversation it was left for.
LEMMA RecoveringNext ==
    ASSUME IInv, Mirrors, "disk" \notin Faults, RecoveringIsRead, Next
    PROVE  RecoveringIsRead'
<1>1. CASE Recovers(tab, tab')
  BY <1>1 DEF Recovers, RecoveringIsRead, Sited
<1>2. CASE StaysGone
  BY <1>2, MirrorsRetires DEF StaysGone
<1>3. CASE Service
  <2>1. CASE tab' = tab
    BY <2>1 DEF RecoveringIsRead
  <2>2. CASE ReadExecutes
    <3>1. Sited(tab, tab') /\ ReadExecutesView
      BY <2>2, ReadExecutesQuiet, ReadExecutesFields, KeptSited
    <3> QED
      BY <3>1 DEF ReadExecutesView, Alike, Waiting, Sited, RecoveringIsRead
  <2> QED
    BY <1>3, <2>1, <2>2 DEF Service, Accept, Refuse, Start, Complete, Vanish
<1> QED
  BY <1>1, <1>2, <1>3, UserRecovers, CallsRecovers, ReadsRecovers, StreamRecovers DEF Next, Answers

\* The storage works.
StorageHolds == "disk" \notin Faults

\* "Recovering" ends with the read that ends it (recoveringExpiredCursor, hydrate): where the storage
\* works, neither another selection, a stop, a time-out, an eviction, a reload nor a late receipt leaves
\* the flag behind in a view; newConversation alone does, in the conversation it begins.
THEOREM RecoveringEnds == ASSUME StorageHolds PROVE Spec => []RecoveringIsRead
<1> DEFINE Watched == IInv /\ Noted /\ Mirrors /\ RecoveringIsRead
<1>1. Init => Watched
  <2> SUFFICES ASSUME Init PROVE Watched
    OBVIOUS
  <2>1. IInv /\ Noted
    BY InvInit, NotedInit
  <2>2. Mirrors /\ RecoveringIsRead
    BY ChatAssumption DEF Init, EmptyEngine, EmptySlot, Mirrors, RecoveringIsRead
  <2> QED
    BY <2>1, <2>2
<1>2. Watched /\ [Next]_vars => Watched'
  <2> SUFFICES ASSUME Watched, [Next]_vars PROVE Watched'
    OBVIOUS
  <2>1. IInv' /\ Noted'
    BY InvNext, NotedNext DEF MemoryKept, StorageHolds
  <2>2. CASE Next
    BY <2>1, <2>2, MirrorsNext, RecoveringNext DEF StorageHolds
  <2>3. CASE UNCHANGED vars
    BY <2>1, <2>3 DEF vars, Mirrors, RecoveringIsRead, HasPending, serverVars
  <2> QED
    BY <2>2, <2>3
<1>3. Watched => RecoveringIsRead
  OBVIOUS
<1> HIDE DEF Watched
<1> QED
  BY <1>1, <1>2, <1>3, PTL DEF Spec

\* No stream breaks, none ends for good.
StreamsHold == {"drop", "fail"} \cap Faults = {}

\* A receipt that was set aside (deferredCreateReceipt) is awaited by a read that will take it, and
\* the intent it is of is still held: as long as no stream breaks or fails for good.
THEOREM DeferredIsTaken == ASSUME StreamsHold PROVE Spec => []DeferredIsAwaited
<1>1. IInv /\ Sound(tab) => DeferredIsAwaited
  BY DEF Sound, DefersWhile, DeferredIsAwaited, StreamsHold
<1> QED
  BY <1>1, SoundAlways, PTL

(* A run that is shown is followed *)

\* RunIsFollowed, of any view.
Followed(e) ==
    e.machine.run # NoKey => e.stream # "closed" \/ e.read.kind = "recover" \/ e.connection = "unavailable"

\* A recovery that found no conversation shows no run.
Vacant(e) == e.read.kind = "recover" /\ e.read.at = Absent => e.machine.run = NoKey

Guided(e) == Sound(e) /\ Followed(e) /\ Vacant(e)

\* A run that is shown is one the service knows.
Grounded == gone = {} /\ (tab.machine.run # NoKey => log[tab.active] # <<>>)

\* A view that shows no run needs nothing.
LEMMA IdleGuided == ASSUME NEW f, f.machine.run = NoKey PROVE Followed(f) /\ Vacant(f)
  BY DEF Followed, Vacant

\* Where the view only rests, a run that was followed is followed.
LEMMA LinkedGuided ==
    ASSUME NEW e, Followed(e), Vacant(e), NEW f, Linked(e, f), f.machine.run \in {e.machine.run, NoKey},
           \/ f.read = e.read
           \/ f.read.kind # "recover" /\ e.read.kind # "recover"
    PROVE  Followed(f) /\ Vacant(f)
  BY DEF Linked, Followed, Vacant

\* A machine at rest shows no run, and none while it submits.
LEMMA RestingRun == ASSUME NEW m, Shaped(m), Resting(m) PROVE m.run = NoKey /\ SUBMIT(m).run = NoKey
  BY DEF Shaped, Resting, SUBMIT, Running

\* The fixed states of machine-state.ts show no run; no read is no recovery.
LEMMA FixedRuns ==
    /\ IdleMachine.run = NoKey /\ \A error \in Errors : FAIL(error).run = NoKey
    /\ NoRead.kind # "recover" /\ Travelling # Absent
  BY DEF IdleMachine, Running, FAIL, NoRead, Travelling, Absent

\* Sending a message (submit) keeps a run that is shown followed.
LEMMA SubmitGuided ==
    ASSUME IInv, Guided(tab), NEW c \in Convs, NEW k \in Keys, Submit(c, k)
    PROVE  Followed(tab') /\ Vacant(tab')
<1>1. SubmitView(c, k)
  BY SubmitFields
<1>2. tab'.machine.run = NoKey
  BY <1>1, RestingRun DEF SubmitView, Guided, Sound, Visible
<1> QED
  BY <1>2, IdleGuided

\* Sending a message during a run (submit, run shown) keeps a run that is shown followed.
LEMMA SteerGuided ==
    ASSUME IInv, Guided(tab), NEW k \in Keys, Steer(k)
    PROVE  Followed(tab') /\ Vacant(tab')
<1>1. SteerView(k)
  BY SteerFields
<1>2. tab.read.kind # "recover" /\ tab'.read.kind # "recover"
  BY <1>1, TouchedKind DEF SteerView, Guided, Sound, RecoverIsQuiet
<1> QED
  BY <1>1, <1>2, LinkedGuided DEF SteerView, Guided

\* Posting a message again (retry) keeps a run that is shown followed.
LEMMA RetryGuided == ASSUME IInv, Guided(tab), RetryKnown \/ Retry PROVE Followed(tab') /\ Vacant(tab')
<1>1. CASE RetryKnown
  BY <1>1, RetryKnownFields, FixedRuns, IdleGuided DEF RetryKnownView
<1>2. CASE Retry
  <2>1. RetryView
    BY <1>2, RetryFields
  <2>2. SUBMIT(tab.machine).run = NoKey
    BY <2>1, RestingRun DEF RetryView, Resting, Guided, Sound, Visible
  <2> QED
    BY <2>1, <2>2, IdleGuided DEF RetryView
<1> QED
  BY <1>1, <1>2

\* Giving a message up, or asking the run shown to stop, keeps a run that is shown followed.
LEMMA StopGuided ==
    ASSUME IInv, Guided(tab), StopSubmission \/ StopRun
    PROVE  Followed(tab') /\ Vacant(tab')
<1>1. CASE StopSubmission
  BY <1>1, StopSubmissionFields, FixedRuns, IdleGuided DEF StopSubmissionView
<1>2. CASE StopRun
  <2>1. StopRunView
    BY <1>2, StopRunFields
  <2>2. tab'.machine.run = tab.machine.run
    BY <2>1 DEF StopRunView, CANCEL, Guided, Sound, Visible, Shaped, Machine
  <2> QED
    BY <2>1, <2>2, LinkedGuided DEF StopRunView, Alike, Guided
<1> QED
  BY <1>1, <1>2

\* Closing the stream for a read of the snapshot (fetchSnapshot's callers) keeps a run followed.
LEMMA AsksGuided ==
    ASSUME NEW e, Followed(e), NEW f, Asks(e, f)
    PROVE  Followed(f) /\ Vacant(f)
<1>1. f.read.kind # "recover"
  BY DEF Asks
<1>2. FAIL("failed").run = NoKey
  BY FixedRuns, Values
<1>3. Followed(f)
  BY <1>2 DEF Asks, Followed
<1> QED
  BY <1>1, <1>3 DEF Vacant

\* The answer to a stop (cancelRun's callbacks) keeps a run that is shown followed.
LEMMA StopAnsweredGuided == ASSUME IInv, Guided(tab), StopAnswered PROVE Followed(tab') /\ Vacant(tab')
<1>1. StopAnsweredView
  BY StopAnsweredFields
<1>2. CASE Alike(tab, tab') /\ tab'.machine = tab.machine /\ tab'.read = tab.read
  BY <1>2, LinkedGuided DEF Alike, Guided
<1>3. ASSUME NEW e \in Engine, Alike(tab, e), e.read = tab.read, Asks(e, tab'),
             e.machine \in {tab.machine, [tab.machine EXCEPT !.error = "failed"]}
      PROVE  Followed(tab') /\ Vacant(tab')
  <2>1. e.machine.run = tab.machine.run
    BY <1>3 DEF Guided, Sound, Visible, Shaped, Machine
  <2>2. Followed(e)
    BY <1>3, <2>1 DEF Guided, Alike, Linked, Followed
  <2> QED
    BY <1>3, <2>2, AsksGuided
<1> QED
  BY <1>1, <1>2, <1>3 DEF StopAnsweredView

\* Opening a conversation of one's own (newConversation) keeps a run that is shown followed.
LEMMA NewGuided == ASSUME IInv, NEW c \in Convs, New(c) PROVE Followed(tab') /\ Vacant(tab')
  BY NewFields, FixedRuns, IdleGuided DEF NewView

\* A view just opened shows no run.
LEMMA OpenedGuided == ASSUME NEW f, OpenedView(f) PROVE Followed(f) /\ Vacant(f)
  BY RestoredVisible, IdleGuided DEF OpenedView

\* The user's reconnect (reconnect) keeps a run that is shown followed.
LEMMA ReconnectGuided == ASSUME IInv, Guided(tab), Reconnect PROVE Followed(tab') /\ Vacant(tab')
<1>1. ReconnectView
  BY ReconnectFields
<1>2. CASE tab.broken
  BY <1>1, <1>2, RestoredVisible, IdleGuided DEF ReconnectView
<1>3. CASE ~tab.broken
  BY <1>1, <1>3, FixedRuns DEF ReconnectView, Followed, Vacant
<1> QED
  BY <1>2, <1>3

\* A receipt applied or set aside (beginRun then) keeps a run that is shown followed.
LEMMA AppliedGuided ==
    ASSUME NEW e \in Engine, Guided(e), NEW k \in Keys, NEW f, Applied(e, f, k)
    PROVE  Followed(f) /\ Vacant(f)
<1>1. Shaped(e.machine)
  BY DEF Guided, Sound, Visible
<1>2. CASE f.stream = e.stream /\ f.machine = e.machine /\ f.read = e.read
  BY <1>2, LinkedGuided DEF Applied, Linked, Guided
<1>3. CASE ~e.hydrating /\ ~e.recovering /\ e.connection = "connected" /\ f.read = Touched(e.read)
  <2>1. e.read.kind # "recover" /\ f.read.kind # "recover"
    BY <1>3, TouchedKind DEF Guided, Sound, RecoverIsQuiet
  <2>2. Vacant(f)
    BY <2>1 DEF Vacant
  <2>3. e.machine.run # NoKey => e.stream # "closed"
    BY <1>3, <2>1 DEF Guided, Followed
  <2>4. CASE f.stream = "connecting"
    BY <2>2, <2>4 DEF Followed
  <2>5. CASE f.stream = e.stream /\ f.machine = IF e.machine.run = NoKey THEN IdleMachine ELSE e.machine
    BY <2>2, <2>3, <2>5, FixedRuns DEF Followed
  <2>6. CASE e.machine.phase # "submitting" /\ f.machine = TakenMachine(e.machine, k) /\ f.stream # "connecting"
             /\ f.stream = IF e.machine.run = NoKey /\ f.machine.run # NoKey THEN "connecting" ELSE e.stream
    <3>1. e.machine.run # NoKey \/ f.machine.run = NoKey
      BY <2>6
    <3> QED
      BY <2>2, <2>3, <2>6, <3>1 DEF Followed
  <2> QED
    BY <1>3, <2>4, <2>5, <2>6 DEF Applied
<1> QED
  BY <1>2, <1>3 DEF Applied

\* The receipt of a create-message call (beginRun then) keeps a run that is shown followed.
LEMMA ReceiptGuided ==
    ASSUME IInv, Guided(tab), NEW i \in DOMAIN calls, Receipt(i)
    PROVE  Followed(tab') /\ Vacant(tab')
<1>1. ReceiptView(i) /\ calls[i].key \in Keys /\ tab \in Engine
  BY ReceiptFields, CallFacts
<1>2. CASE Applied(tab, tab', calls[i].key)
  BY <1>1, <1>2, AppliedGuided
<1>3. CASE Seen(tab, tab') /\ tab'.machine = tab.machine /\ tab'.read = tab.read
  BY <1>3, LinkedGuided DEF Seen, Guided
<1> QED
  BY <1>1, <1>2, <1>3 DEF ReceiptView

\* The failure of a create-message call (beginRun catch) keeps a run that is shown followed.
LEMMA CreateFailsGuided ==
    ASSUME IInv, Guided(tab), NEW i \in DOMAIN calls, CreateFails(i)
    PROVE  Followed(tab') /\ Vacant(tab')
<1>1. CreateFailsView
  BY CreateFailsFields
<1>2. FAIL("failed").run = NoKey
  BY FixedRuns, Values
<1> QED
  BY <1>1, <1>2, LinkedGuided DEF CreateFailsView, Alike, Guided

\* The end of a call made during a run (submit steer then, catch) keeps a run that is shown
\* followed.
LEMMA SteerAnsweredGuided ==
    ASSUME IInv, Guided(tab), NEW i \in DOMAIN calls, SteerReceipt(i) \/ SteerFails(i)
    PROVE  Followed(tab') /\ Vacant(tab')
<1>1. SteerAnsweredView(i)
  BY SteerReceiptFields, SteerFailsFields
<1>2. CASE /\ calls[i].key \in tab.steers /\ tab'.stream = "connecting"
           /\ tab'.read = IF tab.read.kind \in {"sync", "stop"} THEN NoRead ELSE tab.read
  <2>1. tab'.read.kind # "recover"
    BY <1>2, FixedRuns DEF Guided, Sound, RecoverIsQuiet
  <2> QED
    BY <1>2, <2>1 DEF Followed, Vacant
<1>3. CASE tab'.machine = tab.machine /\ tab'.stream = tab.stream /\ tab'.read \in {tab.read, Touched(tab.read)}
  <2>1. Linked(tab, tab')
    BY <1>1, <1>3 DEF SteerAnsweredView, SteerLeft, Linked
  <2>2. tab'.read = tab.read \/ (tab'.read.kind # "recover" /\ tab.read.kind # "recover")
    BY <1>3, FixedRuns DEF Touched
  <2> QED
    BY <1>3, <2>1, <2>2, LinkedGuided DEF Guided
<1> QED
  BY <1>1, <1>2, <1>3 DEF SteerAnsweredView

\* The end of a read that is no recovery keeps a run that is shown followed.
LEMMA AnsweredGuided ==
    ASSUME NEW e \in Engine, Followed(e), e.read.kind # "recover"
    PROVE  Followed(Answered(e)) /\ Vacant(Answered(e))
<1> DEFINE a == Answered(e)
<1>1. Alike(e, a) /\ a.machine = e.machine /\ a.read = NoRead
  BY AnsweredFields
<1> HIDE DEF a
<1>2. Followed(a) /\ Vacant(a)
  BY <1>1, NoReadKind DEF Alike, Linked, Followed, Vacant
<1> QED
  BY <1>2 DEF a

\* A hydration that finds no conversation (hydrate) keeps a run that is shown followed.
LEMMA HydrateAbsentGuided ==
    ASSUME IInv, Guided(tab), HydrateAbsent
    PROVE  Followed(tab') /\ Vacant(tab')
<1>1. HydrateAbsentView
  BY HydrateAbsentFields
<1>2. tab'.read.kind = "none" /\ tab.read.kind # "recover"
  BY <1>1, NoReadKind DEF HydrateAbsentView
<1>3. CASE tab'.stream = "connecting"
  BY <1>2, <1>3 DEF Followed, Vacant
<1>4. CASE tab'.machine = tab.machine /\ tab'.stream = tab.stream
  BY <1>1, <1>2, <1>4, LinkedGuided DEF HydrateAbsentView, Linked, Guided
<1> QED
  BY <1>1, <1>3, <1>4 DEF HydrateAbsentView

\* A recovery that finds no conversation (hydrate after an expired cursor) keeps a run that is
\* shown followed.
LEMMA RecoverAbsentGuided ==
    ASSUME IInv, Guided(tab), RecoverAbsent
    PROVE  Followed(tab') /\ Vacant(tab')
<1>1. RecoverAbsentView
  BY RecoverAbsentFields
<1>2. CASE OpenedView(tab')
  BY <1>2, OpenedGuided
<1>3. CASE tab'.machine = tab.machine
  <2>1. tab.machine.run = NoKey
    BY <1>1 DEF RecoverAbsentView, Guided, Vacant
  <2> QED
    BY <1>3, <2>1, IdleGuided
<1> QED
  BY <1>1, <1>2, <1>3 DEF RecoverAbsentView

\* A hydration or a recovery that finds the conversation (hydrate) keeps a run that is shown
\* followed.
LEMMA HydrateOwnerGuided == ASSUME IInv, HydrateOwner PROVE Followed(tab') /\ Vacant(tab')
<1>1. tab'.read.kind = "none" /\ (tab'.machine.run # NoKey => tab'.stream = "connecting")
  BY HydrateOwnerFields, NoReadKind DEF HydrateOwnerView
<1> QED
  BY <1>1 DEF Followed, Vacant

\* A hydration that fails (hydrate catch) keeps a run that is shown followed.
LEMMA HydrateFailsGuided == ASSUME IInv, Guided(tab), HydrateFails PROVE Followed(tab') /\ Vacant(tab')
  BY HydrateFailsFields, AsksGuided DEF HydrateFailsView, Guided

\* A thread that took the owner's snapshot over follows the owner's run.
LEMMA AdoptedGuided ==
    ASSUME NEW e, NEW f, NEW view, Adopted(e, f, view), e.read.kind # "recover"
    PROVE  Followed(f) /\ Vacant(f)
<1>1. Vacant(f)
  BY DEF Adopted, Vacant
<1>2. CASE ExecutionHead(view) # NoKey
  BY <1>1, <1>2 DEF Adopted, Followed
<1>3. CASE ExecutionHead(view) = NoKey
  <2>1. f.machine \in {IdleMachine, FAIL("unknown")}
    BY <1>3 DEF Adopted, HeadMachine
  <2>2. f.machine.run = NoKey
    BY <2>1, FixedRuns, Values
  <2> QED
    BY <2>2, IdleGuided
<1> QED
  BY <1>2, <1>3

\* The read after a run's end (syncWorkspaceFiles) keeps a run that is shown followed.
LEMMA SyncOwnerGuided == ASSUME IInv, Guided(tab), SyncOwner PROVE Followed(tab') /\ Vacant(tab')
<1> DEFINE a == Answered(tab)
<1>1. SyncOwnerView /\ tab \in Engine
  BY SyncOwnerFields DEF IInv, TypeOK
<1>2. tab.read.kind = "sync" /\ a.machine = tab.machine /\ a.read = NoRead
  BY <1>1, AnsweredFields DEF SyncOwnerView
<1> HIDE DEF a
<1>3. PICK e \in Engine :
        /\ Rests(a, e) /\ Linked(tab, e)
        /\ \/ tab' = e
           \/ /\ tab.machine.phase = "idle" \/ (HasPending(tab) /\ tab.machine.error = "unknown")
              /\ Rests(e, tab') /\ tab'.stream = "closed" /\ tab'.connection \in {e.connection, "connected"}
           \/ ExecutionHead(View) # NoKey /\ Adopted(e, tab', View)
  BY <1>1 DEF SyncOwnerView, a
<1>4. e.machine = tab.machine /\ e.read.kind = "none"
  BY <1>2, <1>3, NoReadKind DEF Rests
<1>5. Followed(e) /\ Vacant(e)
  BY <1>2, <1>3, <1>4, LinkedGuided DEF Guided
<1>6. CASE tab' = e
  BY <1>5, <1>6
<1>7. CASE (tab.machine.phase = "idle" \/ tab.machine.error = "unknown") /\ Rests(e, tab')
  <2>1. tab.machine.run = NoKey
    BY <1>7 DEF Guided, Sound, Visible, Shaped
  <2>2. tab'.machine.run = NoKey
    BY <1>4, <1>7, <2>1 DEF Rests
  <2> QED
    BY <2>2, IdleGuided
<1>8. CASE Adopted(e, tab', View)
  BY <1>4, <1>8, AdoptedGuided
<1> QED
  BY <1>3, <1>6, <1>7, <1>8

\* The read after a run's end that finds no conversation (syncWorkspaceFiles) keeps a run that is
\* shown followed.
LEMMA SyncAbsentGuided == ASSUME IInv, Guided(tab), SyncAbsent PROVE Followed(tab') /\ Vacant(tab')
<1>1. SyncAbsentView /\ tab'.read.kind = "none" /\ tab.read.kind # "recover"
  BY SyncAbsentFields, NoReadKind DEF SyncAbsentView
<1>2. CASE tab'.stream = tab.stream
  BY <1>1, <1>2, LinkedGuided DEF SyncAbsentView, Linked, Guided
<1>3. CASE tab.machine.phase = "idle"
  <2>1. tab'.machine.run = NoKey
    BY <1>1, <1>3 DEF SyncAbsentView, Guided, Sound, Visible, Shaped
  <2> QED
    BY <2>1, IdleGuided
<1> QED
  BY <1>1, <1>2, <1>3 DEF SyncAbsentView

\* The read after a stop (cancelRun) keeps a run that is shown followed.
LEMMA StopOwnerGuided == ASSUME IInv, Guided(tab), StopOwner PROVE Followed(tab') /\ Vacant(tab')
<1>1. StopOwnerView /\ tab \in Engine
  BY StopOwnerFields DEF IInv, TypeOK
<1>2. CASE tab' = Answered(tab)
  <2>1. tab.read.kind # "recover"
    BY <1>1 DEF StopOwnerView
  <2> QED
    BY <1>1, <1>2, <2>1, AnsweredGuided DEF Guided
<1>3. ASSUME NEW e \in Engine, e.read = NoRead, Adopted(e, tab', View) PROVE Followed(tab') /\ Vacant(tab')
  BY <1>3, NoReadKind, AdoptedGuided
<1> QED
  BY <1>1, <1>2, <1>3 DEF StopOwnerView

\* A read after a run's end or a stop that fails keeps a run that is shown followed.
LEMMA ReadFailsGuided == ASSUME IInv, Guided(tab), ReadFails PROVE Followed(tab') /\ Vacant(tab')
<1>1. ReadFailsView /\ tab \in Engine
  BY ReadFailsFields DEF IInv, TypeOK
<1> QED
  BY <1>1, AnsweredGuided DEF ReadFailsView, Guided

\* A stream that connects, breaks or ends for good keeps a run followed, or says it is not.
LEMMA StreamLinkGuided ==
    ASSUME IInv, Guided(tab), StreamConnects \/ StreamDrops \/ StreamFails
    PROVE  Followed(tab') /\ Vacant(tab')
<1>1. LinkView("live", "connected") \/ LinkView("connecting", "reconnecting") \/ LinkView("closed", "unavailable")
  BY StreamConnectsFields, StreamDropsFields, StreamFailsFields
<1>2. tab.read.kind # "recover" /\ tab'.read = tab.read
  BY <1>1 DEF LinkView, Guided, Sound, RecoverIsQuiet
<1> QED
  BY <1>1, <1>2 DEF LinkView, Followed, Vacant

\* The time-out of a reattached run (reattachTimer) keeps a run that is shown followed.
LEMMA ReattachTimesOutGuided ==
    ASSUME IInv, Guided(tab), ReattachTimesOut
    PROVE  Followed(tab') /\ Vacant(tab')
<1>1. TimeoutView
  BY ReattachTimesOutFields
<1>2. CASE Alike(tab, tab') /\ tab'.machine = tab.machine /\ tab'.read = tab.read
  BY <1>2, LinkedGuided DEF Alike, Guided
<1>3. CASE tab'.read = NoRead /\ tab'.connection = "unavailable"
  BY <1>3, NoReadKind DEF Followed, Vacant
<1> QED
  BY <1>1, <1>2, <1>3 DEF TimeoutView

\* An expired cursor (onStreamError, event_cursor_expired) keeps a run that is shown followed.
LEMMA StreamExpiresGuided == ASSUME IInv, StreamExpires PROVE Followed(tab') /\ Vacant(tab')
  BY StreamExpiresFields, FixedRuns DEF ExpiresView, Followed, Vacant

\* A batch of events (handleStreamEvents) keeps a run that is shown followed.
LEMMA StreamEventsGuided == ASSUME IInv, Guided(tab), StreamEvents PROVE Followed(tab') /\ Vacant(tab')
<1>1. EventsView
  BY StreamEventsFields
<1>2. PICK f \in Engine :
        /\ Linked(tab, f) /\ f.read.kind = Touched(tab.read).kind
        /\ tab' = f \/ Asks(f, tab')
  BY <1>1 DEF EventsView, Heeds
<1>3. f.stream # "closed" /\ f.read.kind # "recover"
  BY <1>1, <1>2, TouchedKind DEF EventsView, Linked, Guided, Sound, RecoverIsQuiet
<1>4. Followed(f) /\ Vacant(f)
  BY <1>3 DEF Followed, Vacant
<1> QED
  BY <1>2, <1>4, AsksGuided

\* The service knows every conversation that shows a run: no read of it comes back empty.
LEMMA ReadExecutesGuided ==
    ASSUME IInv, Guided(tab), Grounded, ReadExecutes
    PROVE  Followed(tab') /\ Vacant(tab')
<1>1. ReadExecutesView
  BY ReadExecutesFields
<1>2. Followed(tab')
  BY <1>1 DEF ReadExecutesView, Alike, Linked, Guided, Followed
<1>3. tab'.read.at = Absent => tab.machine.run = NoKey
  <2>1. tab.active \in Convs /\ (log[tab.active] # <<>> => Len(log[tab.active]) # 0)
    BY <1>1 DEF ReadExecutesView, IInv, TypeOK
  <2> QED
    BY <1>1, <2>1 DEF ReadExecutesView, Grounded, Absent
<1> QED
  BY <1>1, <1>2, <1>3 DEF ReadExecutesView, Vacant

\* A command of the user keeps a run that is shown followed.
LEMMA UserGuided == ASSUME IInv, Guided(tab), User PROVE Followed(tab') /\ Vacant(tab')
<1>1. ASSUME NEW c \in Convs, NEW k \in Keys, Submit(c, k) PROVE Followed(tab') /\ Vacant(tab')
  BY <1>1, SubmitGuided
<1>2. ASSUME NEW k \in Keys, Steer(k) PROVE Followed(tab') /\ Vacant(tab')
  BY <1>2, SteerGuided
<1>3. CASE RetryKnown \/ Retry
  BY <1>3, RetryGuided
<1>4. CASE StopSubmission \/ StopRun
  BY <1>4, StopGuided
<1>5. CASE Reconnect
  BY <1>5, ReconnectGuided
<1>6. CASE Reload \/ Remount
  BY <1>6, RestartFields, OpenedGuided DEF Reload, Remount
<1>7. ASSUME NEW c \in Convs, New(c) PROVE Followed(tab') /\ Vacant(tab')
  BY <1>7, NewGuided
<1>8. ASSUME NEW c \in Convs, Select(c) PROVE Followed(tab') /\ Vacant(tab')
  BY <1>8, SelectFields, OpenedGuided
<1> QED
  BY <1>1, <1>2, <1>3, <1>4, <1>5, <1>6, <1>7, <1>8 DEF User

\* The answer of a call or a read keeps a run that is shown followed.
LEMMA AnswersGuided == ASSUME IInv, Guided(tab), Answers PROVE Followed(tab') /\ Vacant(tab')
<1>1. ASSUME NEW i \in DOMAIN calls, Receipt(i) PROVE Followed(tab') /\ Vacant(tab')
  BY <1>1, ReceiptGuided
<1>2. ASSUME NEW i \in DOMAIN calls, CreateFails(i) PROVE Followed(tab') /\ Vacant(tab')
  BY <1>2, CreateFailsGuided
<1>3. ASSUME NEW i \in DOMAIN calls, SteerReceipt(i) \/ SteerFails(i) PROVE Followed(tab') /\ Vacant(tab')
  BY <1>3, SteerAnsweredGuided
<1>4. CASE StopAnswered
  BY <1>4, StopAnsweredGuided
<1>5. CASE HydrateAbsent \/ RecoverAbsent
  BY <1>5, HydrateAbsentGuided, RecoverAbsentGuided
<1>6. CASE HydrateOwner \/ HydrateFails
  BY <1>6, HydrateOwnerGuided, HydrateFailsGuided
<1>7. CASE HydrateForbidden
  BY <1>7, HydrateForbiddenFields, OpenedGuided
<1>8. CASE SyncOwner \/ SyncAbsent
  BY <1>8, SyncOwnerGuided, SyncAbsentGuided
<1>9. CASE StopOwner \/ ReadFails
  BY <1>9, StopOwnerGuided, ReadFailsGuided
<1> QED
  BY <1>1, <1>2, <1>3, <1>4, <1>5, <1>6, <1>7, <1>8, <1>9 DEF Answers

\* The stream, the service and nothing happening keep a run that is shown followed.
LEMMA OthersGuided ==
    ASSUME IInv, Guided(tab), Grounded, Stream \/ Service \/ UNCHANGED vars
    PROVE  Followed(tab') /\ Vacant(tab')
<1>1. CASE Stream
  BY <1>1, StreamLinkGuided, ReattachTimesOutGuided, StreamExpiresGuided, StreamEventsGuided DEF Stream
<1>2. CASE tab' = tab
  <2> DEFINE f == tab'
  <2>1. f = tab
    BY <1>2
  <2> HIDE DEF f
  <2>2. Followed(f) /\ Vacant(f)
    BY <2>1 DEF Guided
  <2> QED
    BY <2>2 DEF f
<1>3. Service => ReadExecutes \/ tab' = tab
  BY DEF Service, Accept, Refuse, Start, Complete, Vanish
<1> QED
  BY <1>1, <1>2, <1>3, ReadExecutesGuided DEF vars

\* Every step keeps a run that is shown followed, where what is shown is in a ledger.
LEMMA GuidedNext == ASSUME IInv, Guided(tab), Grounded, [Next]_vars PROVE Guided(tab')
<1>1. Sound(tab')
  BY SoundNext DEF Guided
<1>2. Followed(tab') /\ Vacant(tab')
  BY UserGuided, AnswersGuided, OthersGuided DEF Next
<1> QED
  BY <1>1, <1>2 DEF Guided

\* What the service knows: nothing vanished, what it accepted is in its ledgers, and so is what the
\* tab has a receipt of; and the steers a view waits for are its own.
Told ==
    /\ gone = {}
    /\ \A i \in DOMAIN calls : calls[i].status = "accepted" => log[calls[i].conv] # <<>>
    /\ \A k \in past.received : log[past.home[k]] # <<>>
    /\ \A k \in tab.steers : past.home[k] = tab.active

\* A run that a step shows was shown, or is one of a ledger that is not empty.
RunKept ==
    \/ tab'.machine.run = NoKey
    \/ tab'.active = tab.active /\ tab.active \in Convs
       /\ (tab'.machine.run = tab.machine.run \/ log[tab.active] # <<>>)

\* The steers that a view waits for stay its own.
Leaves == tab'.steers = {} \/ (tab'.active = tab.active /\ tab'.steers \subseteq tab.steers)

\* What a step asks of the user's commands and the answers.
Anchors == RunKept /\ Leaves

\* A read of the snapshot asked for from the same view shows no other run.
LEMMA AlikeAnchors ==
    ASSUME tab.active \in Convs, NEW e, e.active = tab.active, e.machine.run = tab.machine.run,
           e.steers = tab.steers, Asks(e, tab')
    PROVE  Anchors
<1>1. tab'.machine.run \in {tab.machine.run, NoKey}
  BY FixedRuns, Values DEF Asks
<1> QED
  BY <1>1 DEF Asks, Who, Where, Anchors, RunKept, Leaves

\* What posting a message again (retry) does to the run shown and the receipts waited for.
LEMMA RetryAnchors == ASSUME IInv, Sound(tab), RetryKnown \/ Retry PROVE Anchors
<1>1. CASE RetryKnown
  BY <1>1, RetryKnownFields, FixedRuns DEF RetryKnownView, Anchors, RunKept, Leaves
<1>2. CASE Retry
  <2>1. RetryView
    BY <1>2, RetryFields
  <2>2. SUBMIT(tab.machine).run = NoKey
    BY <2>1, RestingRun DEF RetryView, Resting, Sound, Visible
  <2> QED
    BY <2>1, <2>2 DEF RetryView, Where, Anchors, RunKept, Leaves
<1> QED
  BY <1>1, <1>2

\* What a stop does to the run shown and the receipts waited for (cancelPendingSubmission,
\* cancelRun).
LEMMA StopAnchors == ASSUME IInv, Sound(tab), StopSubmission \/ StopRun PROVE Anchors
<1>1. CASE StopSubmission
  BY <1>1, StopSubmissionFields, FixedRuns DEF StopSubmissionView, Where, Anchors, RunKept, Leaves
<1>2. CASE StopRun
  <2>1. StopRunView
    BY <1>2, StopRunFields
  <2>2. tab'.machine.run = tab.machine.run
    BY <2>1 DEF StopRunView, CANCEL, Sound, Visible, Shaped, Machine
  <2> QED
    BY <2>1, <2>2 DEF StopRunView, Alike, Who, Where, Anchors, RunKept, Leaves
<1> QED
  BY <1>1, <1>2

\* What the answer to a stop (cancelRun's callbacks) does to the run shown and the receipts waited
\* for.
LEMMA StopAnsweredAnchors == ASSUME IInv, Sound(tab), StopAnswered PROVE Anchors
<1>1. StopAnsweredView
  BY StopAnsweredFields
<1>2. CASE Alike(tab, tab') /\ tab'.machine = tab.machine
  BY <1>1, <1>2 DEF StopAnsweredView, Alike, Who, Where, Anchors, RunKept, Leaves
<1>3. ASSUME NEW e \in Engine, Alike(tab, e), Asks(e, tab'),
             e.machine \in {tab.machine, [tab.machine EXCEPT !.error = "failed"]}
      PROVE  Anchors
  <2>1. e.machine.run = tab.machine.run
    BY <1>3 DEF Sound, Visible, Shaped, Machine
  <2> QED
    BY <1>1, <1>3, <2>1, AlikeAnchors DEF StopAnsweredView, Alike, Who, Where
<1> QED
  BY <1>1, <1>2, <1>3 DEF StopAnsweredView

\* What opening a conversation of one's own (newConversation) does to the run shown and the
\* receipts waited for.
LEMMA NewAnchors == ASSUME IInv, NEW c \in Convs, New(c) PROVE Anchors
  BY NewFields, FixedRuns DEF NewView, Anchors, RunKept, Leaves

\* A view just opened shows no run and waits for no receipt.
LEMMA OpenedAnchors == ASSUME OpenedView(tab') PROVE Anchors
  BY RestoredVisible DEF OpenedView, Anchors, RunKept, Leaves

\* What the user's reconnect (reconnect) does to the run shown and the receipts waited for.
LEMMA ReconnectAnchors == ASSUME IInv, Reconnect PROVE Anchors
<1>1. ReconnectView
  BY ReconnectFields
<1>2. CASE tab.broken
  BY <1>1, <1>2, RestoredVisible DEF ReconnectView, Anchors, RunKept, Leaves
<1>3. CASE ~tab.broken
  BY <1>1, <1>3 DEF ReconnectView, Anchors, RunKept, Leaves
<1> QED
  BY <1>2, <1>3

\* A receipt that the view takes is of a message of its own conversation.
LEMMA ReceiptAnchors == ASSUME IInv, Told, NEW i \in DOMAIN calls, Receipt(i) PROVE Anchors
<1>1. ReceiptView(i)
  BY ReceiptFields
<1>2. CASE Applied(tab, tab', calls[i].key) /\ Holds(i)
  <2>1. log[tab.active] # <<>>
    BY <1>1, <1>2 DEF ReceiptView, Holds, Told
  <2> QED
    BY <1>1, <1>2, <2>1 DEF ReceiptView, Applied, Where, Anchors, RunKept, Leaves
<1>3. CASE Seen(tab, tab') /\ tab'.machine = tab.machine
  BY <1>1, <1>3 DEF ReceiptView, Seen, Where, Anchors, RunKept, Leaves
<1> QED
  BY <1>1, <1>2, <1>3 DEF ReceiptView

\* What the failure of a create-message call (beginRun catch) does to the run shown and the
\* receipts waited for.
LEMMA CreateFailsAnchors == ASSUME IInv, NEW i \in DOMAIN calls, CreateFails(i) PROVE Anchors
<1>1. CreateFailsView /\ tab.active \in Convs
  BY CreateFailsFields, CallFacts
<1>2. FAIL("failed").run = NoKey
  BY FixedRuns, Values
<1> QED
  BY <1>1, <1>2 DEF CreateFailsView, Alike, Who, Where, Anchors, RunKept, Leaves

\* A steer that the view waits for is of a message of its own conversation.
LEMMA SteerAnsweredAnchors ==
    ASSUME IInv, Told, NEW i \in DOMAIN calls, SteerReceipt(i) \/ SteerFails(i)
    PROVE  Anchors
<1>1. SteerAnsweredView(i) /\ tab.active \in Convs
  BY SteerReceiptFields, SteerFailsFields, CallFacts
<1>2. calls[i].status = "accepted" /\ calls[i].key \in tab.steers => log[tab.active] # <<>>
  BY DEF Told, IInv, CallsTrue
<1>3. tab'.active = tab.active /\ tab'.steers \subseteq tab.steers
  BY <1>1 DEF SteerAnsweredView, SteerLeft, Who
<1> QED
  BY <1>1, <1>2, <1>3 DEF SteerAnsweredView, Anchors, RunKept, Leaves

\* What a hydration that finds no conversation (hydrate) does to the run shown and the receipts
\* waited for.
LEMMA HydrateAbsentAnchors == ASSUME IInv, Told, HydrateAbsent PROVE Anchors
<1>1. HydrateAbsentView
  BY HydrateAbsentFields
<1>2. tab.deferred => log[tab.active] # <<>>
  <2>1. tab.deferred => HasPending(tab) /\ tab.pending.key \in past.received
    BY DEF IInv, Held
  <2> QED
    BY <2>1, PendingFacts DEF Told
<1> QED
  BY <1>1, <1>2 DEF HydrateAbsentView, Where, Anchors, RunKept, Leaves

\* What a recovery that finds no conversation (hydrate after an expired cursor) does to the run
\* shown and the receipts waited for.
LEMMA RecoverAbsentAnchors == ASSUME IInv, RecoverAbsent PROVE Anchors
<1>1. RecoverAbsentView
  BY RecoverAbsentFields
<1>2. CASE OpenedView(tab')
  BY <1>2, OpenedAnchors
<1>3. CASE Who(tab, tab') /\ Where(tab, tab') /\ tab'.machine = tab.machine
  BY <1>1, <1>3 DEF RecoverAbsentView, Who, Where, Anchors, RunKept, Leaves
<1> QED
  BY <1>1, <1>2, <1>3 DEF RecoverAbsentView

\* A snapshot that was found is of a ledger that is not empty.
LEMMA FoundLog == ASSUME IInv, tab.active \in Convs, tab.read.at > Absent PROVE log[tab.active] # <<>>
<1>1. tab.read.at \in Int /\ tab.read.at <= Len(log[tab.active])
  BY EngineType DEF IInv, TypeOK, Behind, ReadType, Travelling
<1>2. log[tab.active] = <<>> => Len(log[tab.active]) = 0
  OBVIOUS
<1> QED
  BY <1>1, <1>2 DEF Absent

\* What a hydration or a recovery that finds the conversation (hydrate) does to the run shown and
\* the receipts waited for.
LEMMA HydrateOwnerAnchors == ASSUME IInv, HydrateOwner PROVE Anchors
<1>1. HydrateOwnerView
  BY HydrateOwnerFields
<1>2. log[tab.active] # <<>>
  BY <1>1, FoundLog DEF HydrateOwnerView
<1> QED
  BY <1>1, <1>2 DEF HydrateOwnerView, Anchors, RunKept, Leaves

\* What a hydration that fails (hydrate catch) does to the run shown and the receipts waited for.
LEMMA HydrateFailsAnchors == ASSUME IInv, HydrateFails PROVE Anchors
  BY HydrateFailsFields, AlikeAnchors DEF HydrateFailsView

\* What the read after a run's end (syncWorkspaceFiles) does to the run shown and the receipts
\* waited for.
LEMMA SyncOwnerAnchors == ASSUME IInv, SyncOwner PROVE Anchors
<1> DEFINE a == Answered(tab)
<1>1. SyncOwnerView /\ tab \in Engine
  BY SyncOwnerFields DEF IInv, TypeOK
<1>2. Alike(tab, a)
  BY <1>1, AnsweredFields
<1> HIDE DEF a
<1>3. \E e \in Engine : Rests(a, e) /\ (tab' = e \/ Rests(e, tab') \/ Adopted(e, tab', View))
  BY <1>1 DEF SyncOwnerView, a
<1>4. tab'.active = tab.active /\ tab'.steers = tab.steers
  BY <1>2, <1>3 DEF Rests, Adopted, Alike, Who, Where
<1>5. log[tab.active] # <<>>
  BY <1>1, FoundLog DEF SyncOwnerView
<1> QED
  BY <1>1, <1>4, <1>5 DEF SyncOwnerView, Anchors, RunKept, Leaves

\* What the read after a run's end that finds no conversation (syncWorkspaceFiles) does to the run
\* shown and the receipts waited for.
LEMMA SyncAbsentAnchors == ASSUME IInv, SyncAbsent PROVE Anchors
  BY SyncAbsentFields DEF SyncAbsentView, Who, Where, Anchors, RunKept, Leaves

\* What the read after a stop (cancelRun) does to the run shown and the receipts waited for.
LEMMA StopOwnerAnchors == ASSUME IInv, StopOwner PROVE Anchors
<1> DEFINE a == Answered(tab)
<1>1. StopOwnerView /\ tab \in Engine
  BY StopOwnerFields DEF IInv, TypeOK
<1>2. Alike(tab, a)
  BY <1>1, AnsweredFields
<1> HIDE DEF a
<1>3. tab' = a \/ \E e \in Engine : Alike(a, e) /\ Adopted(e, tab', View)
  BY <1>1 DEF StopOwnerView, a
<1>4. tab'.active = tab.active /\ tab'.steers = tab.steers
  BY <1>2, <1>3 DEF Adopted, Alike, Who, Where
<1>5. log[tab.active] # <<>>
  BY <1>1, FoundLog DEF StopOwnerView
<1> QED
  BY <1>1, <1>4, <1>5 DEF StopOwnerView, Anchors, RunKept, Leaves

\* What a read after a run's end or a stop that fails does to the run shown and the receipts waited
\* for.
LEMMA ReadFailsAnchors == ASSUME IInv, ReadFails PROVE Anchors
<1>1. ReadFailsView /\ tab \in Engine
  BY ReadFailsFields DEF IInv, TypeOK
<1>2. Alike(tab, Answered(tab)) /\ Answered(tab).machine = tab.machine
  BY <1>1, AnsweredFields
<1> QED
  BY <1>1, <1>2 DEF ReadFailsView, Alike, Who, Where, Anchors, RunKept, Leaves

\* What a stream that connects, breaks or ends for good does to the run shown.
LEMMA StreamLinkAnchors == ASSUME IInv, StreamConnects \/ StreamDrops \/ StreamFails PROVE Anchors
<1>1. LinkView("live", "connected") \/ LinkView("connecting", "reconnecting") \/ LinkView("closed", "unavailable")
  BY StreamConnectsFields, StreamDropsFields, StreamFailsFields
<1> QED
  BY <1>1 DEF LinkView, Who, Where, Anchors, RunKept, Leaves

\* What the time-out of a reattached run (reattachTimer) does to the run shown and the receipts
\* waited for.
LEMMA ReattachTimesOutAnchors == ASSUME IInv, ReattachTimesOut PROVE Anchors
<1>1. TimeoutView
  BY ReattachTimesOutFields
<1>2. CASE Alike(tab, tab') /\ tab'.machine = tab.machine
  BY <1>1, <1>2 DEF TimeoutView, Alike, Who, Where, Anchors, RunKept, Leaves
<1>3. ASSUME NEW e \in Engine, GivesUpRead(tab, e), Who(e, tab'), Where(e, tab'), tab'.machine = e.machine
      PROVE  Anchors
  <2>1. tab'.machine.run \in {tab.machine.run, NoKey}
    BY <1>3, FixedRuns, Values DEF GivesUpRead
  <2> QED
    BY <1>1, <1>3, <2>1 DEF TimeoutView, GivesUpRead, Who, Where, Anchors, RunKept, Leaves
<1> QED
  BY <1>1, <1>2, <1>3 DEF TimeoutView

\* What an expired cursor (onStreamError, event_cursor_expired) does to the run shown and the
\* receipts waited for.
LEMMA StreamExpiresAnchors == ASSUME IInv, StreamExpires PROVE Anchors
  BY StreamExpiresFields DEF ExpiresView, Who, Anchors, RunKept, Leaves

\* What a batch of events (handleStreamEvents) does to the run shown and the receipts waited for.
LEMMA StreamEventsAnchors == ASSUME IInv, StreamEvents PROVE Anchors
<1>1. EventsView /\ tab \in Engine
  BY StreamEventsFields DEF IInv, TypeOK
<1>2. PICK n \in (tab.position + 1) .. Len(log[tab.active]), f \in Engine :
        Who(tab, f) /\ f.steers = tab.steers /\ (tab' = f \/ Asks(f, tab'))
  BY <1>1 DEF EventsView, Heeds
<1>3. tab'.active = tab.active /\ tab'.steers = tab.steers
  BY <1>2 DEF Asks, Who, Where
<1>4. log[tab.active] # <<>>
  <2>1. tab.position \in Nat
    BY <1>1, EngineType
  <2>2. Len(log[tab.active]) \in Nat
    BY <1>1, LogLength DEF EventsView
  <2>3. log[tab.active] = <<>> => Len(log[tab.active]) = 0
    OBVIOUS
  <2> QED
    BY <1>2, <2>1, <2>2, <2>3
<1> QED
  BY <1>1, <1>3, <1>4 DEF EventsView, Anchors, RunKept, Leaves

\* A step of the tab makes no call accepted.
FewerAccepted ==
    \A i \in DOMAIN calls' :
        calls'[i].status = "accepted" =>
            i \in DOMAIN calls /\ calls[i].status = "accepted" /\ calls'[i].conv = calls[i].conv

\* A step that leaves calls as they are, or ends them, makes none accepted.
LEMMA LikeFewer ==
    ASSUME CallsLike, \A i \in DOMAIN calls : calls'[i].status \in {calls[i].status, "done"}
    PROVE  FewerAccepted
  BY DEF CallsLike, FewerAccepted

\* A step that changes no call makes none accepted.
LEMMA SameFewer == ASSUME calls' = calls PROVE FewerAccepted
  BY DEF FewerAccepted

\* A new call is not accepted yet.
LEMMA NewCallFewer ==
    ASSUME IInv, NEW k \in Keys, NEW c \in Convs, NEW kind \in {"create", "steer"}, calls' = NewCall(k, c, kind)
    PROVE  FewerAccepted
<1> DEFINE r == [key |-> k, conv |-> c, kind |-> kind, status |-> "sent", owner |-> "engine", doomed |-> FALSE]
<1>1. /\ DOMAIN calls' = DOMAIN calls \cup {Len(calls) + 1}
      /\ \A i \in DOMAIN calls : calls'[i] = calls[i]
      /\ calls'[Len(calls) + 1] = r
  <2>1. calls \in Seq(Call)
    BY DEF IInv, TypeOK
  <2> QED
    BY <2>1, NewCallType
<1>2. r.status = "sent"
  OBVIOUS
<1> HIDE DEF r
<1>3. calls'[Len(calls) + 1].status = "sent"
  BY <1>1, <1>2
<1> QED
  BY <1>1, <1>3 DEF FewerAccepted

\* A call that is over, or deserted by its conversation, is not accepted by that.
LEMMA OverStatus ==
    ASSUME NEW call \in Call
    PROVE  Over(call).status = "done" /\ Deserted(call).status \in {call.status, "done"}
  BY DEF Over, Deserted, Call

\* The answer of a call makes no call accepted.
LEMMA SettledFewer ==
    ASSUME IInv, NEW i \in DOMAIN calls, calls' = Settled(i) \/ calls' = [calls EXCEPT ![i] = Deserted(@)]
    PROVE  FewerAccepted
<1>1. CallsLike /\ calls[i] \in Call
  BY SettledLike, CallFacts
<1>2. calls'[i].status \in {calls[i].status, "done"}
  BY <1>1, OverStatus DEF Settled
<1>3. \A j \in DOMAIN calls : j # i => calls'[j] = calls[j]
  BY DEF Settled
<1> QED
  BY <1>1, <1>2, <1>3, LikeFewer

\* A receipt that is used up makes no call accepted.
LEMMA ConsumedFewer == ASSUME IInv, NEW i \in DOMAIN calls, calls' = Consumed(i) PROVE FewerAccepted
<1>1. ASSUME NEW j \in DOMAIN calls PROVE calls'[j].status \in {calls[j].status, "done"}
  <2>1. calls[j] \in Call /\ calls[i] \in Call
    BY CallFacts
  <2>2. calls'[j] \in {Over(calls[i]), calls[j], [calls[j] EXCEPT !.doomed = FALSE]}
    BY DEF Consumed
  <2>3. [calls[j] EXCEPT !.doomed = FALSE].status = calls[j].status
    BY <2>1 DEF Call
  <2> QED
    BY <2>1, <2>2, <2>3, OverStatus
<1> QED
  BY <1>1, ConsumedLike, LikeFewer

\* Giving an intent up makes no call accepted (abandonPendingSubmission).
LEMMA AbandonFewer == ASSUME IInv, AbandonRecords(tab) PROVE FewerAccepted
<1>1. ASSUME NEW j \in DOMAIN calls PROVE calls'[j].status \in {calls[j].status, "done"}
  <2>1. calls[j] \in Call
    BY CallFacts
  <2>2. calls'[j] \in {calls[j], [calls[j] EXCEPT !.doomed = TRUE]}
    BY DEF AbandonRecords
  <2>3. [calls[j] EXCEPT !.doomed = TRUE].status = calls[j].status
    BY <2>1 DEF Call
  <2> QED
    BY <2>2, <2>3
<1> QED
  BY <1>1, AbandonLike, LikeFewer

\* A new engine over the same storage makes no call accepted.
LEMMA RestartFewer == ASSUME IInv, NEW owner, Restart(owner) PROVE FewerAccepted
<1>1. ASSUME NEW j \in DOMAIN calls PROVE calls'[j].status \in {calls[j].status, "done"}
  <2>1. calls[j] \in Call
    BY CallFacts
  <2>2. calls'[j] \in {calls[j], Deserted(calls[j]), [calls[j] EXCEPT !.owner = "disposed"]}
    BY DEF Restart
  <2>3. [calls[j] EXCEPT !.owner = "disposed"].status = calls[j].status
    BY <2>1 DEF Call
  <2> QED
    BY <2>1, <2>2, <2>3, OverStatus
<1> QED
  BY <1>1, RestartLike, LikeFewer

\* A step that leaves the service alone keeps Told, where each new receipt is of a ledger that is
\* not empty.
LEMMA ToldKept ==
    ASSUME Told, UNCHANGED serverVars, FewerAccepted,
           \A k \in past'.received : k \in past.received \/ log[past.home[k]] # <<>>,
           \A k \in past'.received : past'.home[k] = past.home[k],
           \A k \in tab'.steers : past'.home[k] = tab'.active
    PROVE  Told'
<1>1. gone' = {} /\ log' = log
  BY DEF Told, serverVars
<1>2. \A i \in DOMAIN calls' : calls'[i].status = "accepted" => log'[calls'[i].conv] # <<>>
  BY <1>1 DEF Told, FewerAccepted
<1>3. \A k \in past'.received : log'[past'.home[k]] # <<>>
  BY <1>1 DEF Told
<1> QED
  BY <1>1, <1>2, <1>3 DEF Told

\* A step in which no key is drawn and no receipt comes.
LEMMA ToldSame ==
    ASSUME Told, UNCHANGED serverVars, FewerAccepted, past'.received = past.received, past'.home = past.home, Leaves
    PROVE  Told'
<1>1. \A k \in tab'.steers : past'.home[k] = tab'.active
  BY DEF Told, Leaves
<1> QED
  BY <1>1, ToldKept

\* Sending a message (submit) keeps the ledgers of the service in step with the receipts (Told).
LEMMA SubmitTold == ASSUME IInv, Told, NEW c \in Convs, NEW k \in Keys, Submit(c, k) PROVE Told'
<1>1. PICK saved \in BOOLEAN, posted \in BOOLEAN : SubmitStep(c, k, saved, posted)
  BY SubmitFoot
<1>2. k \notin past.received
  BY <1>1, Unused DEF SubmitStep
<1>3. past'.received = past.received /\ past'.home = [past.home EXCEPT ![k] = c]
  BY <1>1 DEF SubmitStep, IInv, TypeOK, Past
<1>4. FewerAccepted
  BY <1>1, NewCallFewer, SameFewer DEF SubmitStep
<1>5. past.home \in [Keys -> Convs \cup {NoConv}] /\ past.received \subseteq Keys
  BY DEF IInv, TypeOK, Past
<1>6. tab'.active = c /\ tab.active \in {c, NoConv} /\ tab'.steers = tab.steers
  BY SubmitFields DEF SubmitView, Where
<1>7. tab.steers \subseteq Keys /\ (tab.active = NoConv => tab.steers = {})
  <2>1. tab.steers \in KeySets
    BY EngineType DEF IInv, TypeOK
  <2>2. EmptyEngine.steers = {}
    BY DEF EmptyEngine
  <2> QED
    BY <2>1, <2>2 DEF KeySets, IInv, Blank
<1>8. \A j \in tab'.steers : past'.home[j] = tab'.active
  BY <1>3, <1>5, <1>6, <1>7 DEF Told
<1>9. UNCHANGED serverVars
  BY <1>1 DEF SubmitStep
<1> QED
  BY <1>2, <1>3, <1>4, <1>5, <1>8, <1>9, ToldKept

\* Sending a message during a run (submit, run shown) keeps the ledgers of the service in step with
\* the receipts (Told).
LEMMA SteerTold == ASSUME IInv, Told, NEW k \in Keys, Steer(k) PROVE Told'
<1>1. SteerStep(k) /\ SteerView(k)
  BY SteerFoot, SteerFields
<1>2. k \notin past.received
  BY <1>1 DEF SteerStep, IInv, PastDrawn
<1>3. past'.received = past.received /\ past'.home = [past.home EXCEPT ![k] = tab.active]
  BY <1>1 DEF SteerStep, IInv, TypeOK, Past
<1>4. FewerAccepted /\ UNCHANGED serverVars
  BY <1>1, NewCallFewer DEF SteerStep
<1>5. past.home \in [Keys -> Convs \cup {NoConv}] /\ past.received \subseteq Keys
  BY DEF IInv, TypeOK, Past
<1>6. tab'.active = tab.active /\ tab'.steers = tab.steers \cup {k} /\ tab.steers \subseteq Keys
  <2>1. tab.steers \in KeySets
    BY EngineType DEF IInv, TypeOK
  <2> QED
    BY <1>1, <2>1 DEF SteerView, KeySets
<1>7. \A j \in tab'.steers : past'.home[j] = tab'.active
  BY <1>3, <1>5, <1>6 DEF Told
<1> QED
  BY <1>2, <1>3, <1>4, <1>5, <1>7, ToldKept

\* Giving an intent up keeps the ledgers in step with the receipts (abandonPendingSubmission).
LEMMA AbandonTold ==
    ASSUME IInv, Told, AbandonRecords(tab), \E works \in BOOLEAN : AbandonWorks(tab, works),
           UNCHANGED serverVars, Leaves
    PROVE  Told'
  BY AbandonFoot, AbandonFewer, ToldSame DEF GivenUp

\* A step that changes no call and takes no receipt keeps the ledgers in step.
LEMMA QuietTold == ASSUME IInv, Told, QuietStep \/ DropStep, Leaves PROVE Told'
<1>1. past' = past /\ calls' = calls /\ UNCHANGED serverVars
  BY DEF QuietStep, DropStep
<1> QED
  BY <1>1, SameFewer, ToldSame

\* A step that only opens a view keeps the ledgers in step.
LEMMA ShowTold == ASSUME IInv, Told, ShowStep, FewerAccepted, Leaves PROVE Told'
<1>1. past' = past /\ UNCHANGED serverVars
  BY DEF ShowStep
<1> QED
  BY <1>1, ToldSame

\* The receipt of a create-message call (beginRun then) keeps the ledgers of the service in step
\* with the receipts (Told).
LEMMA ReceiptTold == ASSUME IInv, Told, NEW i \in DOMAIN calls, Receipt(i) PROVE Told'
<1>1. PICK works \in BOOLEAN : ReceiptStep(i, works)
  BY ReceiptFoot DEF Works
<1>2. past'.received = past.received \cup {calls[i].key} /\ past'.home = past.home
  BY <1>1 DEF ReceiptStep, IInv, TypeOK, Past
<1>3. log[past.home[calls[i].key]] # <<>>
  BY ReceiptFields DEF ReceiptView, Told, IInv, CallsTrue
<1>4. FewerAccepted /\ UNCHANGED serverVars
  BY <1>1, SettledFewer, ConsumedFewer DEF ReceiptStep
<1>5. \A j \in tab'.steers : past'.home[j] = tab'.active
  BY <1>2, ReceiptAnchors DEF Told, Anchors, Leaves
<1> QED
  BY <1>2, <1>3, <1>4, <1>5, ToldKept

\* The failure of a create-message call (beginRun catch) keeps the ledgers of the service in step
\* with the receipts (Told).
LEMMA CreateFailsTold == ASSUME IInv, Told, NEW i \in DOMAIN calls, CreateFails(i) PROVE Told'
<1>1. PICK works \in BOOLEAN, code \in {"failed", "unknown"} : CreateFailsStep(i, works, code)
  BY CreateFailsFoot
<1>2. past' = past /\ FewerAccepted /\ UNCHANGED serverVars
  BY <1>1, SettledFewer DEF CreateFailsStep
<1> QED
  BY <1>2, CreateFailsAnchors, ToldSame DEF Anchors

\* The end of a call made during a run (submit steer then, catch) keeps the ledgers of the service
\* in step with the receipts (Told).
LEMMA SteerAnsweredTold ==
    ASSUME IInv, Told, NEW i \in DOMAIN calls, SteerReceipt(i) \/ SteerFails(i)
    PROVE  Told'
<1>1. FewerAccepted /\ UNCHANGED serverVars
  BY SettledFewer DEF SteerReceipt, SteerFails
<1>2. past'.received \subseteq past.received \cup {calls[i].key} /\ past'.home = past.home
  BY DEF SteerReceipt, SteerFails, IInv, TypeOK, Past
<1>3. past'.received = past.received \/ log[past.home[calls[i].key]] # <<>>
  BY DEF SteerReceipt, SteerFails, Told, IInv, CallsTrue
<1>4. \A j \in tab'.steers : past'.home[j] = tab'.active
  BY <1>2, SteerAnsweredAnchors DEF Told, Anchors, Leaves
<1> QED
  BY <1>1, <1>2, <1>3, <1>4, ToldKept

\* A step of the service: the ledgers grow, and hold what was accepted.
LEMMA ServiceTold == ASSUME IInv, Told, "vanish" \notin Faults, Service PROVE Told'
<1>1. ASSUME NEW i \in DOMAIN calls, Accept(i) PROVE Told'
  <2> DEFINE c == calls[i].conv
  <2> DEFINE ev == [kind |-> "queued", run |-> calls[i].key]
  <2>1. /\ tab' = tab /\ gone' = gone /\ past' = past
        /\ log' = IF calls[i].key \in Queued(log[c]) THEN log ELSE [log EXCEPT ![c] = Append(@, ev)]
    BY <1>1 DEF Accept
  <2>2. log \in [Convs -> Seq(Event)] /\ c \in Convs /\ ev \in Event
    BY CallFacts DEF IInv, TypeOK, Event
  <2> HIDE DEF ev, c
  <2>3. log'[c] # <<>>
    <3>1. CASE calls[i].key \in Queued(log[c])
      <4>1. DOMAIN log[c] # {} /\ log' = log
        BY <2>1, <3>1 DEF Queued, Happened
      <4> QED
        BY <4>1
    <3>2. CASE calls[i].key \notin Queued(log[c])
      <4>1. log'[c] = Append(log[c], ev) /\ log[c] \in Seq(Event)
        BY <2>1, <2>2, <3>2
      <4>2. Len(log'[c]) = Len(log[c]) + 1 /\ Len(log[c]) \in Nat
        BY <2>2, <4>1
      <4>3. log'[c] = <<>> => Len(log'[c]) = 0
        OBVIOUS
      <4> QED
        BY <4>2, <4>3
    <3> QED
      BY <3>1, <3>2
  <2>4. \A d \in Convs : log[d] # <<>> => log'[d] # <<>>
    <3>1. \A d \in Convs : d # c => log'[d] = log[d]
      BY <2>1, <2>2
    <3> QED
      BY <2>3, <3>1
  <2>5. CallsLike /\ \A j \in DOMAIN calls : j # i => calls'[j] = calls[j]
    BY <1>1, ServedLike DEF Accept
  <2>6. \A j \in DOMAIN calls' : calls'[j].status = "accepted" => log'[calls'[j].conv] # <<>>
    BY <2>3, <2>4, <2>5, CallFacts DEF Told, CallsLike, c
  <2>7. \A k \in past'.received : log'[past'.home[k]] # <<>>
    BY <2>1, <2>4, HomeConv DEF Told
  <2> QED
    BY <2>1, <2>6, <2>7 DEF Told
<1>2. ASSUME NEW i \in DOMAIN calls, Refuse(i) PROVE Told'
  <2>1. CallsLike /\ \A j \in DOMAIN calls : j # i => calls'[j] = calls[j]
    BY <1>2, ServedLike DEF Refuse
  <2>2. calls'[i].status # "accepted"
    BY <1>2, CallFacts DEF Refuse, Call
  <2>3. FewerAccepted
    BY <2>1, <2>2 DEF CallsLike, FewerAccepted
  <2> QED
    BY <1>2, <2>3, ToldSame DEF Refuse, Leaves
<1>3. ASSUME Grows, UNCHANGED <<calls, gone>> PROVE Told'
  <2>1. \A d \in Convs : log[d] # <<>> => log'[d] # <<>>
    <3>1. ASSUME NEW d \in Convs, log[d] # <<>> PROVE log'[d] # <<>>
      <4>1. log[d] \in Seq(Event) /\ Len(log[d]) \in Nat /\ Len(log[d]) # 0
        BY <3>1, LogLength
      <4>2. Len(log'[d]) # 0
        BY <1>3, <4>1 DEF Grows
      <4> QED
        BY <4>2
    <3> QED
      BY <3>1
  <2>2. \A j \in DOMAIN calls' : calls'[j].status = "accepted" => log'[calls'[j].conv] # <<>>
    BY <1>3, <2>1, CallFacts DEF Told
  <2>3. \A k \in past'.received : log'[past'.home[k]] # <<>>
    BY <1>3, <2>1, HomeConv DEF Told, Grows
  <2> QED
    BY <1>3, <2>2, <2>3 DEF Told, Grows
<1>4. ASSUME NEW c \in Convs, Start(c) PROVE Told'
  BY <1>3, <1>4, StartGrows DEF Start
<1>5. ASSUME NEW c \in Convs, NEW k \in Keys, Complete(c, k) PROVE Told'
  BY <1>3, <1>5, CompleteGrows DEF Complete
<1>6. ASSUME NEW c \in Convs, Vanish(c) PROVE Told'
  BY <1>6 DEF Vanish
<1>7. CASE ReadExecutes
  <2>1. Leaves
    BY <1>7, ReadExecutesFields DEF ReadExecutesView, Alike, Who, Where, Leaves
  <2> QED
    BY <1>7, <2>1, ReadExecutesQuiet, QuietTold
<1> QED
  BY <1>1, <1>2, <1>4, <1>5, <1>6, <1>7 DEF Service

\* A run that is shown is one of a ledger that is not empty.
RunLogged == tab.machine.run # NoKey => log[tab.active] # <<>>

\* A step that leaves the service alone shows no run of an empty ledger.
LEMMA AnchoredLogged == ASSUME RunLogged, RunKept, UNCHANGED serverVars PROVE RunLogged'
  BY DEF RunLogged, RunKept, serverVars

\* A command of the user keeps the ledgers of the service in step with the receipts (Told).
LEMMA UserTold == ASSUME IInv, Sound(tab), Told, RunLogged, User PROVE Told' /\ RunLogged'
<1>1. ASSUME NEW c \in Convs, NEW k \in Keys, Submit(c, k) PROVE Told' /\ RunLogged'
  <2>1. SubmitView(c, k)
    BY <1>1, SubmitFields
  <2>2. tab'.machine.run = NoKey
    BY <2>1, RestingRun DEF SubmitView, Sound, Visible
  <2> QED
    BY <1>1, <2>2, SubmitTold DEF RunLogged
<1>2. ASSUME NEW k \in Keys, Steer(k) PROVE Told' /\ RunLogged'
  <2>1. SteerView(k)
    BY <1>2, SteerFields
  <2>2. RunKept /\ UNCHANGED serverVars
    BY <1>2, <2>1 DEF SteerView, Steer, RunKept
  <2> QED
    BY <1>2, <2>2, SteerTold, AnchoredLogged
<1>3. CASE RetryKnown
  <2>1. Anchors /\ RetryKnownStep
    BY <1>3, RetryAnchors, RetryKnownFoot
  <2> QED
    BY <2>1, SameFewer, ToldSame, AnchoredLogged DEF RetryKnownStep, Anchors
<1>4. CASE Retry
  <2>1. Anchors /\ RetryStep /\ past' = past
    BY <1>4, RetryAnchors, RetryFoot, RetrySame
  <2>2. FewerAccepted
    BY <2>1, PendingFacts, NewCallFewer DEF RetryStep
  <2> QED
    BY <2>1, <2>2, ToldSame, AnchoredLogged DEF RetryStep, Anchors
<1>5. CASE StopSubmission
  <2>1. Anchors /\ StopSubmissionStep
    BY <1>5, StopAnchors, StopSubmissionFoot
  <2> QED
    BY <2>1, AbandonTold, AnchoredLogged DEF StopSubmissionStep, Anchors
<1>6. CASE StopRun
  <2>1. Anchors /\ QuietStep
    BY <1>6, StopAnchors, StopRunQuiet
  <2> QED
    BY <2>1, QuietTold, AnchoredLogged DEF QuietStep, Anchors
<1>7. ASSUME NEW c \in Convs, New(c) PROVE Told' /\ RunLogged'
  <2>1. Anchors /\ NewStep
    BY <1>7, NewAnchors, NewFoot
  <2> QED
    BY <2>1, AbandonTold, AnchoredLogged DEF NewStep, Anchors
<1>8. CASE Reconnect
  <2>1. Anchors /\ (QuietStep \/ (ShowStep /\ calls' = calls))
    BY <1>8, ReconnectAnchors, ReconnectStep
  <2> QED
    BY <2>1, QuietTold, ShowTold, SameFewer, AnchoredLogged DEF QuietStep, ShowStep, Anchors
<1>9. ASSUME NEW owner, Restart(owner) PROVE Told' /\ RunLogged'
  <2>1. Anchors /\ ShowStep /\ FewerAccepted
    BY <1>9, RestartFields, OpenedAnchors, RestartShow, RestartFewer
  <2> QED
    BY <2>1, ShowTold, AnchoredLogged DEF ShowStep, Anchors
<1>10. ASSUME NEW c \in Convs, Select(c) PROVE Told' /\ RunLogged'
  <2>1. Anchors /\ ShowStep /\ calls' = calls
    BY <1>10, SelectFields, OpenedAnchors, SelectShow
  <2> QED
    BY <2>1, ShowTold, SameFewer, AnchoredLogged DEF ShowStep, Anchors
<1> QED
  BY <1>1, <1>2, <1>3, <1>4, <1>5, <1>6, <1>7, <1>8, <1>9, <1>10 DEF User, Reload, Remount

\* The answer of a call or a read keeps the ledgers of the service in step with the receipts
\* (Told).
LEMMA AnswersTold == ASSUME IInv, Sound(tab), Told, RunLogged, Answers PROVE Told' /\ RunLogged'
<1>1. ASSUME NEW i \in DOMAIN calls, Receipt(i) PROVE Told' /\ RunLogged'
  BY <1>1, ReceiptTold, ReceiptAnchors, AnchoredLogged DEF Receipt, Anchors
<1>2. ASSUME NEW i \in DOMAIN calls, CreateFails(i) PROVE Told' /\ RunLogged'
  BY <1>2, CreateFailsTold, CreateFailsAnchors, AnchoredLogged DEF CreateFails, Anchors
<1>3. ASSUME NEW i \in DOMAIN calls, SteerReceipt(i) \/ SteerFails(i) PROVE Told' /\ RunLogged'
  BY <1>3, SteerAnsweredTold, SteerAnsweredAnchors, AnchoredLogged DEF SteerReceipt, SteerFails, Anchors
<1>4. ASSUME QuietStep \/ DropStep, Anchors PROVE Told' /\ RunLogged'
  BY <1>4, QuietTold, AnchoredLogged DEF QuietStep, DropStep, Anchors
<1>5. CASE StopAnswered
  BY <1>4, <1>5, StopAnsweredQuiet, StopAnsweredAnchors
<1>6. CASE HydrateAbsent
  BY <1>4, <1>6, HydrateAbsentStep, HydrateAbsentAnchors
<1>7. CASE RecoverAbsent
  <2>1. Anchors
    BY <1>7, RecoverAbsentAnchors
  <2>2. CASE RecoverAbsentStep
    BY <2>1, <2>2, AbandonTold, AnchoredLogged DEF RecoverAbsentStep, Anchors
  <2> QED
    BY <1>4, <1>7, <2>1, <2>2, RecoverAbsentFoot
<1>8. CASE HydrateOwner
  BY <1>4, <1>8, HydrateOwnerStep, HydrateOwnerAnchors
<1>9. CASE HydrateFails
  BY <1>4, <1>9, HydrateFailsQuiet, HydrateFailsAnchors
<1>10. CASE HydrateForbidden
  <2>1. Anchors /\ ShowStep /\ calls' = calls
    BY <1>10, HydrateForbiddenFields, OpenedAnchors, HydrateForbiddenShow
  <2> QED
    BY <2>1, ShowTold, SameFewer, AnchoredLogged DEF ShowStep, Anchors
<1>11. CASE SyncOwner \/ SyncAbsent
  BY <1>4, <1>11, SyncOwnerQuiet, SyncOwnerAnchors, SyncAbsentQuiet, SyncAbsentAnchors
<1>12. CASE StopOwner \/ ReadFails
  BY <1>4, <1>12, StopOwnerQuiet, StopOwnerAnchors, ReadFailsQuiet, ReadFailsAnchors
<1> QED
  BY <1>1, <1>2, <1>3, <1>5, <1>6, <1>7, <1>8, <1>9, <1>10, <1>11, <1>12 DEF Answers

\* A callback of the stream keeps the ledgers of the service in step with the receipts (Told).
LEMMA StreamTold == ASSUME IInv, Told, RunLogged, Stream PROVE Told' /\ RunLogged'
<1>1. QuietStep
  BY StreamIsQuiet
<1>2. Anchors
  BY StreamLinkAnchors, ReattachTimesOutAnchors, StreamExpiresAnchors, StreamEventsAnchors DEF Stream
<1> QED
  BY <1>1, <1>2, QuietTold, AnchoredLogged DEF QuietStep, Anchors

\* The ledgers of the service grow, and its reads change no view's run.
LEMMA ServiceLogged == ASSUME IInv, RunLogged, "vanish" \notin Faults, Service PROVE RunLogged'
<1>1. ASSUME Grows PROVE RunLogged'
  <2>1. CASE tab.machine.run = NoKey
    BY <1>1, <2>1 DEF Grows, RunLogged
  <2>2. CASE tab.machine.run # NoKey
    <3>1. tab.active \in Convs
      BY <2>2, Awake
    <3>2. Len(log[tab.active]) \in Nat /\ Len(log[tab.active]) # 0
      BY <2>2, <3>1, LogLength DEF RunLogged
    <3>3. Len(log'[tab.active]) # 0
      BY <1>1, <3>1, <3>2 DEF Grows
    <3> QED
      BY <1>1, <3>3 DEF Grows, RunLogged
  <2> QED
    BY <2>1, <2>2
<1>2. CASE ReadExecutes
  BY <1>2, ReadExecutesFields, AnchoredLogged DEF ReadExecutes, ReadExecutesView, Alike, Who, RunKept
<1> QED
  BY <1>1, <1>2, AcceptGrows, RefuseGrows, StartGrows, CompleteGrows, VanishGrows DEF Service

\* Every step keeps the ledgers in step with the receipts, and the run shown in one of them.
LEMMA ToldNext ==
    ASSUME IInv, Sound(tab), Told, RunLogged, "vanish" \notin Faults, [Next]_vars
    PROVE  Told' /\ RunLogged'
<1>1. CASE UNCHANGED vars
  BY <1>1 DEF vars, serverVars, Told, RunLogged
<1> QED
  BY <1>1, UserTold, AnswersTold, StreamTold, ServiceTold, ServiceLogged DEF Next

\* The first engine shows no run, and nothing was accepted.
LEMMA GuidedInit == ASSUME Init PROVE Guided(tab) /\ Told /\ RunLogged
<1>1. /\ tab.machine = IdleMachine /\ tab.steers = {} /\ gone = {} /\ calls = <<>> /\ past.received = {}
  BY DEF Init, EmptyEngine
<1> QED
  BY <1>1, SoundInit, IdleGuided, FixedRuns DEF Guided, Told, RunLogged

\* No conversation is deleted while its tab is open.
NoneVanish == "vanish" \notin Faults

\* RunIsFollowed: where no conversation is deleted elsewhere, a run that the tab shows is followed, or
\* the tab says that it lost the connection.
THEOREM RunFollowed == ASSUME NoneVanish PROVE Spec => []RunIsFollowed
<1> DEFINE I == IInv /\ Guided(tab) /\ Told /\ RunLogged
<1>1. Init => I
  BY InvInit, GuidedInit
<1>2. I /\ [Next]_vars => I'
  <2>1. ASSUME I, [Next]_vars PROVE I'
    <3>1. Sound(tab) /\ Grounded
      BY <2>1 DEF Guided, Told, RunLogged, Grounded
    <3> QED
      BY <2>1, <3>1, InvNext, GuidedNext, ToldNext DEF NoneVanish
  <2> QED
    BY <2>1
<1>3. I => RunIsFollowed
  BY DEF Guided, Followed, RunIsFollowed
<1> HIDE DEF I
<1> QED
  BY <1>1, <1>2, <1>3, PTL DEF Spec

=============================================================================
