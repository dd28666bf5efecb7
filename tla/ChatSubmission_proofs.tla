------------------------ MODULE ChatSubmission_proofs ------------------------
(* What the records of sessionStorage, the calls and the history promise, for every value of the    *)
(* constants and every set of faults.  IInv is the inductive invariant: it says of each intent where *)
(* it is.  Noted and Stopped are inductive relative to it, under a hypothesis on Faults each.        *)
EXTENDS ChatSubmission, RecursionLemmas, SequenceTheorems

(* The invariant *)

\* Before there is a conversation, there is nothing.
Blank == tab.active = NoConv => tab = EmptyEngine /\ calls = <<>>

\* What was read of the ledger is there.
Behind ==
    tab.active \in Convs =>
        /\ tab.position <= Len(log[tab.active])
        /\ tab.read.at <= Len(log[tab.active])

\* What a record says of its key happened to it, and is said in the conversation of the key only.
SlotTrue ==
    \A c \in Convs :
        /\ slot[c].state = "none" <=> slot[c].key = NoKey
        /\ slot[c].key # NoKey => past.home[slot[c].key] = c
        /\ slot[c].state = "pending" => slot[c].key \in past.saved \ past.gaveUp
        /\ slot[c].state = "acknowledged" => slot[c].key \in past.received
        /\ slot[c].state = "abandoned" => slot[c].key \in past.gaveUp

\* A call carries its key to the conversation it was drawn for, and is a create-message call of a
\* submission, or a steer, as the key was saved or not.
CallsTrue ==
    \A i \in DOMAIN calls :
        /\ past.home[calls[i].key] = calls[i].conv
        /\ calls[i].kind = "create" <=> calls[i].key \in past.saved

\* Only keys that were drawn have a history.
PastDrawn ==
    \A k \in Keys : past.home[k] = NoConv => k \notin past.saved \cup past.received \cup past.gaveUp

\* The intent an engine holds is the one of the record of its conversation.
PendingHeld(e) ==
    HasPending(e) =>
        /\ e.active \in Convs
        /\ slot[e.active].key = e.pending.key
        /\ slot[e.active].state \in {"pending", "acknowledged"}
        /\ e.pending.key \in past.saved \ past.gaveUp

\* A key that is prepared was never sent.
PreparedHeld(e) ==
    e.prepared # NoKey =>
        /\ e.active \in Convs
        /\ past.home[e.prepared] = e.active
        /\ e.prepared \notin past.received \cup past.gaveUp
        /\ \A i \in DOMAIN calls : calls[i].key # e.prepared

Held(e) ==
    /\ PendingHeld(e) /\ PreparedHeld(e)
    /\ e.unsaved \subseteq past.received
    /\ e.deferred => HasPending(e) /\ e.pending.key \in past.received
    /\ e.broken => ~HasPending(e) /\ e.prepared = NoKey

\* Conversations the engine lists were drawn, the one it shows among them.
Listed(e) == e.list \subseteq e.drawn /\ (e.active \in Convs => e.active \in e.drawn)

IInv ==
    /\ TypeOK /\ Blank /\ Behind /\ Listed(tab)
    /\ SlotTrue /\ CallsTrue /\ PastDrawn /\ Held(tab)
    /\ IntentKept

\* A receipt that its record does not know of is kept in memory, which takes a storage that fails; the
\* callbacks of an engine that was disposed of take a second mount.
Noted ==
    /\ \A c \in Convs : OpenIntent(c) \in past.received => OpenIntent(c) \in tab.unsaved
    /\ "disk" \notin Faults => tab.unsaved = {}
    /\ \A i \in DOMAIN calls : calls[i].owner = "disposed" => "remount" \in Faults

\* What the page keeps in memory is not lost: the storage works, or the page and its engine stay.
MemoryKept == "disk" \notin Faults \/ {"reload", "remount"} \cap Faults = {}

\* An intent that was given up has its receipt answered by a cancel command: one was sent, or every
\* call that may still bring the receipt is marked.
Stopped ==
    /\ \A k \in past.gaveUp :
          \/ k \in past.cancels
          \/ /\ k \notin past.received
             /\ \A i \in DOMAIN calls : calls[i].key = k /\ calls[i].owner = "engine" => calls[i].doomed
    /\ \A i \in DOMAIN calls :
          /\ calls[i].doomed => calls[i].key \in past.gaveUp
          /\ calls[i].key \in past.gaveUp => calls[i].kind = "create"
          /\ calls[i].owner # "disposed"
    /\ HasPending(tab) /\ tab.pending.key \in past.received => tab.deferred

\* One engine lives in the page, over a storage that works.
OneEngine == {"disk", "remount"} \cap Faults = {}
-----------------------------------------------------------------------------
(* Types of the engine's fields *)

ReadType == [kind : {"none", "hydrate", "recover", "sync", "stop"}, at : Nat \cup {Travelling},
             run : Keys \cup {NoKey}, ended : SUBSET Keys, cursor : Nat]
PendingType == [key : Keys \cup {NoKey}, id : 0 .. MaxCalls]
StopType == [run : Keys \cup {NoKey}, asked : BOOLEAN, cursor : Nat]
SomeConv == Convs \cup {NoConv}
SomeKey == Keys \cup {NoKey}
ConvSets == SUBSET Convs
KeySets == SUBSET Keys
Connections == {"connected", "reconnecting", "unavailable"}
Streams == {"closed", "connecting", "live"}

\* The engine's type by those names.
LEMMA EngineType ==
    Engine = [active : SomeConv, list : ConvSets, drafts : ConvSets, drawn : ConvSets,
              machine : Machine, pending : PendingType, prepared : SomeKey, deferred : BOOLEAN,
              retryError : Errors, unsaved : KeySets, broken : BOOLEAN, hydrating : BOOLEAN,
              recovering : BOOLEAN, connection : Connections, stream : Streams, position : Nat,
              ended : KeySets, steers : KeySets, read : ReadType, timer : SomeKey, stop : StopType]
  BY DEF Engine, ReadType, PendingType, StopType, SomeConv, SomeKey, ConvSets, KeySets, Connections,
         Streams

\* The fields of an engine.
LEMMA EngineFields == \A e \in Engine : DOMAIN e = DOMAIN EmptyEngine
  BY EngineType DEF EmptyEngine

\* Values the handlers assign.
LEMMA Values ==
    /\ NoConv \in SomeConv /\ Convs \subseteq SomeConv /\ NoKey \in SomeKey /\ Keys \subseteq SomeKey
    /\ {} \in ConvSets /\ {} \in KeySets
    /\ "none" \in Errors /\ "failed" \in Errors /\ "unknown" \in Errors /\ "local" \in Errors
    /\ "connected" \in Connections /\ "reconnecting" \in Connections /\ "unavailable" \in Connections
    /\ "closed" \in Streams /\ "connecting" \in Streams /\ "live" \in Streams
    /\ 0 \in Nat
  BY DEF SomeConv, SomeKey, ConvSets, KeySets, Errors, Connections, Streams

\* Adding or removing a conversation leaves a set of conversations (the drafts, the list).
LEMMA ConvSetType ==
    ASSUME NEW S \in ConvSets, NEW c \in Convs
    PROVE  S \cup {c} \in ConvSets /\ S \ {c} \in ConvSets /\ {c} \in ConvSets
  BY DEF ConvSets

\* Adding or removing keys leaves a set of keys (observedTerminalRuns, pendingSteerReceipts).
LEMMA KeySetType ==
    ASSUME NEW S \in KeySets, NEW T \in KeySets, NEW k \in Keys
    PROVE  S \cup {k} \in KeySets /\ S \ {k} \in KeySets /\ S \cup T \in KeySets
  BY DEF KeySets

\* No stop asked for is a value of cancelIntent.
LEMMA NoStopType == NoStop \in StopType
  BY DEF NoStop, StopType
\* No submission is a value of pendingSubmission.
LEMMA NoPendingType == NoPending \in PendingType
  BY ChatAssumption DEF NoPending, PendingType
\* No read is a value of the snapshot read.
LEMMA NoReadType == NoRead \in ReadType
  BY DEF NoRead, ReadType
\* A read that was just sent is a read.
LEMMA ReadsType ==
    ASSUME NEW kind \in {"none", "hydrate", "recover", "sync", "stop"}
    PROVE  [NoRead EXCEPT !.kind = kind, !.at = Travelling] \in ReadType
<1>1. Travelling \in Nat \cup {Travelling} /\ 0 \in Nat /\ {} \in SUBSET Keys
  OBVIOUS
<1> HIDE DEF Travelling
<1> QED
  BY <1>1 DEF NoRead, ReadType

\* The fixed states of machine-state.ts are states of the run machine.
LEMMA MachineTypes ==
    /\ IdleMachine \in Machine
    /\ \A k \in SomeKey, p \in Phases : Running(p, k) \in Machine
    /\ \A error \in Errors : FAIL(error) \in Machine
    /\ Phases = {"idle", "submitting", "queued", "streaming", "cancelling", "error"}
  BY DEF IdleMachine, Running, FAIL, Machine, Phases, Errors, SomeKey

\* The transitions of machine-state.ts lead from states of the run machine to states of it.
LEMMA MachineSteps ==
    ASSUME NEW m \in Machine, NEW k \in Keys
    PROVE  /\ SUBMIT(m) \in Machine /\ RECEIPT(m, k) \in Machine /\ CANCEL(m) \in Machine
           /\ \A state \in {"active", "queued"} : REATTACH(m, k, state) \in Machine
           /\ \A error \in Errors : [m EXCEPT !.error = error] \in Machine
  BY DEF SUBMIT, RECEIPT, CANCEL, REATTACH, Running, Machine, Phases, Errors

-----------------------------------------------------------------------------
Kept(e, f) ==
    /\ f.active = e.active /\ f.list = e.list /\ f.drafts = e.drafts /\ f.drawn = e.drawn
    /\ f.pending = e.pending /\ f.prepared = e.prepared /\ f.deferred = e.deferred
    /\ f.unsaved = e.unsaved /\ f.broken = e.broken

\* Nothing more was read of the ledger.
ReadAt(e, n, f) == f.position = n /\ f.read.at \in {e.read.at, Absent, Travelling}

Near(e, f) == ReadAt(e, e.position, f)

Quiet(e, f) == f \in Engine /\ Kept(e, f) /\ Near(e, f)

\* Two changes that leave an engine's intents alone leave them alone together.
LEMMA QuietTwice == ASSUME NEW e, NEW f, NEW g, Quiet(e, f), Quiet(f, g) PROVE Quiet(e, g)
  BY DEF Quiet, Kept, Near, ReadAt

\* Forgetting the read (its await is over) leaves the intents alone.
LEMMA NoReadSet ==
    ASSUME NEW e \in Engine
    PROVE  Quiet(e, [e EXCEPT !.read = NoRead])
<1>1. [e EXCEPT !.read = NoRead] \in Engine
  BY EngineType, NoReadType
<1>2. NoRead.at = Absent
  BY DEF NoRead, Absent
<1> QED
  BY <1>1, <1>2, EngineFields DEF Quiet, Kept, Near, ReadAt, EmptyEngine
\* Marking the thread as changed leaves the intents alone (cancelRun's thread !== readThread).
LEMMA TouchType == ASSUME NEW e \in Engine PROVE Quiet(e, Touch(e))
<1>1. Quiet(e, e)
  BY DEF Quiet, Kept, Near, ReadAt
<1> QED
  BY <1>1, NoReadSet DEF Touch
\* openStream leaves the intents alone.
LEMMA OpenType == ASSUME NEW e \in Engine PROVE Quiet(e, Open(e))
  BY EngineType, Values DEF Open, Quiet, Kept, Near, ReadAt
\* exposeUnconfirmedSubmission leaves the intents alone: it only sets the run machine.
LEMMA ExposeType == ASSUME NEW e \in Engine PROVE Quiet(e, Expose(e))
  BY EngineType, Values, MachineTypes DEF Expose, Quiet, Kept, Near, ReadAt
\* Giving a read up (fetchSnapshot's abort) leaves the intents alone.
LEMMA AbortReadType == ASSUME NEW e \in Engine PROVE Quiet(e, AbortRead(e))
  BY EngineType, Values, MachineTypes DEF AbortRead, Quiet, Kept, Near, ReadAt
\* Consuming a read leaves the intents alone.
LEMMA AnsweredType == ASSUME NEW e \in Engine PROVE Quiet(e, Answered(e))
  BY NoReadSet DEF Answered
\* hydrate, up to its await, leaves the intents alone.
LEMMA HydrateType ==
    ASSUME NEW e \in Engine, NEW kind \in {"hydrate", "recover"}
    PROVE  Quiet(e, Hydrate(e, kind))
<1>1. [NoRead EXCEPT !.kind = kind, !.at = Travelling] \in ReadType
  BY ReadsType
<1>2. Hydrate(e, kind) \in Engine
  BY <1>1, EngineType, Values, NoStopType DEF Hydrate
<1>3. [NoRead EXCEPT !.kind = kind, !.at = Travelling].at = Travelling
  BY DEF NoRead
<1> HIDE DEF Travelling
<1> QED
  BY <1>2, <1>3, EngineFields DEF Hydrate, Quiet, Kept, Near, ReadAt, EmptyEngine
\* The resets of activateConversation drop the intent of the view and keep the receipts not stored.
LEMMA ClearedType ==
    ASSUME NEW e \in Engine
    PROVE  LET f == Cleared(e) IN
           /\ f \in Engine
           /\ f.active = e.active /\ f.list = e.list /\ f.drafts = e.drafts /\ f.drawn = e.drawn
           /\ f.pending = NoPending /\ f.prepared = e.prepared /\ ~f.deferred
           /\ f.unsaved = e.unsaved /\ f.broken = e.broken
           /\ f.position = 0 /\ f.read.at = Absent
<1>1. Cleared(e) \in Engine
  BY EngineType, Values, NoStopType, NoReadType, NoPendingType, MachineTypes DEF Cleared
<1> QED
  BY <1>1, EngineFields DEF Cleared, EmptyEngine, NoRead, Absent

-----------------------------------------------------------------------------
\* A place in a ledger.
LEMMA SeqFacts ==
    ASSUME NEW S, NEW s \in Seq(S)
    PROVE  Len(s) \in Nat /\ DOMAIN s = 1..Len(s) /\ \A i \in 1..Len(s) : s[i] \in S
  OBVIOUS

\* A function on an interval from 1 is a sequence.
LEMMA FunctionIsSeq ==
    ASSUME NEW S, NEW n \in Nat, NEW f \in [1..n -> S]
    PROVE  f \in Seq(S) /\ Len(f) = n /\ DOMAIN f = 1..n
<1>1. f \in Seq(S)
  OBVIOUS
<1> QED
  BY <1>1

\* The runs of which a ledger holds an event of one kind are keys.
LEMMA HappenedType ==
    ASSUME NEW ledger \in Seq(Event), NEW kind
    PROVE  Happened(ledger, kind) \in KeySets
<1>1. DOMAIN ledger = 1..Len(ledger) /\ \A i \in 1..Len(ledger) : ledger[i].run \in Keys
  <2>1. DOMAIN ledger = 1..Len(ledger) /\ \A i \in 1..Len(ledger) : ledger[i] \in Event
    BY SeqFacts
  <2> QED
    BY <2>1 DEF Event
<1>2. ASSUME NEW k \in Happened(ledger, kind) PROVE k \in Keys
  <2>1. PICK i \in DOMAIN ledger : k = ledger[i].run
    BY <1>2 DEF Happened
  <2> QED
    BY <1>1, <2>1
<1> QED
  BY <1>2 DEF KeySets

\* What a snapshot says of its runs (queued, ended, unfinished) are keys, and the state of its head
\* is one of two.
LEMMA LedgerType ==
    ASSUME NEW ledger \in Seq(Event)
    PROVE  /\ Queued(ledger) \in KeySets /\ Terminals(ledger) \in KeySets
           /\ Unfinished(ledger) \in KeySets
           /\ HeadState(ledger) \in {"active", "queued"}
<1>1. Happened(ledger, "queued") \in KeySets /\ Happened(ledger, "completed") \in KeySets
  BY HappenedType
<1> QED
  BY <1>1 DEF Queued, Terminals, Unfinished, HeadState, KeySets

\* An unfinished run has a place in the ledger.
LEMMA PlaceType ==
    ASSUME NEW ledger \in Seq(Event), NEW k \in Unfinished(ledger)
    PROVE  Place(ledger, k) \in Nat
<1>1. PICK i \in DOMAIN ledger : ledger[i].kind = "queued" /\ ledger[i].run = k
  BY DEF Unfinished, Queued, Happened
<1>2. ledger[i] = [kind |-> "queued", run |-> k]
  <2>1. ledger[i] \in [kind : {"queued", "created", "completed"}, run : Keys]
    BY SeqFacts DEF Event
  <2> QED
    BY <1>1, <2>1
<1> QED
  BY <1>2, SeqFacts DEF Place

\* The execution head of a snapshot is an unfinished run of it, or none.
LEMMA HeadType ==
    ASSUME NEW ledger \in Seq(Event)
    PROVE  /\ ExecutionHead(ledger) \in SomeKey
           /\ ExecutionHead(ledger) # NoKey => ExecutionHead(ledger) \in Unfinished(ledger)
<1>1. CASE Unfinished(ledger) = {}
  BY <1>1 DEF ExecutionHead, SomeKey
<1>2. CASE Unfinished(ledger) # {}
  <2> DEFINE P == {Place(ledger, k) : k \in Unfinished(ledger)}
  <2>1. P \in SUBSET Nat /\ P # {}
    BY <1>2, PlaceType
  <2> HIDE DEF P
  <2>2. PICK p \in P : \A q \in P : p <= q
    BY <2>1, Least
  <2>3. \E k \in Unfinished(ledger) :
           \A other \in Unfinished(ledger) : Place(ledger, k) <= Place(ledger, other)
    BY <2>2 DEF P
  <2>4. ExecutionHead(ledger) \in Unfinished(ledger)
    BY <1>2, <2>3 DEF ExecutionHead
  <2> QED
    BY <2>4, LedgerType DEF SomeKey, KeySets
<1> QED
  BY <1>1, <1>2

\* A snapshot is a prefix of the ledger.
LEMMA PrefixType ==
    ASSUME NEW ledger \in Seq(Event), NEW n \in 0..Len(ledger)
    PROVE  /\ Prefix(ledger, n) \in Seq(Event) /\ Len(Prefix(ledger, n)) = n
           /\ \A i \in 1..n : Prefix(ledger, n)[i] = ledger[i]
<1>1. Len(ledger) \in Nat /\ \A i \in 1..n : ledger[i] \in Event
  BY SeqFacts
<1>2. 1 \in Int /\ n \in Int
  BY <1>1
<1>3. /\ SubSeq(ledger, 1, n) \in Seq(Event)
      /\ Len(SubSeq(ledger, 1, n)) = IF 1 <= n THEN n - 1 + 1 ELSE 0
      /\ \A i \in 1..(n - 1 + 1) : SubSeq(ledger, 1, n)[i] = ledger[1 + i - 1]
  BY <1>1, <1>2, SubSeqProperties
<1> QED
  BY <1>1, <1>3 DEF Prefix

\* A batch is the piece of the ledger behind the cursor.
LEMMA BatchType ==
    ASSUME NEW ledger \in Seq(Event), NEW p \in Nat, NEW n \in (p + 1)..Len(ledger)
    PROVE  /\ SubSeq(ledger, p + 1, n) \in Seq(Event) /\ Len(SubSeq(ledger, p + 1, n)) = n - p
           /\ \A i \in 1..(n - p) : SubSeq(ledger, p + 1, n)[i] = ledger[p + i]
<1>1. Len(ledger) \in Nat /\ \A i \in (p + 1)..n : ledger[i] \in Event
  BY SeqFacts
<1>2. p + 1 \in Int /\ n \in Int /\ p + 1 <= n
  BY <1>1
<1>3. /\ SubSeq(ledger, p + 1, n) \in Seq(Event)
      /\ Len(SubSeq(ledger, p + 1, n)) = IF p + 1 <= n THEN n - (p + 1) + 1 ELSE 0
      /\ \A i \in 1..(n - (p + 1) + 1) : SubSeq(ledger, p + 1, n)[i] = ledger[p + 1 + i - 1]
  BY <1>1, <1>2, SubSeqProperties
<1> QED
  BY <1>2, <1>3

Reduced == [machine : Machine, settled : SomeKey]

\* Folding one event into the run machine gives a run machine (event-reducer.ts).
LEMMA EventStep ==
    ASSUME NEW r \in Reduced, NEW ev \in Event
    PROVE  ReduceEvent(r, ev) \in Reduced
<1>1. STREAM_EVENT(r.machine, ev) \in Machine
  BY MachineTypes DEF STREAM_EVENT, Reduced, Event, SomeKey
<1>2. ev.run \in SomeKey /\ r.settled \in SomeKey
  BY DEF Event, Reduced, SomeKey
<1> QED
  BY <1>1, <1>2 DEF ReduceEvent, Reduced

\* The fold goes through its batch event by event.
LEMMA ReduceRuns ==
    ASSUME NEW m \in Machine, NEW batch \in Seq(Event)
    PROVE  \E f \in [0..Len(batch) -> Reduced] :
              /\ f[0] = [machine |-> m, settled |-> NoKey]
              /\ \A n \in 1..Len(batch) : f[n] = ReduceEvent(f[n - 1], batch[n])
              /\ Reduce(m, batch) = f[Len(batch)]
<1> DEFINE start == [machine |-> m, settled |-> NoKey]
           Def(g) == [n \in 0..Len(batch) |-> IF n = 0 THEN start ELSE ReduceEvent(g[n - 1], batch[n])]
           step == [n \in 1..Len(batch) |-> [r \in Reduced |-> ReduceEvent(r, batch[n])]]
           after == CHOOSE g : g = Def(g)
<1>1. Len(batch) \in Nat /\ \A n \in 1..Len(batch) : batch[n] \in Event
  BY SeqFacts
<1>2. start \in Reduced
  BY Values DEF Reduced
<1> HIDE DEF start
<1>3. step \in Steps(Len(batch), Reduced)
  BY <1>1, EventStep DEF Steps
<1>4. PICK f : Runs(f, Reduced, start, Len(batch), step)
  <2> HIDE DEF step, after, Def
  <2> QED
    BY <1>1, <1>2, <1>3, Iteration
<1>5. /\ f \in [0..Len(batch) -> Reduced] /\ f[0] = start
      /\ \A n \in 1..Len(batch) : f[n] = step[n][f[n - 1]]
  BY <1>4 DEF Runs
<1>6. ASSUME NEW n \in 0..Len(batch)
      PROVE  f[n] = IF n = 0 THEN start ELSE ReduceEvent(f[n - 1], batch[n])
  <2>1. CASE n = 0
    BY <1>5, <2>1
  <2>2. CASE n # 0
    <3>1. n \in 1..Len(batch) /\ n - 1 \in 0..Len(batch)
      BY <1>1, <2>2
    <3>2. f[n - 1] \in Reduced
      BY <1>5, <3>1
    <3> QED
      BY <1>5, <3>1, <3>2, <2>2
  <2> QED
    BY <2>1, <2>2
<1>7. f = Def(f)
  BY <1>5, <1>6
<1>8. after = Def(after)
  <2> HIDE DEF Def
  <2> QED
    BY <1>7
<1>9. Reduce(m, batch) = after[Len(batch)]
  BY DEF Reduce, start
<1> HIDE DEF after
<1>10. ASSUME NEW n \in 0..Len(batch)
       PROVE  after[n] = IF n = 0 THEN start ELSE ReduceEvent(after[n - 1], batch[n])
  <2>1. Def(after)[n] = IF n = 0 THEN start ELSE ReduceEvent(after[n - 1], batch[n])
    OBVIOUS
  <2> HIDE DEF Def
  <2> QED
    BY <1>8, <2>1
<1> DEFINE T == {n \in Nat : n <= Len(batch) => after[n] \in Reduced}
<1>11. 0 \in T
  BY <1>1, <1>2, <1>10
<1>12. ASSUME NEW n \in Nat, n \in T PROVE n + 1 \in T
  <2>1. SUFFICES ASSUME n + 1 <= Len(batch) PROVE after[n + 1] \in Reduced
    OBVIOUS
  <2>2. n + 1 \in 0..Len(batch) /\ n + 1 \in 1..Len(batch) /\ n + 1 # 0 /\ n + 1 - 1 = n
        /\ after[n] \in Reduced
    BY <1>1, <1>12, <2>1
  <2>3. after[n + 1] = ReduceEvent(after[n], batch[n + 1]) /\ batch[n + 1] \in Event
    BY <1>1, <1>10, <2>2
  <2> QED
    BY <2>2, <2>3, EventStep
<1>13. Nat \subseteq T
  <2> HIDE DEF T
  <2> QED
    BY <1>11, <1>12, Induction
<1>14. after \in [0..Len(batch) -> Reduced]
  <2>1. \A n \in 0..Len(batch) : after[n] \in Reduced
    BY <1>1, <1>13
  <2>2. after = [n \in 0..Len(batch) |-> after[n]]
    BY <1>8
  <2> HIDE DEF Def
  <2> QED
    BY <2>1, <2>2
<1>15. after[0] = start /\ \A n \in 1..Len(batch) : after[n] = ReduceEvent(after[n - 1], batch[n])
  <2>1. 0 \in 0..Len(batch) /\ \A n \in 1..Len(batch) : n \in 0..Len(batch) /\ n # 0
    BY <1>1
  <2> QED
    BY <1>10, <2>1
<1> QED
  BY <1>9, <1>14, <1>15 DEF start

-----------------------------------------------------------------------------
\* A read is made of its kind, its watermark and what it was asked for.
LEMMA ReadTyped ==
    ASSUME NEW kind \in {"none", "hydrate", "recover", "sync", "stop"}, NEW run \in SomeKey,
           NEW ended \in KeySets, NEW cursor \in Nat, NEW at \in Nat \cup {Travelling}
    PROVE  [kind |-> kind, at |-> at, run |-> run, ended |-> ended, cursor |-> cursor] \in ReadType
  BY DEF ReadType, SomeKey, KeySets

\* A read after a run's end or a stop leaves the intents alone.
LEMMA ReadOwnerType ==
    ASSUME NEW e \in Engine, NEW kind \in {"sync", "stop"}, NEW run \in SomeKey, NEW ended \in KeySets,
           NEW cursor \in Nat
    PROVE  Quiet(e, ReadOwner(e, kind, run, ended, cursor))
<1> DEFINE r == [kind |-> kind, at |-> Travelling, run |-> run, ended |-> ended, cursor |-> cursor]
           a == AbortRead(e)
<1>1. r \in ReadType /\ r.at = Travelling
  BY ReadTyped
<1>2. Quiet(e, a)
  BY AbortReadType
<1>3. ReadOwner(e, kind, run, ended, cursor) = [a EXCEPT !.read = r]
  BY DEF ReadOwner
<1> HIDE DEF r, a, Travelling
<1>4. [a EXCEPT !.read = r] \in Engine
  BY <1>1, <1>2, EngineType DEF Quiet
<1> QED
  BY <1>1, <1>2, <1>3, <1>4, EngineFields DEF Quiet, Kept, Near, ReadAt, EmptyEngine

\* observeSnapshotTerminals leaves the intents alone.
LEMMA ObserveType ==
    ASSUME NEW e \in Engine, NEW view \in Seq(Event)
    PROVE  Quiet(e, Observe(e, view))
<1>1. \A T \in KeySets : [e EXCEPT !.ended = @ \cup T] \in Engine
  BY EngineType DEF KeySets
<1>2. Terminals(view) \in KeySets
  BY LedgerType
<1>3. Observe(e, view) = e \/ Observe(e, view) = [e EXCEPT !.ended = @ \cup Terminals(view)]
  BY DEF Observe
<1> QED
  BY <1>1, <1>2, <1>3, EngineType DEF Quiet, Kept, Near, ReadAt

\* Taking a snapshot's head over (REATTACH) leaves the intents alone.
LEMMA ReattachedType ==
    ASSUME NEW e \in Engine, NEW view \in Seq(Event)
    PROVE  Quiet(e, Reattached(e, view))
<1> DEFINE head == ExecutionHead(view)
           m == REATTACH(e.machine, head, HeadState(view))
<1>1. head \in SomeKey /\ HeadState(view) \in {"active", "queued"}
  BY HeadType, LedgerType
<1>2. head # NoKey => m \in Machine
  BY <1>1, MachineSteps, EngineType DEF SomeKey
<1>3. \/ Reattached(e, view) = e
      \/ head # NoKey /\ Reattached(e, view) = [e EXCEPT !.machine = m, !.timer = head]
  BY DEF Reattached
<1> HIDE DEF head, m
<1>4. head # NoKey => [e EXCEPT !.machine = m, !.timer = head] \in Engine
  BY <1>1, <1>2, EngineType
<1>5. CASE Reattached(e, view) = e
  BY <1>5, EngineFields DEF Quiet, Kept, Near, ReadAt
<1>6. CASE head # NoKey /\ Reattached(e, view) = [e EXCEPT !.machine = m, !.timer = head]
  BY <1>4, <1>6, EngineFields DEF Quiet, Kept, Near, ReadAt, EmptyEngine
<1> QED
  BY <1>3, <1>5, <1>6

\* adoptOwnerSnapshot leaves the intents alone and moves the cursor to the end of the snapshot.
LEMMA AdoptType ==
    ASSUME NEW e \in Engine, NEW view \in Seq(Event)
    PROVE  LET f == Adopt(e, view) IN f \in Engine /\ Kept(e, f) /\ ReadAt(e, Len(view), f)
<1> DEFINE o == Observe(e, view)
           b == [o EXCEPT !.machine = IdleMachine, !.stream = "closed", !.timer = NoKey,
                          !.position = Len(view)]
           a == Reattached(b, view)
           c == [a EXCEPT !.connection = "connected"]
           d == IF ExecutionHead(view) # NoKey THEN Open(a) ELSE c
<1>1. Quiet(e, o)
  BY ObserveType
<1>2. b \in Engine /\ Kept(o, b) /\ ReadAt(o, Len(view), b)
  <2>1. Len(view) \in Nat
    BY SeqFacts
  <2> HIDE DEF o
  <2> QED
    BY <1>1, <2>1, EngineType, Values, MachineTypes DEF Quiet, Kept, Near, ReadAt
<1>3. Quiet(b, a)
  <2> HIDE DEF b
  <2> QED
    BY <1>2, ReattachedType
<1>4. a \in Engine
  BY <1>3 DEF Quiet
<1> HIDE DEF a
<1>5. Quiet(a, c)
  BY <1>4, EngineType, Values DEF Quiet, Kept, Near, ReadAt
<1> HIDE DEF c
<1>6. Quiet(a, d)
  BY <1>4, <1>5, OpenType
<1> HIDE DEF d
<1>7. Quiet(d, Expose(d))
  BY <1>6, ExposeType DEF Quiet
<1>8. Adopt(e, view) = Expose(d)
  BY DEF Adopt, d, c, a
<1> HIDE DEF o, b
<1> QED
  BY <1>1, <1>2, <1>3, <1>6, <1>7, <1>8 DEF Quiet, Kept, Near, ReadAt

\* The intent is out of the engine's hands.
Parted(e, f) ==
    /\ f.active = e.active /\ f.list = e.list /\ f.drafts = e.drafts /\ f.drawn = e.drawn
    /\ f.pending = NoPending /\ f.prepared \in {e.prepared, NoKey} /\ ~f.deferred
    /\ f.unsaved = e.unsaved /\ f.broken = e.broken

Dropped(e, f) == f \in Engine /\ Near(e, f) /\ Parted(e, f)

\* Retiring an intent (abandonPendingSubmission) leaves none, and the rest as it was.
LEMMA ForgottenType ==
    ASSUME NEW e \in Engine
    PROVE  Dropped(e, Forgotten(e)) /\ Forgotten(e).prepared = NoKey
<1>1. Forgotten(e) \in Engine
  BY EngineType, Values, NoPendingType DEF Forgotten
<1> QED
  BY <1>1, EngineFields DEF Forgotten, Dropped, Parted, Near, ReadAt, EmptyEngine

\* Applying a receipt (applyRecoveredReceipt) drops the intent it is of.
LEMMA RecoveredType ==
    ASSUME NEW e \in Engine, NEW settled \in BOOLEAN, HasPending(e)
    PROVE  Dropped(e, Recovered(e, settled))
<1> DEFINE m == IF settled /\ e.machine.run = NoKey THEN IdleMachine ELSE e.machine
           n == IF m.phase = "idle" /\ ~settled THEN RECEIPT(SUBMIT(m), e.pending.key) ELSE m
           t == Touch(e)
<1>1. e.pending.key \in Keys /\ e.machine \in Machine
  BY EngineType DEF HasPending, PendingType
<1>2. m \in Machine
  BY <1>1, MachineTypes
<1>3. n \in Machine
  <2> HIDE DEF m
  <2>1. SUBMIT(m) \in Machine
    BY <1>1, <1>2, MachineSteps
  <2> QED
    BY <1>1, <1>2, <2>1, MachineSteps
<1>4. Quiet(e, t)
  BY TouchType
<1>5. Recovered(e, settled) = [t EXCEPT !.pending = NoPending, !.retryError = "none",
                                         !.deferred = FALSE, !.machine = n]
  BY DEF Recovered
<1> HIDE DEF m, n, t
<1>6. Recovered(e, settled) \in Engine
  <2>1. t \in Engine
    BY <1>4 DEF Quiet
  <2>2. [t EXCEPT !.pending = NoPending, !.retryError = "none", !.deferred = FALSE, !.machine = n] \in Engine
    BY <1>3, <2>1, EngineType, Values, NoPendingType
  <2> QED
    BY <1>5, <2>2
<1> QED
  BY <1>4, <1>5, <1>6, EngineFields DEF Quiet, Kept, Near, ReadAt, Dropped, Parted, EmptyEngine

\* The engine after it read the slot of its conversation.
Rested(e, f) ==
    /\ f \in Engine /\ Near(e, f)
    /\ f.active = e.active /\ f.list = e.list /\ f.drafts = e.drafts /\ f.drawn = e.drawn
    /\ f.prepared = e.prepared /\ f.deferred = e.deferred /\ f.unsaved = e.unsaved
    /\ \/ f.pending = e.pending
       \/ ~f.broken /\ slot[e.active].state = "pending"
          /\ f.pending = [key |-> slot[e.active].key, id |-> 0]

\* restoreSubmission takes up the pending record of the conversation, or nothing.
LEMMA RestoreType ==
    ASSUME NEW e \in Engine, NEW works \in BOOLEAN, e.active \in Convs, slot \in [Convs -> Slot]
    PROVE  Rested(e, RestoreSubmission(e, works))
<1> DEFINE s == slot[e.active]
           p == [key |-> s.key, id |-> 0]
           error == IF s.code = "none" THEN "unknown" ELSE s.code
<1>1. s \in Slot
  OBVIOUS
<1>2. p \in PendingType /\ error \in Errors
  BY <1>1, ChatAssumption DEF Slot, PendingType, Errors
<1>3. CASE ~works
  <2>1. RestoreSubmission(e, works) = [e EXCEPT !.broken = TRUE, !.connection = "unavailable",
                                                !.machine = FAIL("local")]
    BY <1>3 DEF RestoreSubmission
  <2>2. RestoreSubmission(e, works) \in Engine
    <3>1. FAIL("local") \in Machine /\ "unavailable" \in Connections
      BY MachineTypes, Values
    <3>2. [e EXCEPT !.broken = TRUE, !.connection = "unavailable", !.machine = FAIL("local")] \in Engine
      BY <3>1, EngineType
    <3> QED
      BY <2>1, <3>2
  <2> QED
    BY <2>1, <2>2, EngineFields DEF Rested, Near, ReadAt, EmptyEngine
<1>4. CASE works /\ s.state = "pending"
  <2>1. RestoreSubmission(e, works) = [e EXCEPT !.broken = FALSE, !.pending = p,
                                                !.machine = FAIL(error)]
    BY <1>4 DEF RestoreSubmission
  <2> HIDE DEF p, error
  <2>2. FAIL(error) \in Machine
    BY <1>2, MachineTypes
  <2>3. RestoreSubmission(e, works) \in Engine
    <3>1. [e EXCEPT !.broken = FALSE, !.pending = p, !.machine = FAIL(error)] \in Engine
      BY <1>2, <2>2, EngineType
    <3> QED
      BY <2>1, <3>1
  <2>4. p = [key |-> slot[e.active].key, id |-> 0]
    BY DEF p
  <2> QED
    BY <1>4, <2>1, <2>3, <2>4, EngineFields DEF Rested, Near, ReadAt, EmptyEngine
<1>5. CASE works /\ s.state # "pending"
  <2>1. RestoreSubmission(e, works) = [e EXCEPT !.broken = FALSE]
    BY <1>5 DEF RestoreSubmission
  <2>2. RestoreSubmission(e, works) \in Engine
    <3>1. [e EXCEPT !.broken = FALSE] \in Engine
      BY EngineType
    <3> QED
      BY <2>1, <3>1
  <2> QED
    BY <2>1, <2>2, EngineFields DEF Rested, Near, ReadAt, EmptyEngine
<1> QED
  BY <1>3, <1>4, <1>5

\* The engine that shows conversation c.
Shows(e, c, f) ==
    /\ f \in Engine /\ f.position = 0 /\ f.read.at \in {Absent, Travelling}
    /\ f.active = c /\ f.list = e.list /\ f.drafts = e.drafts /\ f.drawn = e.drawn
    /\ f.prepared = NoKey /\ ~f.deferred /\ f.unsaved = e.unsaved
    /\ \/ f.pending = NoPending
       \/ ~f.broken /\ slot[c].state = "pending" /\ f.pending = [key |-> slot[c].key, id |-> 0]

\* activateConversation shows the conversation with the pending record of it, or none.
LEMMA ActivateType ==
    ASSUME NEW e \in Engine, NEW c \in Convs, NEW hydrate \in BOOLEAN, NEW works \in BOOLEAN,
           slot \in [Convs -> Slot]
    PROVE  Shows(e, c, Activate(e, c, hydrate, works))
<1> DEFINE k == Cleared(e)
           v == [k EXCEPT !.active = c, !.prepared = NoKey, !.recovering = FALSE]
           r == RestoreSubmission(v, works)
<1>1. /\ k \in Engine /\ k.list = e.list /\ k.drafts = e.drafts /\ k.drawn = e.drawn
      /\ k.pending = NoPending /\ ~k.deferred /\ k.unsaved = e.unsaved
      /\ k.position = 0 /\ k.read.at = Absent
  BY ClearedType
<1>2. v \in Engine /\ v.active = c /\ v.list = e.list /\ v.drafts = e.drafts /\ v.drawn = e.drawn
      /\ v.prepared = NoKey /\ v.pending = NoPending /\ ~v.deferred /\ v.unsaved = e.unsaved
      /\ v.position = 0 /\ v.read.at = Absent
  <2> HIDE DEF k
  <2> QED
    BY <1>1, EngineType, Values
<1>3. Rested(v, r)
  <2> HIDE DEF v
  <2> QED
    BY <1>2, RestoreType
<1>4. \/ Activate(e, c, hydrate, works) = r
      \/ Activate(e, c, hydrate, works) = Hydrate(r, "hydrate")
  BY DEF Activate
<1>5. Quiet(r, Hydrate(r, "hydrate"))
  <2> HIDE DEF r
  <2> QED
    BY <1>3, HydrateType DEF Rested
<1> HIDE DEF k, v, r
<1> QED
  BY <1>2, <1>3, <1>4, <1>5 DEF Quiet, Kept, Near, ReadAt, Rested, Shows

-----------------------------------------------------------------------------
(* The records *)

\* The operations of browser-submission-recovery.ts lead from records to records.
LEMMA SlotOps ==
    ASSUME NEW s \in Slot, NEW k \in Keys
    PROVE  /\ Saved(s, k) \in Slot /\ Acknowledged(s, k) \in Slot /\ Abandoned(s, k) \in Slot
           /\ \A code \in {"unknown", "failed"} : Failed(s, k, code) \in Slot
  BY DEF Saved, Acknowledged, Abandoned, Failed, Slot

\* flushReceipts acknowledges the pending records whose receipts were not stored, and no others.
LEMMA FlushedType ==
    ASSUME NEW e \in Engine, slot \in [Convs -> Slot]
    PROVE  /\ Flushed(e, slot) \in [Convs -> Slot]
           /\ \A c \in Convs :
                 Flushed(e, slot)[c] =
                    IF slot[c].state = "pending" /\ slot[c].key \in e.unsaved
                    THEN [state |-> "acknowledged", key |-> slot[c].key, code |-> "none"]
                    ELSE slot[c]
<1>1. e.unsaved \in SUBSET Keys
  BY EngineType DEF KeySets
<1>2. ASSUME NEW c \in Convs, slot[c].state = "pending", slot[c].key \in e.unsaved
      PROVE  /\ Acknowledged(slot[c], slot[c].key) =
                [state |-> "acknowledged", key |-> slot[c].key, code |-> "none"]
             /\ [state |-> "acknowledged", key |-> slot[c].key, code |-> "none"] \in Slot
  <2>1. slot[c] \in Slot /\ slot[c].key \in Keys
    BY <1>1, <1>2
  <2> QED
    BY <1>2, <2>1 DEF Acknowledged, Matches, Slot
<1> QED
  BY <1>2 DEF Flushed

-----------------------------------------------------------------------------
(* An engine that is awake *)

\* Whatever shows that the engine has begun means that there is a conversation.
LEMMA Awake ==
    ASSUME IInv,
           \/ tab.machine.run # NoKey \/ tab.machine.phase # "idle" \/ tab.stop.asked
           \/ tab.stream # "closed" \/ tab.read.kind # "none" \/ tab.read.at = Travelling
           \/ tab.timer # NoKey \/ HasPending(tab) \/ tab.connection # "connected"
           \/ tab.deferred \/ tab.prepared # NoKey \/ calls # <<>>
    PROVE  tab.active \in Convs
<1>1. tab.active # NoConv
  BY DEF IInv, Blank, EmptyEngine, IdleMachine, Running, NoPending, NoStop, NoRead, HasPending,
         Travelling
<1>2. tab.active \in SomeConv
  BY EngineType DEF IInv, TypeOK
<1> QED
  BY <1>1, <1>2 DEF SomeConv

\* What an engine read of the ledger is there.
Follows(f) == f.position <= Len(log[f.active]) /\ f.read.at <= Len(log[f.active])

\* A step of the engine on its own: its intents and the records stay.
QuietStep ==
    /\ tab.active \in Convs /\ tab' \in Engine /\ Kept(tab, tab') /\ Follows(tab')
    /\ UNCHANGED <<slot, calls, serverVars, past>>

\* A ledger is a sequence of events.
LEMMA LogLength ==
    ASSUME IInv, NEW c \in Convs
    PROVE  log[c] \in Seq(Event) /\ Len(log[c]) \in Nat
<1>1. log[c] \in Seq(Event)
  BY DEF IInv, TypeOK
<1> QED
  BY <1>1, SeqFacts

\* A view whose cursor did not move and whose read is not newer still follows the ledger.
LEMMA NearFollows ==
    ASSUME IInv, tab.active \in Convs, NEW f, f.active = tab.active, Near(tab, f)
    PROVE  Follows(f)
<1>1. Len(log[tab.active]) \in Nat
  BY LogLength
<1>2. tab.position <= Len(log[tab.active]) /\ tab.read.at <= Len(log[tab.active])
  BY DEF IInv, Behind
<1>3. f.position = tab.position /\ f.active = tab.active /\ f.read.at \in {tab.read.at, 0, -1}
  BY DEF Near, ReadAt, Absent, Travelling
<1> QED
  BY <1>1, <1>2, <1>3 DEF Follows

\* The same for an engine that read the ledger up to n.
LEMMA ReadFollows ==
    ASSUME IInv, tab.active \in Convs, NEW f, f.active = tab.active, NEW n \in Nat,
           n <= Len(log[tab.active]), f.position = n, f.read.at \in {Absent, Travelling}
    PROVE  Follows(f)
<1>1. Len(log[tab.active]) \in Nat
  BY LogLength
<1> QED
  BY <1>1 DEF Follows, Absent, Travelling

\* A change of the tab that leaves the intents alone is a quiet step.
LEMMA QuietIsStep ==
    ASSUME IInv, tab.active \in Convs, Quiet(tab, tab'),
           UNCHANGED <<slot, calls, serverVars, past>>
    PROVE  QuietStep
<1>1. Follows(tab')
  BY NearFollows DEF Quiet, Kept
<1> QED
  BY <1>1 DEF QuietStep, Quiet

\* A stop is made of its run, whether it was asked for and the cursor it was asked at.
LEMMA StopTypes ==
    ASSUME NEW run \in SomeKey, NEW asked \in BOOLEAN, NEW cursor \in Nat
    PROVE  [run |-> run, asked |-> asked, cursor |-> cursor] \in StopType
  BY DEF StopType, SomeKey

\* Stopping the run shown (cancelRun) changes no record, no call and no intent: a quiet step.
LEMMA StopRunQuiet == ASSUME IInv, StopRun PROVE QuietStep
<1> DEFINE m == [CANCEL(tab.machine) EXCEPT !.error = "none"]
           s == [run |-> tab.machine.run, asked |-> TRUE, cursor |-> tab.position]
<1>1. tab \in Engine /\ tab.active \in Convs
  BY Awake DEF IInv, TypeOK, StopRun
<1>2. tab.machine \in Machine /\ tab.machine.run \in Keys /\ tab.position \in Nat
  BY <1>1, EngineType DEF StopRun, Machine
<1>3. m \in Machine
  BY <1>2, MachineSteps, Values
<1>4. s \in StopType
  BY <1>2, StopTypes, Values
<1>5. tab' = [tab EXCEPT !.machine = m, !.stop = s]
  BY DEF StopRun
<1> HIDE DEF m, s
<1>6. tab' \in Engine
  BY <1>1, <1>3, <1>4, <1>5, EngineType
<1>7. Quiet(tab, tab')
  BY <1>1, <1>5, <1>6, EngineFields DEF Quiet, Kept, Near, ReadAt, EmptyEngine
<1> QED
  BY <1>1, <1>7, QuietIsStep DEF StopRun

\* The answer to a stop (cancelRun's callbacks) changes no record, no call and no intent: a quiet
\* step.
LEMMA StopAnsweredQuiet == ASSUME IInv, StopAnswered PROVE QuietStep
<1>1. tab \in Engine /\ tab.active \in Convs
  BY Awake DEF IInv, TypeOK, StopAnswered
<1>2. tab.machine \in Machine /\ tab.stop \in StopType /\ tab.stop.run \in SomeKey /\ tab.stop.cursor \in Nat
  BY <1>1, EngineType DEF StopType, SomeKey
<1> DEFINE s == [[tab.stop EXCEPT !.asked = FALSE] EXCEPT !.cursor = 0]
           a == [tab EXCEPT !.stop = s]
           m == [tab.machine EXCEPT !.error = "failed"]
           b == [a EXCEPT !.machine = m]
<1>3. s \in StopType /\ m \in Machine
  BY <1>2, MachineTypes DEF StopType, Machine, Errors
<1>4. PICK failed \in BOOLEAN :
        LET answered == [tab EXCEPT !.stop.asked = FALSE, !.stop.cursor = 0] IN
        tab' = IF tab.machine.run # tab.stop.run THEN answered
               ELSE ReadOwner(IF failed THEN [answered EXCEPT !.machine.error = "failed"] ELSE answered,
                              "stop", tab.stop.run, {}, tab.stop.cursor)
  BY DEF StopAnswered
<1>5. [tab EXCEPT !.stop.asked = FALSE, !.stop.cursor = 0] = a
  BY <1>1, EngineType
<1> HIDE DEF s
<1>6. Quiet(tab, a) /\ a.machine = tab.machine
  <2>1. a \in Engine
    BY <1>1, <1>3, EngineType
  <2> QED
    BY <1>1, <2>1, EngineFields DEF Quiet, Kept, Near, ReadAt, EmptyEngine
<1> HIDE DEF a
<1>7. [a EXCEPT !.machine.error = "failed"] = b
  BY <1>6
<1> HIDE DEF m
<1>8. Quiet(a, b)
  <2>1. a \in Engine
    BY <1>6 DEF Quiet
  <2>2. b \in Engine
    BY <2>1, <1>3, EngineType
  <2> QED
    BY <2>1, <2>2, EngineFields DEF Quiet, Kept, Near, ReadAt, EmptyEngine
<1> HIDE DEF b
<1> DEFINE f == IF failed THEN b ELSE a
<1>9. Quiet(tab, f)
  BY <1>6, <1>8, QuietTwice
<1> HIDE DEF f
<1>10. Quiet(f, ReadOwner(f, "stop", tab.stop.run, {}, tab.stop.cursor))
  BY <1>2, <1>9, ReadOwnerType, Values DEF Quiet
<1>11. tab' = a \/ tab' = ReadOwner(f, "stop", tab.stop.run, {}, tab.stop.cursor)
  BY <1>4, <1>5, <1>7 DEF f
<1>12. Quiet(tab, tab')
  BY <1>6, <1>9, <1>10, <1>11, QuietTwice
<1> QED
  BY <1>1, <1>12, QuietIsStep DEF StopAnswered

\* A stream that connects (onConnected) changes no record, no call and no intent: a quiet step.
LEMMA StreamConnectsQuiet == ASSUME IInv, StreamConnects PROVE QuietStep
<1>1. tab \in Engine /\ tab.active \in Convs
  BY Awake DEF IInv, TypeOK, StreamConnects
<1>2. tab' \in Engine
  BY <1>1, EngineType, Values DEF StreamConnects
<1>3. Quiet(tab, tab')
  BY <1>1, <1>2, EngineFields DEF StreamConnects, Quiet, Kept, Near, ReadAt, EmptyEngine
<1> QED
  BY <1>1, <1>3, QuietIsStep DEF StreamConnects

\* A stream that breaks (onReconnecting) changes no record, no call and no intent: a quiet step.
LEMMA StreamDropsQuiet == ASSUME IInv, StreamDrops PROVE QuietStep
<1>1. tab \in Engine /\ tab.active \in Convs
  BY Awake DEF IInv, TypeOK, StreamDrops
<1>2. tab' \in Engine
  BY <1>1, EngineType, Values DEF StreamDrops
<1>3. Quiet(tab, tab')
  BY <1>1, <1>2, EngineFields DEF StreamDrops, Quiet, Kept, Near, ReadAt, EmptyEngine
<1> QED
  BY <1>1, <1>3, QuietIsStep DEF StreamDrops

\* A stream that ends for good (onStreamError) changes no record, no call and no intent: a quiet
\* step.
LEMMA StreamFailsQuiet == ASSUME IInv, StreamFails PROVE QuietStep
<1>1. tab \in Engine /\ tab.active \in Convs
  BY Awake DEF IInv, TypeOK, StreamFails
<1>2. tab' \in Engine
  BY <1>1, EngineType, Values DEF StreamFails
<1>3. Quiet(tab, tab')
  BY <1>1, <1>2, EngineFields DEF StreamFails, Quiet, Kept, Near, ReadAt, EmptyEngine
<1> QED
  BY <1>1, <1>3, QuietIsStep DEF StreamFails

\* The time-out of a reattached run (reattachTimer) changes no record, no call and no intent: a
\* quiet step.
LEMMA ReattachTimesOutQuiet == ASSUME IInv, ReattachTimesOut PROVE QuietStep
<1>1. tab \in Engine /\ tab.active \in Convs
  BY Awake DEF IInv, TypeOK, ReattachTimesOut
<1> DEFINE a == AbortRead(tab)
           r == [a EXCEPT !.read = NoRead]
           g == [r EXCEPT !.stream = "closed", !.connection = "unavailable", !.timer = NoKey]
           s == [tab EXCEPT !.timer = NoKey]
<1>2. Quiet(tab, a)
  BY <1>1, AbortReadType
<1>3. tab' = s \/ tab' = g
  BY DEF ReattachTimesOut
<1> HIDE DEF a
<1>4. Quiet(a, r)
  BY <1>2, NoReadSet DEF Quiet
<1> HIDE DEF r
<1>5. Quiet(r, g)
  <2>1. r \in Engine
    BY <1>4 DEF Quiet
  <2>2. g \in Engine
    BY <2>1, EngineType, Values
  <2> QED
    BY <2>1, <2>2, EngineFields DEF Quiet, Kept, Near, ReadAt, EmptyEngine
<1>6. Quiet(tab, s)
  <2>1. s \in Engine
    BY <1>1, EngineType, Values
  <2> QED
    BY <1>1, <2>1, EngineFields DEF Quiet, Kept, Near, ReadAt, EmptyEngine
<1> HIDE DEF g, s
<1>7. Quiet(tab, tab')
  BY <1>2, <1>3, <1>4, <1>5, <1>6, QuietTwice
<1> QED
  BY <1>1, <1>7, QuietIsStep DEF ReattachTimesOut

\* An expired cursor (onStreamError, event_cursor_expired) changes no record, no call and no
\* intent: a quiet step.
LEMMA StreamExpiresQuiet == ASSUME IInv, StreamExpires PROVE QuietStep
<1>1. tab \in Engine /\ tab.active \in Convs
  BY Awake DEF IInv, TypeOK, StreamExpires
<1> DEFINE error == IF tab.machine.phase = "submitting" THEN "none" ELSE tab.retryError
           g == [tab EXCEPT !.stream = "closed", !.recovering = TRUE, !.timer = NoKey,
                            !.connection = "reconnecting", !.retryError = error]
<1>2. error \in Errors
  BY <1>1, EngineType, Values
<1>3. tab' = Hydrate(g, "recover")
  BY DEF StreamExpires
<1> HIDE DEF error
<1>4. Quiet(tab, g)
  <2>1. g \in Engine
    BY <1>1, <1>2, EngineType, Values
  <2> QED
    BY <1>1, <2>1, EngineFields DEF Quiet, Kept, Near, ReadAt, EmptyEngine
<1> HIDE DEF g
<1>5. Quiet(g, tab')
  BY <1>3, <1>4, HydrateType DEF Quiet
<1>6. Quiet(tab, tab')
  BY <1>4, <1>5, QuietTwice
<1> QED
  BY <1>1, <1>6, QuietIsStep DEF StreamExpires

\* Adding ends to a read leaves a read.
LEMMA ReadWithEnds ==
    ASSUME NEW r \in ReadType, NEW T \in KeySets
    PROVE  /\ r.ended \in KeySets /\ r.ended \cup T \in KeySets
           /\ [r EXCEPT !.ended = T] \in ReadType /\ [r EXCEPT !.ended = T].at = r.at
  BY DEF ReadType, KeySets

\* Folding a batch into the run machine gives a run machine, however long the batch is.
LEMMA ReduceType ==
    ASSUME NEW m \in Machine, NEW batch \in Seq(Event)
    PROVE  Reduce(m, batch) \in Reduced
<1>1. Len(batch) \in 0..Len(batch)
  BY SeqFacts
<1>2. PICK f \in [0..Len(batch) -> Reduced] : Reduce(m, batch) = f[Len(batch)]
  BY ReduceRuns
<1> QED
  BY <1>1, <1>2

\* The part of handleStreamEvents that keeps the submission leaves the intents alone and moves the
\* cursor.
LEMMA AdvancedType ==
    ASSUME NEW e \in Engine, NEW n \in Nat, NEW reduced \in Reduced, NEW ends \in KeySets
    PROVE  LET f == Advanced(e, n, reduced, ends) IN f \in Engine /\ Kept(e, f) /\ ReadAt(e, n, f)
<1> DEFINE t == Touch(e)
           timer == IF reduced.machine.phase = "streaming" \/ reduced.settled # NoKey
                    THEN NoKey ELSE t.timer
           ended == IF e.steers # {} \/ HasPending(e) THEN t.ended \cup ends ELSE t.ended
           readEnds == IF e.read.kind = "sync" THEN t.read.ended \cup ends ELSE t.read.ended
           read == [t.read EXCEPT !.ended = readEnds]
           f == [t EXCEPT !.machine = reduced.machine, !.position = n, !.timer = timer,
                          !.ended = ended, !.read = read]
<1>1. reduced.machine \in Machine /\ reduced.settled \in SomeKey
  BY DEF Reduced
<1>2. Quiet(e, t)
  BY TouchType
<1>3. t \in Engine /\ t.timer \in SomeKey /\ t.ended \in KeySets /\ t.read \in ReadType
  <2> HIDE DEF t
  <2> QED
    BY <1>2, EngineType DEF Quiet
<1>4. Advanced(e, n, reduced, ends) = f
  <2> HIDE DEF timer, ended, t
  <2>1. [t EXCEPT !.read.ended = readEnds] = [t EXCEPT !.read = read]
    BY <1>3, EngineType
  <2>2. Advanced(e, n, reduced, ends) =
          [t EXCEPT !.machine = reduced.machine, !.position = n, !.timer = timer, !.ended = ended,
                    !.read.ended = readEnds]
    BY <1>3 DEF Advanced, t, timer, ended
  <2>3. f = [t EXCEPT !.machine = reduced.machine, !.position = n, !.timer = timer, !.ended = ended,
                    !.read.ended = readEnds]
    BY <1>3, <2>1, EngineFields DEF EmptyEngine
  <2> QED
    BY <2>2, <2>3
<1> HIDE DEF t
<1>5. timer \in SomeKey /\ ended \in KeySets
  BY <1>3, Values DEF KeySets
<1>6. read \in ReadType /\ read.at = t.read.at
  <2>1. readEnds \in KeySets
    BY <1>3, ReadWithEnds
  <2> HIDE DEF readEnds
  <2> QED
    BY <1>3, <2>1, ReadWithEnds
<1> HIDE DEF timer, ended, read
<1>7. f \in Engine
  BY <1>1, <1>3, <1>5, <1>6, EngineType
<1>8. Kept(t, f) /\ ReadAt(t, n, f)
  BY <1>3, <1>6, <1>7, EngineFields DEF Kept, ReadAt, EmptyEngine
<1> HIDE DEF f
<1> QED
  BY <1>2, <1>4, <1>7, <1>8 DEF Quiet, Kept, Near, ReadAt

\* A batch of events (handleStreamEvents) changes no record, no call and no intent: a quiet step.
LEMMA StreamEventsQuiet == ASSUME IInv, StreamEvents PROVE QuietStep
<1>1. tab \in Engine /\ tab.active \in Convs
  BY Awake DEF IInv, TypeOK, StreamEvents
<1>2. PICK n \in (tab.position + 1) .. Len(log[tab.active]) :
        LET batch == SubSeq(log[tab.active], tab.position + 1, n)
            ends == Terminals(batch)
            reduced == Reduce(tab.machine, batch)
            exposed == Expose(Advanced(tab, n, reduced, ends))
        IN tab' = IF reduced.settled = NoKey THEN exposed
                  ELSE ReadOwner([exposed EXCEPT
                                    !.stop = IF @.run = reduced.settled THEN NoStop ELSE @],
                                 "sync", reduced.settled, ends, n)
  BY DEF StreamEvents
<1>3. tab.position \in Nat /\ tab.machine \in Machine
  BY <1>1, EngineType
<1>4. log[tab.active] \in Seq(Event) /\ Len(log[tab.active]) \in Nat
  BY <1>1, LogLength
<1>5. n \in Nat /\ n <= Len(log[tab.active])
  BY <1>3, <1>4
<1> DEFINE batch == SubSeq(log[tab.active], tab.position + 1, n)
           ends == Terminals(batch)
           reduced == Reduce(tab.machine, batch)
           heard == Advanced(tab, n, reduced, ends)
           exposed == Expose(heard)
           s == IF exposed.stop.run = reduced.settled THEN NoStop ELSE exposed.stop
           x == [exposed EXCEPT !.stop = s]
<1>6. batch \in Seq(Event)
  BY <1>3, <1>4, BatchType
<1>7. tab' = exposed \/ tab' = ReadOwner(x, "sync", reduced.settled, ends, n)
  BY <1>2
<1> HIDE DEF batch
<1>8. ends \in KeySets
  BY <1>6, LedgerType
<1>9. reduced \in Reduced
  BY <1>3, <1>6, ReduceType
<1> HIDE DEF ends, reduced
<1>10. heard \in Engine /\ Kept(tab, heard) /\ ReadAt(tab, n, heard)
  BY <1>1, <1>5, <1>8, <1>9, AdvancedType
<1> HIDE DEF heard
<1>11. Quiet(heard, exposed)
  BY <1>10, ExposeType
<1> HIDE DEF exposed
<1>12. Quiet(exposed, x)
  <2>1. exposed \in Engine
    BY <1>11 DEF Quiet
  <2>2. s \in StopType
    BY <2>1, EngineType, NoStopType
  <2> HIDE DEF s
  <2>3. x \in Engine
    BY <2>1, <2>2, EngineType
  <2> QED
    BY <2>1, <2>3, EngineFields DEF Quiet, Kept, Near, ReadAt, EmptyEngine
<1> HIDE DEF x
<1>13. Quiet(x, ReadOwner(x, "sync", reduced.settled, ends, n))
  BY <1>5, <1>8, <1>9, <1>12, ReadOwnerType DEF Quiet, Reduced
<1>14. Quiet(heard, tab')
  BY <1>7, <1>11, <1>12, <1>13, QuietTwice
<1>15. tab' \in Engine /\ Kept(tab, tab') /\ ReadAt(tab, n, tab')
  BY <1>10, <1>14 DEF Quiet, Kept, Near, ReadAt
<1>16. tab'.position = n /\ tab'.read.at \in {tab.read.at, 0, -1} /\ tab'.active = tab.active
  BY <1>15 DEF Kept, ReadAt, Absent, Travelling
<1>17. Follows(tab')
  BY <1>1, <1>4, <1>5, <1>16 DEF IInv, Behind, Follows
<1> QED
  BY <1>1, <1>15, <1>17 DEF QuietStep, StreamEvents

\* The intent's receipt was applied.
DropStep ==
    /\ tab.active \in Convs /\ tab.deferred
    /\ tab' \in Engine /\ Parted(tab, tab') /\ Follows(tab')
    /\ UNCHANGED <<slot, calls, serverVars, past>>

\* The snapshot of an answered read is a prefix of the ledger of the conversation shown.
LEMMA ViewType ==
    ASSUME IInv, tab.active \in Convs, tab.read.at > Absent
    PROVE  /\ View \in Seq(Event) /\ Len(View) \in Nat
           /\ Len(View) = tab.read.at /\ Len(View) <= Len(log[tab.active])
<1>1. log[tab.active] \in Seq(Event) /\ Len(log[tab.active]) \in Nat
  BY LogLength
<1>2. tab.read.at \in Nat \cup {-1} /\ tab.read.at <= Len(log[tab.active])
  <2>1. tab \in Engine /\ tab.read.at <= Len(log[tab.active])
    BY DEF IInv, TypeOK, Behind
  <2> QED
    BY <2>1, EngineType DEF ReadType, Travelling
<1>3. tab.read.at \in 0..Len(log[tab.active])
  BY <1>1, <1>2 DEF Absent
<1>4. View \in Seq(Event) /\ Len(View) = tab.read.at
  BY <1>1, <1>3, PrefixType DEF View
<1> QED
  BY <1>3, <1>4, <1>1

\* A hydration that finds no conversation is a quiet step, or applies the receipt set aside.
LEMMA HydrateAbsentStep == ASSUME IInv, HydrateAbsent PROVE QuietStep \/ DropStep
<1>1. tab \in Engine /\ tab.active \in Convs
  BY Awake DEF IInv, TypeOK, HydrateAbsent
<1> DEFINE a == Answered(tab)
           shown == [a EXCEPT !.hydrating = FALSE]
           rest == [shown EXCEPT !.machine = IdleMachine]
           r == Recovered(rest, FALSE)
<1>2. Quiet(tab, a)
  BY <1>1, AnsweredType
<1>3. tab' = IF tab.deferred THEN Open(r) ELSE shown
  BY DEF HydrateAbsent
<1> HIDE DEF a
<1>4. Quiet(a, shown)
  BY <1>2, EngineType DEF Quiet, Kept, Near, ReadAt
<1>5. Quiet(tab, shown)
  BY <1>2, <1>4, QuietTwice
<1> HIDE DEF shown
<1>6. Quiet(shown, rest)
  BY <1>5, EngineType, MachineTypes DEF Quiet, Kept, Near, ReadAt
<1>7. Quiet(tab, rest)
  BY <1>5, <1>6, QuietTwice
<1> HIDE DEF rest
<1>8. CASE ~tab.deferred
  BY <1>1, <1>3, <1>5, <1>8, QuietIsStep DEF HydrateAbsent
<1>9. CASE tab.deferred
  <2>1. HasPending(tab)
    BY <1>9 DEF IInv, Held
  <2>2. HasPending(rest)
    BY <1>7, <2>1 DEF HasPending, Quiet, Kept
  <2>3. Dropped(rest, r)
    BY <1>7, <2>2, RecoveredType DEF Quiet
  <2> HIDE DEF r
  <2>4. Quiet(r, Open(r))
    BY <2>3, OpenType DEF Dropped
  <2>5. Dropped(tab, tab')
    BY <1>3, <1>7, <1>9, <2>3, <2>4 DEF Quiet, Kept, Near, ReadAt, Dropped, Parted
  <2>6. Follows(tab')
    <3>1. Len(log[tab.active]) \in Nat
      BY <1>1, LogLength
    <3>2. tab.position <= Len(log[tab.active]) /\ tab.read.at <= Len(log[tab.active])
      BY <1>1 DEF IInv, Behind
    <3>3. tab'.position = tab.position /\ tab'.active = tab.active /\ tab'.read.at \in {tab.read.at, 0, -1}
      BY <2>5 DEF Dropped, Parted, Near, ReadAt, Absent, Travelling
    <3> QED
      BY <3>1, <3>2, <3>3 DEF Follows
  <2> QED
    BY <1>1, <1>9, <2>5, <2>6 DEF DropStep, HydrateAbsent, Dropped
<1> QED
  BY <1>8, <1>9

\* A hydration that fails (hydrate catch) changes no record, no call and no intent: a quiet step.
LEMMA HydrateFailsQuiet == ASSUME IInv, HydrateFails PROVE QuietStep
<1>1. tab \in Engine /\ tab.active \in Convs
  BY Awake DEF IInv, TypeOK, HydrateFails
<1>2. Quiet(tab, AbortRead(tab))
  BY <1>1, AbortReadType
<1>3. Quiet(AbortRead(tab), tab')
  BY <1>2, AnsweredType DEF HydrateFails, Quiet
<1>4. Quiet(tab, tab')
  BY <1>2, <1>3, QuietTwice
<1> QED
  BY <1>1, <1>4, QuietIsStep DEF HydrateFails

\* The read after a run's end that finds no conversation (syncWorkspaceFiles) changes no record, no
\* call and no intent: a quiet step.
LEMMA SyncAbsentQuiet == ASSUME IInv, SyncAbsent PROVE QuietStep
<1>1. tab \in Engine /\ tab.active \in Convs
  BY Awake DEF IInv, TypeOK, SyncAbsent
<1> DEFINE a == Answered(tab)
           b == [a EXCEPT !.stream = "closed"]
<1>2. Quiet(tab, a)
  BY <1>1, AnsweredType
<1>3. tab' = a \/ tab' = b
  BY DEF SyncAbsent
<1> HIDE DEF a
<1>4. Quiet(a, b)
  BY <1>2, EngineType, Values DEF Quiet, Kept, Near, ReadAt
<1>5. Quiet(tab, tab')
  BY <1>2, <1>3, <1>4, QuietTwice
<1> QED
  BY <1>1, <1>5, QuietIsStep DEF SyncAbsent

\* A read after a run's end or a stop that fails changes no record, no call and no intent: a quiet
\* step.
LEMMA ReadFailsQuiet == ASSUME IInv, ReadFails PROVE QuietStep
<1>1. tab \in Engine /\ tab.active \in Convs
  BY Awake DEF IInv, TypeOK, ReadFails
<1>2. Quiet(tab, tab')
  BY <1>1, AnsweredType DEF ReadFails
<1> QED
  BY <1>1, <1>2, QuietIsStep DEF ReadFails

\* The service answering a snapshot read changes no record, no call and no intent: a quiet step.
LEMMA ReadExecutesQuiet == ASSUME IInv, ReadExecutes PROVE QuietStep
<1>1. tab \in Engine /\ tab.active \in Convs
  BY Awake DEF IInv, TypeOK, ReadExecutes
<1> DEFINE n == IF tab.active \in gone THEN Absent ELSE Len(log[tab.active])
           r == [tab.read EXCEPT !.at = n]
<1>2. Len(log[tab.active]) \in Nat
  BY <1>1, LogLength
<1>3. n \in Nat /\ n <= Len(log[tab.active])
  BY <1>2 DEF Absent
<1>4. r \in ReadType /\ r.at = n
  <2>1. tab.read \in ReadType
    BY <1>1, EngineType
  <2> HIDE DEF n
  <2> QED
    BY <1>3, <2>1 DEF ReadType
<1>5. tab' = [tab EXCEPT !.read = r]
  <2>1. tab' = [tab EXCEPT !.read.at = n]
    BY DEF ReadExecutes
  <2> HIDE DEF n
  <2> QED
    BY <1>1, <2>1, EngineType
<1> HIDE DEF r
<1>6. tab' \in Engine
  BY <1>1, <1>4, <1>5, EngineType
<1>7. Kept(tab, tab') /\ tab'.position = tab.position /\ tab'.read = r
  BY <1>1, <1>5, <1>6, EngineFields DEF Kept, EmptyEngine
<1>8. Follows(tab')
  BY <1>1, <1>2, <1>3, <1>4, <1>7 DEF Follows, IInv, Behind, Kept
<1> QED
  BY <1>1, <1>6, <1>7, <1>8 DEF QuietStep, ReadExecutes

\* The read after a run's end (syncWorkspaceFiles) changes no record, no call and no intent: a
\* quiet step.
LEMMA SyncOwnerQuiet == ASSUME IInv, SyncOwner PROVE QuietStep
<1>1. tab \in Engine /\ tab.active \in Convs
  BY Awake DEF IInv, TypeOK, SyncOwner
<1> DEFINE a == Answered(tab)
           read == Observe(a, View)
           b == [read EXCEPT !.stream = "closed", !.connection = "connected"]
           c == [read EXCEPT !.stream = "closed"]
           d == Adopt(read, View)
<1>2. View \in Seq(Event) /\ Len(View) \in Nat /\ Len(View) <= Len(log[tab.active])
  BY <1>1, ViewType DEF SyncOwner
<1>3. Quiet(tab, a) /\ a.read.at = Absent
  BY <1>1, AnsweredType, EngineType DEF Answered, NoRead, Absent
<1>4. tab' \in {read, b, c, d}
  BY DEF SyncOwner
<1> HIDE DEF a
<1>5. Quiet(a, read)
  BY <1>2, <1>3, ObserveType DEF Quiet
<1> HIDE DEF read
<1>6. Quiet(read, b) /\ Quiet(read, c)
  <2>1. read \in Engine
    BY <1>5 DEF Quiet
  <2>2. b \in Engine /\ c \in Engine
    BY <2>1, EngineType, Values
  <2> QED
    BY <2>1, <2>2, EngineFields DEF Quiet, Kept, Near, ReadAt, EmptyEngine
<1>7. d \in Engine /\ Kept(read, d) /\ ReadAt(read, Len(View), d)
  BY <1>2, <1>5, AdoptType DEF Quiet
<1> HIDE DEF b, c, d
<1>8. CASE tab' # d
  <2>1. Quiet(read, tab')
    <3>1. Quiet(read, read)
      BY <1>5 DEF Quiet, Kept, Near, ReadAt
    <3> QED
      BY <1>4, <1>6, <1>8, <3>1
  <2>2. Quiet(tab, tab')
    BY <1>3, <1>5, <2>1, QuietTwice
  <2> QED
    BY <1>1, <2>2, QuietIsStep DEF SyncOwner
<1>9. CASE tab' = d
  <2>1. Kept(tab, d) /\ d.position = Len(View) /\ d.read.at \in {Absent, Travelling}
    BY <1>3, <1>5, <1>7 DEF Quiet, Kept, Near, ReadAt
  <2>2. Follows(d)
    BY <1>1, <1>2, <2>1, ReadFollows DEF Kept
  <2> QED
    BY <1>1, <1>7, <1>9, <2>1, <2>2 DEF QuietStep, SyncOwner
<1> QED
  BY <1>8, <1>9

\* The read after a stop (cancelRun) changes no record, no call and no intent: a quiet step.
LEMMA StopOwnerQuiet == ASSUME IInv, StopOwner PROVE QuietStep
<1>1. tab \in Engine /\ tab.active \in Convs
  BY Awake DEF IInv, TypeOK, StopOwner
<1> DEFINE a == Answered(tab)
           b == [a EXCEPT !.stop = NoStop]
           d == Adopt(b, View)
<1>2. View \in Seq(Event) /\ Len(View) \in Nat /\ Len(View) <= Len(log[tab.active])
  BY <1>1, ViewType DEF StopOwner
<1>3. Quiet(tab, a) /\ a.read.at = Absent
  BY <1>1, AnsweredType, EngineType DEF Answered, NoRead, Absent
<1>4. tab' = a \/ tab' = d
  BY DEF StopOwner
<1> HIDE DEF a
<1>5. Quiet(a, b)
  <2>1. a \in Engine
    BY <1>3 DEF Quiet
  <2>2. b \in Engine
    BY <2>1, EngineType, NoStopType
  <2> QED
    BY <2>1, <2>2, EngineFields DEF Quiet, Kept, Near, ReadAt, EmptyEngine
<1> HIDE DEF b
<1>6. d \in Engine /\ Kept(b, d) /\ ReadAt(b, Len(View), d)
  BY <1>2, <1>5, AdoptType DEF Quiet
<1> HIDE DEF d
<1>7. CASE tab' = a
  BY <1>1, <1>3, <1>7, QuietIsStep DEF StopOwner
<1>8. CASE tab' = d
  <2>1. Kept(tab, d) /\ d.position = Len(View) /\ d.read.at \in {Absent, Travelling}
    BY <1>3, <1>5, <1>6 DEF Quiet, Kept, Near, ReadAt
  <2>2. Follows(d)
    BY <1>1, <1>2, <2>1, ReadFollows DEF Kept
  <2> QED
    BY <1>1, <1>6, <1>8, <2>1, <2>2 DEF QuietStep, StopOwner
<1> QED
  BY <1>4, <1>7, <1>8

\* What a step of the engine on its own does to the fields it may set.
LEMMA Restful ==
    ASSUME NEW e \in Engine, NEW m \in Machine, NEW s \in Streams, NEW c \in Connections, NEW k \in SomeKey,
           NEW b \in BOOLEAN
    PROVE  /\ Quiet(e, [e EXCEPT !.machine = m])
           /\ Quiet(e, [e EXCEPT !.hydrating = b])
           /\ Quiet(e, [e EXCEPT !.recovering = b])
           /\ Quiet(e, [e EXCEPT !.stream = s, !.timer = k, !.connection = c])
<1>1. /\ [e EXCEPT !.machine = m] \in Engine /\ [e EXCEPT !.hydrating = b] \in Engine
      /\ [e EXCEPT !.recovering = b] \in Engine
  BY EngineType
<1>2. [e EXCEPT !.stream = s, !.timer = k, !.connection = c] \in Engine
  BY EngineType
<1> QED
  BY <1>1, <1>2, EngineFields DEF Quiet, Kept, Near, ReadAt, EmptyEngine

\* A hydration that finds the conversation is a quiet step, or applies the receipt set aside.
LEMMA HydrateOwnerStep == ASSUME IInv, HydrateOwner PROVE QuietStep \/ DropStep
<1>1. tab \in Engine /\ tab.active \in Convs
  BY Awake DEF IInv, TypeOK, HydrateOwner
<1>2. View \in Seq(Event) /\ Len(View) \in Nat /\ Len(View) <= Len(log[tab.active])
  BY <1>1, ViewType DEF HydrateOwner
<1> DEFINE recover == tab.read.kind = "recover"
           a == Answered(tab)
           stream == IF recover THEN "closed" ELSE a.stream
           timer == IF recover THEN NoKey ELSE a.timer
           machine == IF recover \/ tab.deferred THEN IdleMachine ELSE a.machine
           read == [a EXCEPT !.position = Len(View), !.stream = stream, !.timer = timer,
                             !.machine = machine]
           o == Observe(read, View)
           h == Reattached(o, View)
           going == IF recover THEN FALSE ELSE h.recovering
           shown == [h EXCEPT !.recovering = going]
           r == Recovered(shown, tab.pending.key \in Terminals(View))
           failed == [shown EXCEPT !.machine = FAIL(tab.retryError)]
           applied == IF tab.deferred THEN r
                      ELSE IF recover /\ HasPending(tab) /\ tab.retryError # "none"
                                      /\ shown.machine.phase = "idle"
                      THEN failed ELSE shown
           x == Expose(applied)
           done == [x EXCEPT !.hydrating = FALSE]
           f == [done EXCEPT !.stream = "closed", !.timer = NoKey, !.connection = "connected"]
<1>3. tab' = Open(done) \/ tab' = f
  BY DEF HydrateOwner
<1>4. Quiet(tab, a) /\ a.read.at = Absent
  BY <1>1, AnsweredType, EngineType DEF Answered, NoRead, Absent
<1>5. tab.retryError \in Errors
  BY <1>1, EngineType
<1> HIDE DEF a
<1>6. a \in Engine /\ stream \in Streams /\ timer \in SomeKey /\ machine \in Machine
  <2>1. a \in Engine
    BY <1>4 DEF Quiet
  <2> QED
    BY <2>1, EngineType, Values, MachineTypes
<1> HIDE DEF stream, timer, machine, recover
<1>7. read \in Engine /\ Kept(a, read) /\ ReadAt(a, Len(View), read)
  <2>1. read \in Engine
    BY <1>2, <1>6, EngineType
  <2> QED
    BY <1>2, <1>6, <2>1, EngineFields DEF Kept, ReadAt, EmptyEngine
<1> HIDE DEF read
<1>8. Quiet(read, o)
  BY <1>2, <1>7, ObserveType
<1> HIDE DEF o
<1>9. Quiet(o, h)
  BY <1>2, <1>8, ReattachedType DEF Quiet
<1> HIDE DEF h
<1>10. Quiet(h, shown)
  <2>1. h \in Engine /\ going \in BOOLEAN
    <3>1. h \in Engine
      BY <1>9 DEF Quiet
    <3> QED
      BY <3>1, EngineType
  <2> HIDE DEF going
  <2> QED
    BY <2>1, Restful, Values, MachineTypes
<1> HIDE DEF shown
<1>11. /\ shown \in Engine /\ Kept(tab, shown) /\ shown.position = Len(View)
       /\ shown.read.at \in {Absent, Travelling}
  BY <1>4, <1>7, <1>8, <1>9, <1>10 DEF Quiet, Kept, Near, ReadAt
<1>12. Quiet(shown, failed) /\ Quiet(shown, shown)
  <2>1. FAIL(tab.retryError) \in Machine
    BY <1>5, MachineTypes
  <2>2. Quiet(shown, failed)
    BY <1>11, <2>1, Restful, Values
  <2>3. Quiet(shown, shown)
    BY <1>11 DEF Quiet, Kept, Near, ReadAt
  <2> QED
    BY <2>2, <2>3
<1>13. /\ applied \in Engine /\ applied.position = Len(View) /\ applied.read.at \in {Absent, Travelling}
       /\ IF tab.deferred THEN Parted(tab, applied) ELSE Kept(tab, applied)
  <2>1. CASE tab.deferred
    <3>1. HasPending(tab)
      BY <2>1 DEF IInv, Held
    <3>2. HasPending(shown)
      BY <1>11, <3>1 DEF HasPending, Kept
    <3>3. Dropped(shown, r)
      <4>1. (tab.pending.key \in Terminals(View)) \in BOOLEAN
        OBVIOUS
      <4> QED
        BY <1>11, <3>2, <4>1, RecoveredType
    <3> HIDE DEF r
    <3> QED
      BY <1>11, <2>1, <3>3 DEF Dropped, Parted, Near, ReadAt, Kept
  <2>2. CASE ~tab.deferred
    <3> HIDE DEF failed
    <3> QED
      BY <1>11, <1>12, <2>2 DEF Quiet, Kept, Near, ReadAt
  <2> QED
    BY <2>1, <2>2
<1> HIDE DEF applied
<1>14. Quiet(applied, x)
  BY <1>13, ExposeType
<1> HIDE DEF x
<1>15. Quiet(x, done)
  BY <1>14, Restful, Values, MachineTypes DEF Quiet
<1> HIDE DEF done
<1>16. Quiet(done, f) /\ Quiet(done, Open(done))
  BY <1>15, Restful, Values, MachineTypes, OpenType DEF Quiet
<1> HIDE DEF f
<1>17. Quiet(applied, tab')
  BY <1>3, <1>14, <1>15, <1>16, QuietTwice
<1>18. /\ tab' \in Engine /\ tab'.position = Len(View) /\ tab'.read.at \in {Absent, Travelling}
       /\ IF tab.deferred THEN Parted(tab, tab') ELSE Kept(tab, tab')
  BY <1>13, <1>17 DEF Quiet, Kept, Near, ReadAt, Parted
<1>19. tab'.active = tab.active
  BY <1>18 DEF Parted, Kept
<1>20. Follows(tab')
  BY <1>1, <1>2, <1>18, <1>19, ReadFollows
<1> QED
  BY <1>1, <1>18, <1>20 DEF QuietStep, DropStep, HydrateOwner

\* A view of conversation c opens over the same slots.
ShowStep ==
    /\ tab'.active \in Convs /\ tab' \in Engine
    /\ Follows(tab') /\ Listed(tab')
    /\ tab'.prepared = NoKey /\ ~tab'.deferred /\ tab'.unsaved \subseteq tab.unsaved
    /\ \/ tab'.pending = NoPending
       \/ /\ ~tab'.broken /\ slot[tab'.active].state = "pending"
          /\ tab'.pending = [key |-> slot[tab'.active].key, id |-> 0]
    /\ UNCHANGED <<slot, serverVars, past>>

\* A view that starts over follows the ledger.
LEMMA FreshFollows ==
    ASSUME IInv, NEW f, f.active \in Convs, f.position = 0, f.read.at \in {Absent, Travelling}
    PROVE  Follows(f)
<1>1. Len(log[f.active]) \in Nat
  BY LogLength
<1> QED
  BY <1>1 DEF Follows, Absent, Travelling

\* Selecting a conversation shows it with the pending record of it, and changes no record.
LEMMA SelectShow ==
    ASSUME IInv, NEW c \in Convs, Select(c)
    PROVE  ShowStep /\ tab'.unsaved = tab.unsaved /\ UNCHANGED calls
<1>1. PICK works \in BOOLEAN : tab' = Activate(tab, c, TRUE, works)
  BY DEF Select, Works
<1>2. Shows(tab, c, tab')
  BY <1>1, ActivateType DEF IInv, TypeOK
<1> QED
  BY <1>2, FreshFollows DEF ShowStep, Shows, Select, Listed, IInv

\* evictActiveConversation shows another conversation with the pending record of it, or none.
LEMMA EvictType ==
    ASSUME IInv, NEW e \in Engine, e.active \in Convs, Listed(e),
           NEW c \in EvictTargets(e), NEW works \in BOOLEAN
    PROVE  LET f == Evict(e, c, works) IN
           /\ c \in Convs /\ c # e.active /\ Listed(f)
           /\ f \in Engine /\ f.position = 0 /\ f.read.at \in {Absent, Travelling}
           /\ f.active = c /\ f.prepared = NoKey /\ ~f.deferred /\ f.unsaved = e.unsaved
           /\ \/ f.pending = NoPending
              \/ ~f.broken /\ slot[c].state = "pending" /\ f.pending = [key |-> slot[c].key, id |-> 0]
<1> DEFINE list == (e.list \ {e.active}) \cup {c}
           drafts == e.drafts \ {e.active}
           drawn == e.drawn \cup {c}
           left == [e EXCEPT !.list = list, !.drafts = drafts, !.drawn = drawn]
           f == Evict(e, c, works)
<1>1. e.list \in ConvSets /\ e.drafts \in ConvSets /\ e.drawn \in ConvSets
  BY EngineType
<1>2. c \in Convs /\ c # e.active
  BY <1>1 DEF EvictTargets, FreshConvs, ConvSets, Listed
<1>3. list \in ConvSets /\ drafts \in ConvSets /\ drawn \in ConvSets
  BY <1>1, <1>2 DEF ConvSets
<1> HIDE DEF list, drafts, drawn
<1>4. left \in Engine
  BY <1>3, EngineType
<1>5. left.unsaved = e.unsaved /\ left.list = list /\ left.drawn = drawn
  BY <1>4, EngineFields DEF EmptyEngine
<1>6. f = Activate(left, c, c \in e.list, works)
  BY DEF Evict, list, drafts, drawn
<1>7. slot \in [Convs -> Slot] /\ (c \in e.list) \in BOOLEAN
  BY DEF IInv, TypeOK
<1> HIDE DEF left, f
<1>8. Shows(left, c, f)
  BY <1>2, <1>4, <1>6, <1>7, ActivateType
<1>9. list \subseteq drawn /\ c \in drawn
  BY DEF list, drawn, Listed
<1> QED
  BY <1>2, <1>5, <1>8, <1>9 DEF Shows, f, Listed

\* A conversation of somebody else gives way to another; no record changes.
LEMMA HydrateForbiddenShow ==
    ASSUME IInv, HydrateForbidden
    PROVE  ShowStep /\ tab'.unsaved = tab.unsaved /\ UNCHANGED calls
<1>1. tab \in Engine /\ tab.active \in Convs
  BY Awake DEF IInv, TypeOK, HydrateForbidden
<1>2. Quiet(tab, Answered(tab))
  BY <1>1, AnsweredType
<1>3. PICK works \in BOOLEAN, c \in EvictTargets(tab) : tab' = Evict(Answered(tab), c, works)
  BY DEF HydrateForbidden, Works
<1>4. c \in EvictTargets(Answered(tab))
  BY <1>2, <1>3 DEF Quiet, Kept, EvictTargets, FreshConvs
<1>5. /\ Answered(tab) \in Engine /\ Answered(tab).unsaved = tab.unsaved
      /\ Answered(tab).active \in Convs /\ Listed(Answered(tab))
  BY <1>1, <1>2 DEF Quiet, Kept, Listed, IInv
<1>6. /\ c \in Convs /\ Listed(tab') /\ tab' \in Engine /\ tab'.position = 0 /\ tab'.read.at \in {Absent, Travelling}
      /\ tab'.active = c /\ tab'.prepared = NoKey /\ ~tab'.deferred
      /\ tab'.unsaved = Answered(tab).unsaved
      /\ \/ tab'.pending = NoPending
         \/ /\ ~tab'.broken /\ slot[c].state = "pending"
            /\ tab'.pending = [key |-> slot[c].key, id |-> 0]
  BY <1>3, <1>4, <1>5, EvictType
<1>7. Follows(tab')
  BY <1>6, FreshFollows
<1> QED
  BY <1>5, <1>6, <1>7 DEF ShowStep, HydrateForbidden

\* A new engine shows its conversation with what the storage holds, and remembers nothing.
LEMMA RestartShow ==
    ASSUME IInv, NEW owner, Restart(owner)
    PROVE  ShowStep /\ tab'.unsaved = {}
<1> DEFINE e == [tab EXCEPT !.unsaved = {}]
<1>1. tab \in Engine /\ tab.active \in Convs
  <2>1. tab \in Engine /\ tab.active # NoConv
    BY DEF IInv, TypeOK, Restart
  <2> QED
    BY <2>1, EngineType DEF SomeConv
<1>2. e \in Engine /\ e.unsaved = {} /\ Listed(e) /\ e.active = tab.active
  BY <1>1, EngineType, Values DEF IInv, Listed
<1>3. PICK works \in BOOLEAN : tab' = Activate(e, tab.active, TRUE, works)
  BY DEF Restart, Works
<1> HIDE DEF e
<1>4. Shows(e, tab.active, tab')
  BY <1>1, <1>2, <1>3, ActivateType DEF IInv, TypeOK
<1> QED
  BY <1>1, <1>2, <1>4, FreshFollows DEF ShowStep, Shows, Restart, Listed

\* The user's reconnect is a quiet step, or shows the same conversation anew.
LEMMA ReconnectStep ==
    ASSUME IInv, Reconnect
    PROVE  QuietStep \/ (tab.broken /\ ShowStep /\ tab'.unsaved = tab.unsaved /\ UNCHANGED calls)
<1>1. tab \in Engine /\ tab.active \in Convs
  BY Awake DEF IInv, TypeOK, Reconnect
<1>2. CASE tab.broken
  <2> DEFINE b == [tab EXCEPT !.connection = "connected", !.machine = IdleMachine,
                              !.pending = NoPending]
  <2>1. PICK works \in BOOLEAN :
           LET restored == RestoreSubmission(b, works)
           IN tab' = IF restored.broken THEN restored ELSE Hydrate(restored, "hydrate")
    BY <1>2 DEF Reconnect, Works
  <2>2. b \in Engine
    BY <1>1, EngineType, Values, MachineTypes, NoPendingType
  <2>3. b.list = tab.list /\ b.drawn = tab.drawn /\ b.active = tab.active /\ b.pending = NoPending /\ b.prepared = tab.prepared
        /\ b.deferred = tab.deferred /\ b.unsaved = tab.unsaved /\ Near(tab, b)
    BY <1>1, <2>2, EngineFields DEF EmptyEngine, Near, ReadAt
  <2> HIDE DEF b
  <2> DEFINE r == RestoreSubmission(b, works)
  <2>4. Rested(b, r)
    BY <1>1, <2>2, <2>3, RestoreType DEF IInv, TypeOK
  <2>5. tab' = r \/ tab' = Hydrate(r, "hydrate")
    BY <2>1
  <2> HIDE DEF r
  <2>6. Quiet(r, r) /\ Quiet(r, Hydrate(r, "hydrate"))
    BY <2>4, HydrateType DEF Rested, Quiet, Kept, Near, ReadAt
  <2>7. Quiet(r, tab')
    BY <2>5, <2>6
  <2>8. ~HasPending(tab) /\ tab.prepared = NoKey /\ ~tab.deferred
    BY <1>2 DEF IInv, Held
  <2>9. /\ tab' \in Engine /\ tab'.active = tab.active /\ Near(tab, tab')
        /\ tab'.list = tab.list /\ tab'.drawn = tab.drawn
        /\ tab'.prepared = NoKey /\ ~tab'.deferred /\ tab'.unsaved = tab.unsaved
        /\ \/ tab'.pending = NoPending
           \/ /\ ~tab'.broken /\ slot[tab.active].state = "pending"
              /\ tab'.pending = [key |-> slot[tab.active].key, id |-> 0]
    BY <2>3, <2>4, <2>7, <2>8 DEF Quiet, Kept, Near, ReadAt, Rested
  <2>10. Follows(tab')
    BY <1>1, <2>9, NearFollows
  <2> QED
    BY <1>1, <1>2, <2>9, <2>10 DEF ShowStep, Reconnect, Listed, IInv
<1>3. CASE ~tab.broken
  <2> DEFINE error == IF HasPending(tab) /\ tab.machine.phase = "error" THEN tab.machine.error ELSE "none"
             g == [tab EXCEPT !.recovering = TRUE, !.connection = "reconnecting", !.stream = "closed",
                              !.timer = NoKey, !.retryError = error]
  <2>1. tab' = Hydrate(g, "recover")
    BY <1>3 DEF Reconnect
  <2>2. error \in Errors
    BY <1>1, EngineType, Values DEF Machine
  <2> HIDE DEF error
  <2>3. Quiet(tab, g)
    <3>1. g \in Engine
      BY <1>1, <2>2, EngineType, Values
    <3> QED
      BY <1>1, <3>1, EngineFields DEF Quiet, Kept, Near, ReadAt, EmptyEngine
  <2> HIDE DEF g
  <2>4. Quiet(g, tab')
    BY <2>1, <2>3, HydrateType DEF Quiet
  <2>5. Quiet(tab, tab')
    BY <2>3, <2>4, QuietTwice
  <2> QED
    BY <1>1, <2>5, QuietIsStep DEF Reconnect
<1> QED
  BY <1>2, <1>3

\* The fields the invariant speaks of, but for the ones that change.
Home(e, f) ==
    /\ f \in Engine /\ f.active = e.active /\ f.broken = e.broken
    /\ f.list = e.list /\ f.drawn = e.drawn

\* A key that is not NoKey is a key.
LEMMA SomeKeyIs == ASSUME NEW k \in SomeKey, k # NoKey PROVE k \in Keys
  BY DEF SomeKey

\* beginRun, up to its await, holds the message it sends as the intent.
LEMMA BegunType ==
    ASSUME NEW e \in Engine, NEW k \in Keys, Len(calls) \in Nat, Len(calls) < MaxCalls
    PROVE  LET f == Begun(e, k) IN
           /\ Home(e, f) /\ Near(e, f) /\ f.drafts = e.drafts /\ f.unsaved = e.unsaved
           /\ f.pending = [key |-> k, id |-> Len(calls) + 1] /\ f.prepared = NoKey /\ ~f.deferred
<1> DEFINE p == [key |-> k, id |-> Len(calls) + 1]
           m == SUBMIT(e.machine)
           f == Begun(e, k)
<1>1. p \in PendingType
  BY ChatAssumption DEF PendingType
<1>2. m \in Machine
  <2>1. e.machine \in Machine
    BY EngineType
  <2> QED
    BY <2>1, MachineSteps
<1>3. f = [e EXCEPT !.pending = p, !.prepared = NoKey, !.deferred = FALSE, !.retryError = "none",
                    !.machine = m]
  BY DEF Begun
<1> HIDE DEF p, m, f
<1>4. f \in Engine
  BY <1>1, <1>2, <1>3, EngineType, Values
<1>5. Home(e, f) /\ Near(e, f) /\ f.drafts = e.drafts /\ f.unsaved = e.unsaved
      /\ f.pending = p /\ f.prepared = NoKey /\ ~f.deferred
  BY <1>3, <1>4, EngineFields DEF Home, Near, ReadAt, EmptyEngine
<1> QED
  BY <1>5 DEF p, f

\* A call is added behind the calls made before it, which stay as they are.
LEMMA NewCallType ==
    ASSUME calls \in Seq(Call), NEW k \in Keys, NEW c \in Convs, NEW kind \in {"create", "steer"}
    PROVE  /\ NewCall(k, c, kind) \in Seq(Call)
           /\ Len(NewCall(k, c, kind)) = Len(calls) + 1
           /\ DOMAIN NewCall(k, c, kind) = DOMAIN calls \cup {Len(calls) + 1}
           /\ \A i \in DOMAIN calls : NewCall(k, c, kind)[i] = calls[i]
           /\ NewCall(k, c, kind)[Len(calls) + 1] =
                [key |-> k, conv |-> c, kind |-> kind, status |-> "sent", owner |-> "engine",
                 doomed |-> FALSE]
           /\ Len(calls) + 1 \notin DOMAIN calls
<1> DEFINE call == [key |-> k, conv |-> c, kind |-> kind, status |-> "sent", owner |-> "engine",
                    doomed |-> FALSE]
<1>1. call \in Call
  BY DEF Call
<1>2. NewCall(k, c, kind) = Append(calls, call)
  BY DEF NewCall
<1> HIDE DEF call
<1>3. Len(calls) \in Nat /\ DOMAIN calls = 1..Len(calls)
  BY SeqFacts
<1>4. /\ Append(calls, call) \in Seq(Call) /\ Len(Append(calls, call)) = Len(calls) + 1
      /\ \A i \in 1..Len(calls) : Append(calls, call)[i] = calls[i]
      /\ Append(calls, call)[Len(calls) + 1] = call
  BY <1>1, AppendProperties
<1>5. DOMAIN Append(calls, call) = 1..(Len(calls) + 1)
  BY <1>4, SeqFacts
<1>6. 1..(Len(calls) + 1) = (1..Len(calls)) \cup {Len(calls) + 1} /\ Len(calls) + 1 \notin 1..Len(calls)
  BY <1>3
<1> QED
  BY <1>2, <1>3, <1>4, <1>5, <1>6 DEF call

\* submit, with what it wrote (saved) and sent (posted).
SubmitStep(c, k, saved, posted) ==
    /\ Len(calls) < MaxCalls /\ ~HasPending(tab) /\ ~tab.broken
    /\ tab.active \in {c, NoConv}
    /\ IF tab.prepared # NoKey THEN k = tab.prepared ELSE past.home[k] = NoConv
    /\ posted => saved
    /\ saved => CanSave(Flushed(tab, slot)[c], k, TRUE)
    /\ slot' = IF saved THEN [Flushed(tab, slot) EXCEPT ![c] = Saved(@, k)] ELSE Flushed(tab, slot)
    /\ past' = [past EXCEPT !.home[k] = c, !.saved = IF saved THEN @ \cup {k} ELSE @]
    /\ calls' = IF posted THEN NewCall(k, c, "create") ELSE calls
    /\ tab' \in Engine /\ tab'.active = c /\ tab'.unsaved = {} /\ ~tab'.broken
    /\ Follows(tab') /\ Listed(tab')
    /\ IF posted THEN tab'.pending.key = k /\ tab'.prepared = NoKey /\ ~tab'.deferred
       ELSE tab'.pending = tab.pending /\ tab'.prepared = k /\ tab'.deferred = tab.deferred
    /\ UNCHANGED serverVars

\* What sending a message (submit) does to the records, the calls and the intent held.
LEMMA SubmitFoot ==
    ASSUME IInv, NEW c \in Convs, NEW k \in Keys, Submit(c, k)
    PROVE  \E saved, posted \in BOOLEAN : SubmitStep(c, k, saved, posted)
<1>1. PICK flushes \in BOOLEAN, saves \in BOOLEAN, retires \in BOOLEAN :
        LET flushed == Flushed(tab, slot)
            opened == IF tab.active # NoConv THEN [tab EXCEPT !.unsaved = {}, !.prepared = k]
                      ELSE [tab EXCEPT !.unsaved = {}, !.prepared = k, !.active = c, !.list = {c},
                                       !.drafts = {c}, !.drawn = @ \cup {c}]
            isSaved == CanSave(flushed[c], k, saves)
            retired == c \in opened.drafts => retires
        IN /\ tab.unsaved # {} => flushes
           /\ slot' = IF isSaved THEN [flushed EXCEPT ![c] = Saved(@, k)] ELSE flushed
           /\ past' = [past EXCEPT !.home[k] = c, !.saved = IF isSaved THEN @ \cup {k} ELSE @]
           /\ IF isSaved /\ retired
              THEN /\ tab' = Begun(Touch([opened EXCEPT !.drafts = @ \ {c}]), k)
                   /\ calls' = NewCall(k, c, "create")
              ELSE /\ tab' = opened
                   /\ UNCHANGED calls
  BY DEF Submit, Works
<1> DEFINE drawn == tab.drawn \cup {c}
           opened == IF tab.active # NoConv THEN [tab EXCEPT !.unsaved = {}, !.prepared = k]
                     ELSE [tab EXCEPT !.unsaved = {}, !.prepared = k, !.active = c, !.list = {c},
                                      !.drafts = {c}, !.drawn = drawn]
           isSaved == CanSave(Flushed(tab, slot)[c], k, saves)
           retired == c \in opened.drafts => retires
           posted == isSaved /\ retired
           drafts == opened.drafts \ {c}
           o == [opened EXCEPT !.drafts = drafts]
           t == Touch(o)
           b == Begun(t, k)
<1>2. tab \in Engine /\ Len(calls) \in Nat /\ Len(calls) < MaxCalls
  BY SeqFacts DEF IInv, TypeOK, Submit
<1>3. ~HasPending(tab) /\ ~tab.broken /\ tab.active \in {c, NoConv}
      /\ (IF tab.prepared # NoKey THEN k = tab.prepared ELSE past.home[k] = NoConv)
  BY DEF Submit, CanSubmitMessage, Resting, FreshKeys
<1>4. drawn \in ConvSets /\ {c} \in ConvSets /\ k \in SomeKey /\ c \in SomeConv
  <2>1. tab.drawn \in ConvSets
    BY <1>2, EngineType
  <2> QED
    BY <2>1, ConvSetType, Values
<1>5. /\ slot' = IF isSaved THEN [Flushed(tab, slot) EXCEPT ![c] = Saved(@, k)] ELSE Flushed(tab, slot)
      /\ past' = [past EXCEPT !.home[k] = c, !.saved = IF isSaved THEN @ \cup {k} ELSE @]
      /\ IF posted THEN tab' = b /\ calls' = NewCall(k, c, "create")
         ELSE tab' = opened /\ UNCHANGED calls
  <2> HIDE DEF opened
  <2> QED
    BY <1>1 DEF opened
<1> HIDE DEF drawn
<1>6. /\ opened \in Engine /\ opened.active = c /\ opened.unsaved = {} /\ opened.prepared = k
      /\ opened.pending = tab.pending /\ opened.deferred = tab.deferred /\ ~opened.broken
      /\ Near(tab, opened)
      /\ IF tab.active # NoConv THEN opened.list = tab.list /\ opened.drawn = tab.drawn
         ELSE opened.list = {c} /\ opened.drawn = drawn
  <2>1. opened \in Engine
    BY <1>2, <1>4, EngineType, Values
  <2> QED
    BY <1>2, <1>3, <2>1, EngineFields DEF EmptyEngine, Near, ReadAt
<1>7. Listed(opened)
  BY <1>3, <1>6 DEF IInv, Listed, drawn
<1>8. Follows(opened)
  <2>1. CASE tab.active # NoConv
    BY <1>3, <1>6, <2>1, NearFollows
  <2>2. CASE tab.active = NoConv
    <3>1. tab.position = 0 /\ tab.read.at = Absent
      BY <2>2 DEF IInv, Blank, EmptyEngine, NoRead, Absent
    <3> QED
      BY <1>6, <3>1, FreshFollows DEF Near, ReadAt
  <2> QED
    BY <2>1, <2>2
<1> HIDE DEF opened
<1>9. /\ o \in Engine /\ o.active = opened.active /\ o.broken = opened.broken /\ o.list = opened.list
      /\ o.drawn = opened.drawn /\ o.unsaved = opened.unsaved /\ Near(opened, o)
  <2>1. drafts \in ConvSets
    BY <1>6, EngineType DEF ConvSets
  <2> HIDE DEF drafts
  <2>2. o \in Engine
    BY <1>6, <2>1, EngineType
  <2> QED
    BY <1>6, <2>2, EngineFields DEF EmptyEngine, Near, ReadAt
<1> HIDE DEF o
<1>10. Quiet(o, t)
  BY <1>9, TouchType
<1> HIDE DEF t
<1>11. /\ Home(t, b) /\ Near(t, b) /\ b.unsaved = t.unsaved
       /\ b.pending = [key |-> k, id |-> Len(calls) + 1] /\ b.prepared = NoKey /\ ~b.deferred
  BY <1>2, <1>10, BegunType DEF Quiet
<1> HIDE DEF b
<1>12. /\ b \in Engine /\ b.active = c /\ b.unsaved = {} /\ ~b.broken /\ b.pending.key = k
       /\ b.prepared = NoKey /\ ~b.deferred /\ Near(opened, b) /\ Listed(b)
  BY <1>6, <1>7, <1>9, <1>10, <1>11 DEF Home, Quiet, Kept, Near, ReadAt, Listed
<1>13. Follows(b)
  <2>1. Len(log[c]) \in Nat
    BY LogLength
  <2>2. b.position = opened.position /\ b.read.at \in {opened.read.at, 0, -1}
    BY <1>12 DEF Near, ReadAt, Absent, Travelling
  <2>3. opened.position <= Len(log[c]) /\ opened.read.at <= Len(log[c])
    BY <1>6, <1>8 DEF Follows
  <2> QED
    BY <1>12, <2>1, <2>2, <2>3 DEF Follows
<1>14. isSaved => CanSave(Flushed(tab, slot)[c], k, TRUE)
  BY DEF CanSave
<1>15. isSaved \in BOOLEAN /\ posted \in BOOLEAN
  BY DEF CanSave
<1>16. UNCHANGED serverVars
  BY DEF Submit
<1> DEFINE saved == isSaved
           sent == posted
<1>17. saved \in BOOLEAN /\ sent \in BOOLEAN /\ (sent => saved)
  BY <1>15
<1>18. SubmitStep(c, k, saved, sent)
  <2> HIDE DEF isSaved, retired
  <2> QED
    BY <1>2, <1>3, <1>5, <1>6, <1>7, <1>8, <1>12, <1>13, <1>14, <1>16 DEF SubmitStep
<1> HIDE DEF saved, sent
<1> QED
  BY <1>17, <1>18

SteerStep(k) ==
    /\ Len(calls) < MaxCalls /\ tab.active \in Convs /\ past.home[k] = NoConv
    /\ Home(tab, tab') /\ tab'.pending = tab.pending /\ tab'.prepared = tab.prepared
    /\ tab'.deferred = tab.deferred /\ tab'.unsaved = {} /\ Follows(tab')
    /\ slot' = Flushed(tab, slot)
    /\ calls' = NewCall(k, tab.active, "steer")
    /\ past' = [past EXCEPT !.home[k] = tab.active]
    /\ UNCHANGED serverVars

\* What sending a message during a run (submit, run shown) does to the records, the calls and the
\* intent held.
LEMMA SteerFoot == ASSUME IInv, NEW k \in Keys, Steer(k) PROVE SteerStep(k)
<1> DEFINE steers == tab.steers \cup {k}
           drafts == tab.drafts \ {tab.active}
           e == [tab EXCEPT !.unsaved = {}, !.steers = steers, !.drafts = drafts]
<1>1. tab \in Engine /\ tab.active \in Convs
  BY Awake DEF IInv, TypeOK, Steer, Resting
<1>2. steers \in KeySets /\ drafts \in ConvSets
  BY <1>1, EngineType DEF KeySets, ConvSets
<1>3. tab' = Touch(e)
  BY DEF Steer
<1> HIDE DEF steers, drafts
<1>4. e \in Engine
  BY <1>1, <1>2, EngineType, Values
<1>5. /\ Home(tab, e) /\ Near(tab, e) /\ e.pending = tab.pending /\ e.prepared = tab.prepared
      /\ e.deferred = tab.deferred /\ e.unsaved = {}
  BY <1>1, <1>4, EngineFields DEF Home, Near, ReadAt, EmptyEngine
<1> HIDE DEF e
<1>6. Quiet(e, tab')
  BY <1>3, <1>4, TouchType
<1>7. /\ Home(tab, tab') /\ Near(tab, tab') /\ tab'.pending = tab.pending /\ tab'.prepared = tab.prepared
      /\ tab'.deferred = tab.deferred /\ tab'.unsaved = {}
  BY <1>5, <1>6 DEF Quiet, Kept, Home, Near, ReadAt
<1>8. Follows(tab')
  BY <1>1, <1>7, NearFollows DEF Home
<1> QED
  BY <1>1, <1>7, <1>8 DEF SteerStep, Steer, FreshKeys

RetryKnownStep ==
    /\ tab.active \in Convs /\ HasPending(tab) /\ KnownReceipt(tab)
    /\ Home(tab, tab') /\ Follows(tab')
    /\ tab'.pending = NoPending /\ tab'.prepared = NoKey /\ ~tab'.deferred
    /\ tab'.unsaved = tab.unsaved \ {tab.pending.key}
    /\ slot' = [slot EXCEPT ![tab.active] = Acknowledged(@, tab.pending.key)]
    /\ UNCHANGED <<calls, serverVars, past>>

\* What the retry of a message whose receipt is known (reconcileKnownReceipt) does to the records,
\* the calls and the intent held.
LEMMA RetryKnownFoot == ASSUME IInv, RetryKnown PROVE RetryKnownStep
<1> DEFINE t == Touch(tab)
           f == Forgotten(t)
           unsaved == f.unsaved \ {tab.pending.key}
           e == [f EXCEPT !.unsaved = unsaved, !.machine = IdleMachine]
<1>1. tab \in Engine /\ tab.active \in Convs /\ HasPending(tab)
  BY Awake DEF IInv, TypeOK, RetryKnown, CanRetryPending
<1>2. tab' = Hydrate(e, "hydrate")
  BY DEF RetryKnown
<1>3. Quiet(tab, t)
  BY <1>1, TouchType
<1> HIDE DEF t
<1>4. Dropped(t, f) /\ f.prepared = NoKey
  BY <1>3, ForgottenType DEF Quiet
<1> HIDE DEF f
<1>5. f \in Engine /\ unsaved \in KeySets
  <2>1. f \in Engine
    BY <1>4 DEF Dropped
  <2> QED
    BY <2>1, EngineType DEF KeySets
<1>6. f.unsaved = tab.unsaved
  BY <1>3, <1>4 DEF Quiet, Kept, Dropped, Parted
<1> DEFINE u == unsaved
<1>7. u = tab.unsaved \ {tab.pending.key} /\ u \in KeySets /\ e = [f EXCEPT !.unsaved = u, !.machine = IdleMachine]
  BY <1>5, <1>6
<1> HIDE DEF u, e
<1>8. e \in Engine
  BY <1>5, <1>7, EngineType, MachineTypes
<1>9. /\ Home(f, e) /\ Near(f, e) /\ e.pending = f.pending /\ e.prepared = f.prepared
      /\ e.deferred = f.deferred /\ e.unsaved = u
  BY <1>5, <1>7, <1>8, EngineFields DEF Home, Near, ReadAt, EmptyEngine
<1>10. Quiet(e, tab')
  BY <1>2, <1>8, HydrateType
<1>11. /\ Home(tab, tab') /\ Near(tab, tab') /\ tab'.pending = NoPending /\ tab'.prepared = NoKey
       /\ ~tab'.deferred /\ tab'.unsaved = u
  BY <1>3, <1>4, <1>9, <1>10 DEF Quiet, Kept, Home, Near, ReadAt, Dropped, Parted
<1>12. Follows(tab')
  BY <1>1, <1>11, NearFollows DEF Home
<1> QED
  BY <1>1, <1>7, <1>11, <1>12 DEF RetryKnownStep, RetryKnown

RetryStep ==
    /\ Len(calls) < MaxCalls /\ tab.active \in Convs /\ HasPending(tab) /\ ~KnownReceipt(tab)
    /\ CanSave(slot[tab.active], tab.pending.key, TRUE)
    /\ Home(tab, tab') /\ Follows(tab') /\ tab'.unsaved = tab.unsaved
    /\ tab'.pending.key = tab.pending.key /\ tab'.prepared = NoKey /\ ~tab'.deferred
    /\ slot' = [slot EXCEPT ![tab.active] = Saved(@, tab.pending.key)]
    /\ calls' = NewCall(tab.pending.key, tab.active, "create")
    /\ past' = [past EXCEPT !.saved = @ \cup {tab.pending.key}]
    /\ UNCHANGED serverVars

\* A submission that is held has a key.
LEMMA PendingKey ==
    ASSUME NEW e \in Engine, HasPending(e)
    PROVE  e.pending.key \in Keys
<1>1. e.pending.key \in SomeKey
  BY EngineType DEF PendingType, SomeKey
<1> QED
  BY <1>1, SomeKeyIs DEF HasPending

\* What posting a message again (retry) does to the records, the calls and the intent held.
LEMMA RetryFoot == ASSUME IInv, Retry PROVE RetryStep
<1> DEFINE drafts == tab.drafts \ {tab.active}
           e == [tab EXCEPT !.drafts = drafts]
<1>1. /\ tab \in Engine /\ tab.active \in Convs /\ HasPending(tab)
      /\ Len(calls) \in Nat /\ Len(calls) < MaxCalls
  BY Awake, SeqFacts DEF IInv, TypeOK, Retry, CanRetryPending
<1>2. tab.pending.key \in Keys
  BY <1>1, PendingKey
<1>3. tab' = Begun(e, tab.pending.key)
  BY DEF Retry
<1>4. e \in Engine /\ Home(tab, e) /\ Near(tab, e) /\ e.unsaved = tab.unsaved
  <2>1. drafts \in ConvSets
    BY <1>1, EngineType DEF ConvSets
  <2> HIDE DEF drafts
  <2>2. e \in Engine
    BY <1>1, <2>1, EngineType
  <2> QED
    BY <1>1, <2>2, EngineFields DEF Home, Near, ReadAt, EmptyEngine
<1> HIDE DEF e
<1>5. /\ Home(e, tab') /\ Near(e, tab') /\ tab'.unsaved = e.unsaved
      /\ tab'.pending = [key |-> tab.pending.key, id |-> Len(calls) + 1]
      /\ tab'.prepared = NoKey /\ ~tab'.deferred
  BY <1>1, <1>2, <1>3, <1>4, BegunType
<1>6. Home(tab, tab') /\ Near(tab, tab') /\ tab'.unsaved = tab.unsaved
  BY <1>4, <1>5 DEF Home, Near, ReadAt
<1>7. Follows(tab')
  BY <1>1, <1>6, NearFollows DEF Home
<1>8. tab'.pending.key = tab.pending.key /\ tab'.prepared = NoKey /\ ~tab'.deferred
  BY <1>5
<1>9. /\ ~KnownReceipt(tab) /\ CanSave(slot[tab.active], tab.pending.key, TRUE)
      /\ slot' = [slot EXCEPT ![tab.active] = Saved(@, tab.pending.key)]
      /\ calls' = NewCall(tab.pending.key, tab.active, "create")
      /\ past' = [past EXCEPT !.saved = @ \cup {tab.pending.key}]
      /\ UNCHANGED serverVars
  BY DEF Retry
<1> QED
  BY <1>1, <1>6, <1>7, <1>8, <1>9 DEF RetryStep

StopSubmissionStep ==
    /\ tab.active \in Convs /\ HasPending(tab)
    /\ (\E works \in BOOLEAN : AbandonWorks(tab, works)) /\ AbandonRecords(tab)
    /\ Home(tab, tab') /\ Follows(tab') /\ tab'.unsaved = tab.unsaved
    /\ tab'.pending = NoPending /\ tab'.prepared = NoKey /\ ~tab'.deferred
    /\ UNCHANGED serverVars

\* What giving a message up before its receipt (cancelPendingSubmission) does to the records, the
\* calls and the intent held.
LEMMA StopSubmissionFoot == ASSUME IInv, StopSubmission PROVE StopSubmissionStep
<1> DEFINE f == Forgotten(tab)
<1>1. tab \in Engine /\ tab.active \in Convs /\ HasPending(tab)
  BY Awake DEF IInv, TypeOK, StopSubmission
<1>2. tab' = [f EXCEPT !.machine = IdleMachine]
  BY DEF StopSubmission
<1>3. Dropped(tab, f) /\ f.prepared = NoKey
  BY <1>1, ForgottenType
<1> HIDE DEF f
<1>4. Quiet(f, tab')
  BY <1>2, <1>3, Restful, MachineTypes, Values DEF Dropped
<1>5. /\ Home(tab, tab') /\ Near(tab, tab') /\ tab'.unsaved = tab.unsaved
      /\ tab'.pending = NoPending /\ tab'.prepared = NoKey /\ ~tab'.deferred
  BY <1>3, <1>4 DEF Quiet, Kept, Home, Near, ReadAt, Dropped, Parted
<1>6. Follows(tab')
  BY <1>1, <1>5, NearFollows DEF Home
<1> QED
  BY <1>1, <1>5, <1>6 DEF StopSubmissionStep, StopSubmission, Works

NewStep ==
    /\ (\E works \in BOOLEAN : AbandonWorks(tab, works)) /\ AbandonRecords(tab)
    /\ tab' \in Engine /\ tab'.active \in Convs /\ Follows(tab') /\ Listed(tab')
    /\ tab'.unsaved = tab.unsaved /\ ~tab'.broken
    /\ tab'.pending = NoPending /\ tab'.prepared = NoKey /\ ~tab'.deferred
    /\ UNCHANGED serverVars

\* What opening a conversation of one's own (newConversation) does to the records, the calls and
\* the intent held.
LEMMA NewFoot == ASSUME IInv, NEW c \in Convs, New(c) PROVE NewStep
<1> DEFINE f == Forgotten(tab)
           g == Cleared(f)
           list == g.list \cup {c}
           drafts == g.drafts \cup {c}
           drawn == g.drawn \cup {c}
           h == [g EXCEPT !.active = c, !.list = list, !.drafts = drafts, !.drawn = drawn]
<1>1. tab \in Engine /\ ~tab.broken /\ Listed(tab)
  BY DEF IInv, TypeOK, New
<1>2. tab' = h
  BY DEF New
<1>3. Dropped(tab, f) /\ f.prepared = NoKey
  BY <1>1, ForgottenType
<1> HIDE DEF f
<1>4. /\ g \in Engine /\ g.list = f.list /\ g.drawn = f.drawn /\ g.pending = NoPending
      /\ g.prepared = f.prepared /\ ~g.deferred /\ g.unsaved = f.unsaved /\ g.broken = f.broken
      /\ g.position = 0 /\ g.read.at = Absent
  BY <1>3, ClearedType DEF Dropped
<1> HIDE DEF g
<1>5. list \in ConvSets /\ drafts \in ConvSets /\ drawn \in ConvSets /\ c \in SomeConv
  <2>1. g.list \in ConvSets /\ g.drafts \in ConvSets /\ g.drawn \in ConvSets
    BY <1>4, EngineType
  <2> QED
    BY <2>1, ConvSetType, Values
<1>6. list \subseteq drawn /\ c \in drawn
  BY <1>1, <1>3, <1>4 DEF Listed, Dropped, Parted
<1> HIDE DEF list, drafts, drawn
<1>7. h \in Engine
  BY <1>4, <1>5, EngineType
<1>8. /\ h.active = c /\ h.list = list /\ h.drawn = drawn /\ h.pending = NoPending /\ h.prepared = g.prepared
      /\ ~h.deferred /\ h.unsaved = g.unsaved /\ h.broken = g.broken /\ h.position = 0
      /\ h.read.at = Absent
  BY <1>4, <1>7, EngineFields DEF EmptyEngine
<1> HIDE DEF h
<1>9. Follows(tab')
  BY <1>2, <1>8, FreshFollows
<1>10. tab'.unsaved = tab.unsaved /\ ~tab'.broken /\ tab'.prepared = NoKey /\ Listed(tab')
  BY <1>1, <1>2, <1>3, <1>4, <1>6, <1>8 DEF Dropped, Parted, Listed
<1> QED
  BY <1>2, <1>7, <1>8, <1>9, <1>10 DEF NewStep, New, Works

RecoverAbsentStep ==
    /\ tab.active \in Convs
    /\ (\E works \in BOOLEAN : AbandonWorks(tab, works)) /\ AbandonRecords(tab)
    /\ tab'.active \in Convs /\ tab'.active # tab.active /\ tab' \in Engine
    /\ Follows(tab') /\ Listed(tab')
    /\ tab'.prepared = NoKey /\ ~tab'.deferred /\ tab'.unsaved = tab.unsaved
    /\ \/ tab'.pending = NoPending
       \/ /\ ~tab'.broken /\ slot[tab'.active].state = "pending"
          /\ tab'.pending = [key |-> slot[tab'.active].key, id |-> 0]
    /\ UNCHANGED serverVars

\* What a recovery that finds no conversation does: nothing to the records, or it retires the
\* intent.
LEMMA RecoverAbsentFoot == ASSUME IInv, RecoverAbsent PROVE QuietStep \/ RecoverAbsentStep
<1> DEFINE a == Answered(tab)
           f == Forgotten(a)
<1>1. tab \in Engine /\ tab.active \in Convs /\ Listed(tab)
  BY Awake DEF IInv, TypeOK, RecoverAbsent
<1>2. Quiet(tab, a)
  BY <1>1, AnsweredType
<1>3. CASE UNCHANGED <<slot, calls, past>> /\ tab' = [a EXCEPT !.hydrating = FALSE]
  <2> HIDE DEF a
  <2>1. Quiet(a, tab')
    BY <1>2, <1>3, Restful, Values, MachineTypes DEF Quiet
  <2>2. Quiet(tab, tab')
    BY <1>2, <2>1, QuietTwice
  <2> QED
    BY <1>1, <1>3, <2>2, QuietIsStep DEF RecoverAbsent
<1>4. CASE /\ \E works \in Works : AbandonWorks(tab, works)
           /\ AbandonRecords(tab)
           /\ \E works \in Works, c \in EvictTargets(tab) : tab' = Evict(f, c, works)
  <2> HIDE DEF a
  <2>1. Dropped(a, f)
    BY <1>2, ForgottenType DEF Quiet
  <2> HIDE DEF f
  <2>2. PICK works \in BOOLEAN, c \in EvictTargets(tab) : tab' = Evict(f, c, works)
    BY <1>4 DEF Works
  <2>3. /\ f \in Engine /\ f.active = tab.active /\ Listed(f) /\ c \in EvictTargets(f)
        /\ f.unsaved = tab.unsaved
    BY <1>1, <1>2, <2>1 DEF Quiet, Kept, Dropped, Parted, Listed, EvictTargets, FreshConvs
  <2>4. /\ c \in Convs /\ c # tab.active /\ Listed(tab')
        /\ tab' \in Engine /\ tab'.position = 0 /\ tab'.read.at \in {Absent, Travelling}
        /\ tab'.active = c /\ tab'.prepared = NoKey /\ ~tab'.deferred /\ tab'.unsaved = tab.unsaved
        /\ \/ tab'.pending = NoPending
           \/ /\ ~tab'.broken /\ slot[c].state = "pending"
              /\ tab'.pending = [key |-> slot[c].key, id |-> 0]
    BY <1>1, <2>2, <2>3, EvictType
  <2>5. Follows(tab')
    BY <2>4, FreshFollows
  <2>6. \E w \in BOOLEAN : AbandonWorks(tab, w)
    BY <1>4 DEF Works
  <2> QED
    BY <1>1, <1>4, <2>4, <2>5, <2>6 DEF RecoverAbsentStep, RecoverAbsent
<1> QED
  BY <1>3, <1>4 DEF RecoverAbsent

\* The calls, but for what became of them.
CallsLike ==
    /\ calls' \in Seq(Call) /\ Len(calls') = Len(calls) /\ DOMAIN calls' = DOMAIN calls
    /\ \A i \in DOMAIN calls :
          calls'[i].key = calls[i].key /\ calls'[i].conv = calls[i].conv /\ calls'[i].kind = calls[i].kind

\* A change of calls that keeps key, conversation and kind keeps every call what it is.
LEMMA CallsMapped ==
    ASSUME calls \in Seq(Call), NEW f, calls' = [i \in DOMAIN calls |-> f[i]],
           \A i \in DOMAIN calls :
              /\ f[i] \in Call
              /\ f[i].key = calls[i].key /\ f[i].conv = calls[i].conv /\ f[i].kind = calls[i].kind
    PROVE  CallsLike
<1>1. Len(calls) \in Nat /\ DOMAIN calls = 1..Len(calls)
  BY SeqFacts
<1>2. calls' \in [1..Len(calls) -> Call]
  BY <1>1
<1>3. calls' \in Seq(Call) /\ Len(calls') = Len(calls) /\ DOMAIN calls' = 1..Len(calls)
  BY <1>1, <1>2, FunctionIsSeq
<1>4. \A i \in DOMAIN calls : calls'[i] = f[i]
  OBVIOUS
<1> QED
  BY <1>1, <1>3, <1>4 DEF CallsLike

\* What may become of a call.
Fates(call) ==
    {call, Over(call), Deserted(call), [call EXCEPT !.doomed = TRUE], [call EXCEPT !.doomed = FALSE],
     [call EXCEPT !.owner = "disposed"], [call EXCEPT !.status = "done"],
     [call EXCEPT !.status = "accepted"], [call EXCEPT !.status = "refused"]}

\* Whatever becomes of a call, it stays the call of its key.
LEMMA FateType ==
    ASSUME NEW call \in Call, NEW other \in Fates(call)
    PROVE  other \in Call /\ other.key = call.key /\ other.conv = call.conv /\ other.kind = call.kind
  BY DEF Call, Over, Deserted, Fates

\* A call is typed, and made by an engine that shows a conversation.
LEMMA CallFacts ==
    ASSUME IInv, NEW i \in DOMAIN calls
    PROVE  /\ calls[i] \in Call /\ calls[i].key \in Keys /\ calls[i].conv \in Convs
           /\ tab \in Engine /\ tab.active \in Convs
<1>1. calls \in Seq(Call) /\ tab \in Engine
  BY DEF IInv, TypeOK
<1>2. calls[i] \in Call
  BY <1>1, SeqFacts
<1>3. calls # <<>>
  OBVIOUS
<1> QED
  BY <1>1, <1>2, <1>3, Awake DEF Call

\* Calls that meet their fates stay the calls of their keys.
LEMMA FatesLike ==
    ASSUME IInv, calls' = [j \in DOMAIN calls |-> calls'[j]],
           \A j \in DOMAIN calls : calls'[j] \in Fates(calls[j])
    PROVE  CallsLike
<1> DEFINE f == [j \in DOMAIN calls |-> calls'[j]]
<1>1. calls \in Seq(Call)
  BY DEF IInv, TypeOK
<1>2. calls' = [j \in DOMAIN calls |-> f[j]] /\ \A j \in DOMAIN calls : f[j] = calls'[j]
  OBVIOUS
<1> HIDE DEF f
<1>3. ASSUME NEW j \in DOMAIN calls
      PROVE  /\ f[j] \in Call
             /\ f[j].key = calls[j].key /\ f[j].conv = calls[j].conv /\ f[j].kind = calls[j].kind
  BY <1>2, CallFacts, FateType
<1> QED
  BY <1>1, <1>2, <1>3, CallsMapped

\* The end of a call (beginRun finally) changes only how it stands.
LEMMA SettledLike ==
    ASSUME IInv, NEW i \in DOMAIN calls, calls' = Settled(i) \/ calls' = [calls EXCEPT ![i] = Deserted(@)]
    PROVE  CallsLike
<1>1. calls' = [j \in DOMAIN calls |-> calls'[j]]
  BY DEF Settled
<1>2. \A j \in DOMAIN calls : calls'[j] \in Fates(calls[j])
  BY DEF Settled, Fates
<1> QED
  BY <1>1, <1>2, FatesLike

\* Taking a cancelled submission's receipt (cancelledSubmissions) changes only how its calls stand.
LEMMA ConsumedLike ==
    ASSUME IInv, NEW i \in DOMAIN calls, calls' = Consumed(i)
    PROVE  CallsLike
<1>1. calls' = [j \in DOMAIN calls |-> calls'[j]]
  BY DEF Consumed
<1>2. \A j \in DOMAIN calls : calls'[j] \in Fates(calls[j])
  BY DEF Consumed, Fates
<1> QED
  BY <1>1, <1>2, FatesLike

\* A new engine changes only whose the calls are.
LEMMA RestartLike ==
    ASSUME IInv, NEW owner, Restart(owner)
    PROVE  CallsLike
<1>1. calls' = [j \in DOMAIN calls |-> calls'[j]]
  BY DEF Restart
<1>2. \A j \in DOMAIN calls : calls'[j] \in Fates(calls[j])
  BY DEF Restart, Fates
<1> QED
  BY <1>1, <1>2, FatesLike

\* abandonPendingSubmission changes only which calls are doomed.
LEMMA AbandonLike ==
    ASSUME IInv, AbandonRecords(tab)
    PROVE  CallsLike
<1>1. calls' = [j \in DOMAIN calls |-> calls'[j]]
  BY DEF AbandonRecords
<1>2. \A j \in DOMAIN calls : calls'[j] \in Fates(calls[j])
  BY DEF AbandonRecords, Fates
<1> QED
  BY <1>1, <1>2, FatesLike

\* The service changes only how a call stands.
LEMMA ServedLike ==
    ASSUME IInv, NEW i \in DOMAIN calls, Accept(i) \/ Refuse(i)
    PROVE  CallsLike
<1>1. calls' = [j \in DOMAIN calls |-> calls'[j]]
  <2>1. calls \in Seq(Call) /\ calls[i] \in Call
    BY CallFacts DEF IInv, TypeOK
  <2>2. \E s : calls' = [calls EXCEPT ![i] = [calls[i] EXCEPT !.status = s]]
    BY <2>1 DEF Accept, Refuse
  <2> QED
    BY <2>2
<1>2. \A j \in DOMAIN calls : calls'[j] \in Fates(calls[j])
  BY DEF Accept, Refuse, Fates
<1> QED
  BY <1>1, <1>2, FatesLike

-----------------------------------------------------------------------------

\* What the receipt of its intent does to an engine.
Taken(e, f) ==
    \/ f.pending = e.pending /\ f.prepared = e.prepared /\ f.deferred
    \/ f.pending = NoPending /\ f.prepared \in {e.prepared, NoKey} /\ ~f.deferred

\* A receipt that reaches the engine holding its intent is applied or set aside, and drops no
\* other.
LEMMA ReceivedType ==
    ASSUME NEW e \in Engine, NEW k \in Keys, HasPending(e)
    PROVE  LET f == Received(e, k) IN
           /\ Home(e, f) /\ Near(e, f) /\ f.unsaved = e.unsaved /\ Taken(e, f)
<1> DEFINE f == Received(e, k)
           r == [e EXCEPT !.machine = IdleMachine]
           rested == IF e.machine.phase = "error" THEN r ELSE e
           applied == Recovered(rested, FALSE)
           d == [e EXCEPT !.deferred = TRUE]
           t == Touch(e)
           g == Forgotten(t)
           m == RECEIPT(g.machine, k)
           w == [g EXCEPT !.machine = m]
<1>1. f \in {d, Recovered(e, TRUE), Open(w), Open(applied), applied}
  BY DEF Received
<1>2. Quiet(e, r) /\ Quiet(e, e)
  <2>1. Quiet(e, r)
    BY Restful, Values, MachineTypes
  <2>2. Quiet(e, e)
    BY DEF Quiet, Kept, Near, ReadAt
  <2> QED
    BY <2>1, <2>2
<1> HIDE DEF r
<1>3. Quiet(e, rested)
  BY <1>2
<1> HIDE DEF rested
<1>4. HasPending(rested) /\ rested \in Engine
  BY <1>3 DEF Quiet, Kept, HasPending
<1>5. Dropped(rested, applied)
  BY <1>4, RecoveredType
<1> HIDE DEF applied
<1>6. Dropped(e, applied)
  BY <1>3, <1>5 DEF Quiet, Kept, Near, ReadAt, Dropped, Parted
<1>7. Dropped(e, Open(applied))
  <2>1. Quiet(applied, Open(applied))
    BY <1>5, OpenType DEF Dropped
  <2> QED
    BY <1>6, <2>1 DEF Quiet, Kept, Near, ReadAt, Dropped, Parted
<1>8. Dropped(e, Recovered(e, TRUE))
  BY RecoveredType
<1>9. Quiet(e, t)
  BY TouchType
<1> HIDE DEF t
<1>10. Dropped(t, g)
  BY <1>9, ForgottenType DEF Quiet
<1> HIDE DEF g
<1>11. Quiet(g, w)
  <2>1. g \in Engine
    BY <1>10 DEF Dropped
  <2>2. m \in Machine
    <3>1. g.machine \in Machine
      BY <2>1, EngineType
    <3> QED
      BY <3>1, MachineSteps
  <2> HIDE DEF m
  <2> QED
    BY <2>1, <2>2, Restful, Values
<1> HIDE DEF w
<1>12. Quiet(w, Open(w))
  BY <1>11, OpenType DEF Quiet
<1>13. Dropped(e, Open(w))
  BY <1>9, <1>10, <1>11, <1>12 DEF Quiet, Kept, Near, ReadAt, Dropped, Parted
<1>14. Home(e, d) /\ Near(e, d) /\ d.unsaved = e.unsaved /\ Taken(e, d)
  <2>1. d \in Engine
    BY EngineType
  <2> QED
    BY <2>1, EngineFields DEF Home, Near, ReadAt, Taken, EmptyEngine
<1>15. ASSUME NEW x, Dropped(e, x)
       PROVE  Home(e, x) /\ Near(e, x) /\ x.unsaved = e.unsaved /\ Taken(e, x)
  BY <1>15 DEF Home, Dropped, Parted, Taken
<1> HIDE DEF f, d
<1> QED
  BY <1>1, <1>6, <1>7, <1>8, <1>13, <1>14, <1>15 DEF f

\* The engine still holds the intent of call i.
Holds(i) == calls[i].owner = "engine" /\ tab.pending.key = calls[i].key /\ tab.active = calls[i].conv

ReceiptStep(i, works) ==
    /\ calls[i].kind = "create" /\ calls[i].owner \in {"engine", "disposed"}
    /\ slot' = IF works THEN [slot EXCEPT ![calls[i].conv] = Acknowledged(@, calls[i].key)] ELSE slot
    /\ past' = [past EXCEPT !.received = @ \cup {calls[i].key},
                            !.cancels = IF calls[i].doomed THEN @ \cup {calls[i].key} ELSE @]
    /\ calls' = IF calls[i].doomed THEN Consumed(i) ELSE Settled(i)
    /\ Home(tab, tab') /\ Follows(tab')
    /\ tab'.unsaved = IF calls[i].owner # "engine" THEN tab.unsaved
                      ELSE IF works THEN tab.unsaved \ {calls[i].key} ELSE tab.unsaved \cup {calls[i].key}
    /\ IF ~calls[i].doomed /\ Holds(i) THEN Taken(tab, tab')
       ELSE tab'.pending = tab.pending /\ tab'.prepared = tab.prepared /\ tab'.deferred = tab.deferred
    /\ UNCHANGED serverVars

\* What the receipt of a create-message call (beginRun then) does to the records, the calls and the
\* intent held.
LEMMA ReceiptFoot ==
    ASSUME IInv, NEW i \in DOMAIN calls, Receipt(i)
    PROVE  \E works \in Works : ReceiptStep(i, works)
<1> DEFINE k == calls[i].key
           c == calls[i].conv
           mine == calls[i].owner = "engine"
<1>1. /\ calls[i] \in Call /\ k \in Keys /\ c \in Convs
      /\ tab \in Engine /\ tab.active \in Convs
  BY CallFacts
<1>2. PICK works \in Works :
        LET written == [tab EXCEPT !.unsaved = IF ~mine THEN @
                                               ELSE IF works THEN @ \ {k} ELSE @ \cup {k}]
        IN /\ slot' = IF works THEN [slot EXCEPT ![c] = Acknowledged(@, k)] ELSE slot
           /\ past' = [past EXCEPT !.received = @ \cup {k},
                                   !.cancels = IF calls[i].doomed THEN @ \cup {k} ELSE @]
           /\ IF calls[i].doomed
              THEN tab' = written /\ calls' = Consumed(i)
              ELSE /\ tab' = IF mine /\ tab.pending.key = k /\ tab.active = c
                             THEN Received(written, k) ELSE written
                   /\ calls' = Settled(i)
  BY DEF Receipt
<1> DEFINE u == IF ~mine THEN tab.unsaved
                ELSE IF works THEN tab.unsaved \ {k} ELSE tab.unsaved \cup {k}
           written == [tab EXCEPT !.unsaved = u]
<1>3. /\ slot' = IF works THEN [slot EXCEPT ![c] = Acknowledged(@, k)] ELSE slot
      /\ past' = [past EXCEPT !.received = @ \cup {k},
                              !.cancels = IF calls[i].doomed THEN @ \cup {k} ELSE @]
      /\ calls' = IF calls[i].doomed THEN Consumed(i) ELSE Settled(i)
      /\ tab' = IF ~calls[i].doomed /\ Holds(i) THEN Received(written, k) ELSE written
  BY <1>2 DEF Holds
<1>4. u \in KeySets
  BY <1>1, EngineType DEF KeySets
<1> HIDE DEF u
<1>5. /\ written \in Engine /\ Home(tab, written) /\ Near(tab, written) /\ written.unsaved = u
      /\ written.pending = tab.pending /\ written.prepared = tab.prepared
      /\ written.deferred = tab.deferred
  <2>1. written \in Engine
    BY <1>1, <1>4, EngineType
  <2> QED
    BY <1>1, <2>1, EngineFields DEF Home, Near, ReadAt, EmptyEngine
<1> HIDE DEF written
<1>6. /\ Home(tab, tab') /\ Near(tab, tab') /\ tab'.unsaved = u
      /\ IF ~calls[i].doomed /\ Holds(i) THEN Taken(tab, tab')
         ELSE tab'.pending = tab.pending /\ tab'.prepared = tab.prepared /\ tab'.deferred = tab.deferred
  <2>1. CASE ~calls[i].doomed /\ Holds(i)
    <3>1. HasPending(written)
      BY <1>1, <1>5, <2>1, KeysAssumption DEF HasPending, Holds
    <3>2. tab' = Received(written, k)
      BY <1>3, <2>1
    <3>3. /\ Home(written, tab') /\ Near(written, tab') /\ tab'.unsaved = written.unsaved
          /\ Taken(written, tab')
      BY <1>1, <1>5, <3>1, <3>2, ReceivedType
    <3> QED
      BY <1>5, <2>1, <3>3 DEF Home, Near, ReadAt, Taken
  <2>2. CASE ~(~calls[i].doomed /\ Holds(i))
    BY <1>3, <1>5, <2>2
  <2> QED
    BY <2>1, <2>2
<1>7. Follows(tab')
  BY <1>1, <1>6, NearFollows DEF Home
<1> QED
  BY <1>3, <1>6, <1>7 DEF ReceiptStep, Receipt, u

CreateFailsStep(i, works, code) ==
    /\ calls[i].kind = "create"
    /\ code \in {"failed", "unknown"}
    /\ slot' = IF works THEN [slot EXCEPT ![tab.active] = Failed(@, calls[i].key, code)] ELSE slot
    /\ calls' = [calls EXCEPT ![i] = Deserted(@)]
    /\ tab' \in Engine /\ Kept(tab, tab') /\ Follows(tab')
    /\ UNCHANGED <<serverVars, past>>

\* What the failure of a create-message call (beginRun catch) does to the records, the calls and
\* the intent held.
LEMMA CreateFailsFoot ==
    ASSUME IInv, NEW i \in DOMAIN calls, CreateFails(i)
    PROVE  \E works \in BOOLEAN, code \in {"failed", "unknown"} : CreateFailsStep(i, works, code)
<1> DEFINE refused == calls[i].status = "refused"
           current == /\ calls[i].owner = "engine"
                      /\ tab.pending.id = i
                      /\ tab.machine.phase = "submitting"
                      /\ tab.active = calls[i].conv
           error == IF tab.recovering \/ tab.connection # "connected" THEN "failed" ELSE tab.retryError
           e == [tab EXCEPT !.machine = FAIL("failed"), !.retryError = error]
           code == IF refused THEN "failed" ELSE "unknown"
<1>1. tab \in Engine /\ tab.active \in Convs
  BY CallFacts
<1>2. tab' = IF ~current THEN tab ELSE e
  BY DEF CreateFails
<1>3. PICK works \in BOOLEAN :
         slot' = IF current /\ works THEN [slot EXCEPT ![tab.active] = Failed(@, calls[i].key, code)] ELSE slot
  BY DEF CreateFails, Works
<1>4. error \in Errors
  BY <1>1, EngineType, Values
<1> HIDE DEF error
<1>5. Quiet(tab, e) /\ Quiet(tab, tab)
  <2>1. e \in Engine
    BY <1>1, <1>4, EngineType, Values, MachineTypes
  <2> QED
    BY <1>1, <2>1, EngineFields DEF Quiet, Kept, Near, ReadAt, EmptyEngine
<1> HIDE DEF e
<1>6. tab' \in Engine /\ Kept(tab, tab') /\ Near(tab, tab')
  BY <1>2, <1>5 DEF Quiet
<1>7. Follows(tab')
  BY <1>1, <1>6, NearFollows DEF Kept
<1> DEFINE wrote == current /\ works
<1>8. wrote \in BOOLEAN /\ code \in {"failed", "unknown"}
      /\ slot' = IF wrote THEN [slot EXCEPT ![tab.active] = Failed(@, calls[i].key, code)] ELSE slot
  BY <1>3
<1>9. CreateFailsStep(i, wrote, code)
  <2> HIDE DEF wrote, code, refused, current
  <2> QED
    BY <1>6, <1>7, <1>8 DEF CreateFailsStep, CreateFails
<1> HIDE DEF wrote, code
<1> QED
  BY <1>8, <1>9

\* The end of a call made during a run leaves the intents alone.
LEMMA SteerSettledType ==
    ASSUME NEW e \in Engine, NEW k
    PROVE  Quiet(e, SteerSettled(e, k))
<1> DEFINE others == e.steers \ {k}
           ended == IF others = {} /\ ~HasPending(e) THEN {} ELSE e.ended
           f == [e EXCEPT !.steers = others, !.ended = ended]
<1>1. others \in KeySets /\ ended \in KeySets
  BY EngineType, Values DEF KeySets
<1>2. SteerSettled(e, k) = f
  BY DEF SteerSettled
<1> HIDE DEF others, ended
<1>3. f \in Engine
  BY <1>1, EngineType
<1>4. Quiet(e, f)
  BY <1>3, EngineFields DEF Quiet, Kept, Near, ReadAt, EmptyEngine
<1> QED
  BY <1>2, <1>4

SteerAnswered(i) ==
    /\ calls[i].kind = "steer" /\ calls[i].owner = "engine"
    /\ \/ past' = [past EXCEPT !.received = @ \cup {calls[i].key}] /\ calls' = Settled(i)
       \/ past' = past /\ calls' = [calls EXCEPT ![i] = Deserted(@)]
    /\ tab' \in Engine /\ Kept(tab, tab') /\ Follows(tab')
    /\ UNCHANGED <<slot, serverVars>>

\* What the receipt of a message sent during a run (submit steer then) does to the records, the
\* calls and the intent held.
LEMMA SteerReceiptFoot ==
    ASSUME IInv, NEW i \in DOMAIN calls, SteerReceipt(i)
    PROVE  SteerAnswered(i)
<1> DEFINE k == calls[i].key
           m == RECEIPT(SUBMIT(tab.machine), k)
           r == IF tab.read.kind = "sync" THEN NoRead ELSE tab.read
           a == [tab EXCEPT !.machine = m, !.read = r]
           x == IF tab.machine.phase = "idle" /\ k \notin tab.ended THEN Open(a) ELSE tab
           f == IF k \notin tab.steers THEN tab ELSE Touch(x)
<1>1. tab \in Engine /\ tab.active \in Convs /\ k \in Keys
  BY CallFacts
<1>2. m \in Machine
  <2>1. tab.machine \in Machine
    BY <1>1, EngineType
  <2>2. SUBMIT(tab.machine) \in Machine
    BY <1>1, <2>1, MachineSteps
  <2> QED
    BY <1>1, <2>2, MachineSteps
<1>3. r \in ReadType /\ r.at \in {tab.read.at, Absent, Travelling}
  <2>1. NoRead.at = Absent
    BY DEF NoRead, Absent
  <2> QED
    BY <1>1, <2>1, EngineType, NoReadType
<1>4. tab' = SteerSettled(f, k)
  BY DEF SteerReceipt
<1> HIDE DEF m, r
<1>5. Quiet(tab, a) /\ Quiet(tab, tab)
  <2>1. a \in Engine
    BY <1>1, <1>2, <1>3, EngineType
  <2> QED
    BY <1>1, <1>3, <2>1, EngineFields DEF Quiet, Kept, Near, ReadAt, EmptyEngine
<1> HIDE DEF a
<1>6. Quiet(a, Open(a))
  BY <1>5, OpenType DEF Quiet
<1>7. Quiet(tab, x)
  BY <1>5, <1>6, QuietTwice
<1> HIDE DEF x
<1>8. Quiet(x, Touch(x))
  BY <1>7, TouchType DEF Quiet
<1>9. Quiet(tab, f)
  BY <1>5, <1>7, <1>8, QuietTwice
<1> HIDE DEF f
<1>10. Quiet(f, tab')
  BY <1>4, <1>9, SteerSettledType DEF Quiet
<1>11. tab' \in Engine /\ Kept(tab, tab') /\ Near(tab, tab')
  BY <1>9, <1>10, QuietTwice DEF Quiet
<1>12. Follows(tab')
  BY <1>1, <1>11, NearFollows DEF Kept
<1> QED
  BY <1>11, <1>12 DEF SteerAnswered, SteerReceipt

\* What the failure of a message sent during a run (submit steer catch) does to the records, the
\* calls and the intent held.
LEMMA SteerFailsFoot ==
    ASSUME IInv, NEW i \in DOMAIN calls, SteerFails(i)
    PROVE  SteerAnswered(i)
<1>1. tab \in Engine /\ tab.active \in Convs
  BY CallFacts
<1>2. tab' \in Engine /\ Kept(tab, tab') /\ Near(tab, tab')
  BY <1>1, SteerSettledType DEF SteerFails, Quiet
<1>3. Follows(tab')
  BY <1>1, <1>2, NearFollows DEF Kept
<1> QED
  BY <1>2, <1>3 DEF SteerAnswered, SteerFails

\* The records, and the engine's part of the invariant.
Records == SlotTrue /\ CallsTrue /\ PastDrawn /\ IntentKept
RecordTypes ==
    /\ slot \in [Convs -> Slot] /\ calls \in Seq(Call) /\ Len(calls) <= MaxCalls
    /\ log \in [Convs -> Seq(Event)] /\ gone \subseteq Convs /\ past \in Past

\* The invariant, split into what is said of the tab and what is said of the records.
LEMMA InvParts ==
    /\ IInv <=> /\ tab \in Engine /\ RecordTypes /\ Records /\ Blank /\ Behind /\ Listed(tab) /\ Held(tab)
    /\ IInv' <=> /\ tab' \in Engine /\ RecordTypes' /\ Records' /\ Blank' /\ Behind' /\ Listed(tab')
                 /\ Held(tab)'
  BY DEF IInv, TypeOK, RecordTypes, Records, Listed

\* The fields of the history are typed.
LEMMA PastFields ==
    ASSUME past \in Past
    PROVE  /\ past.home \in [Keys -> SomeConv] /\ past.saved \in KeySets /\ past.received \in KeySets
           /\ past.gaveUp \in KeySets /\ past.cancels \in KeySets
  BY DEF Past, SomeConv, KeySets

\* The fields of a record are typed.
LEMMA SlotFields ==
    ASSUME slot \in [Convs -> Slot], NEW c \in Convs
    PROVE  slot[c].key \in SomeKey
           /\ slot[c].state \in {"none", "pending", "acknowledged", "abandoned"}
<1>1. slot[c] \in Slot
  OBVIOUS
<1> QED
  BY <1>1 DEF Slot, SomeKey

\* The service's ledgers only grow.
LEMMA Aside ==
    ASSUME IInv, tab' \in Engine, tab'.active \in Convs, Listed(tab'), Follows(tab'), UNCHANGED serverVars
    PROVE  Blank' /\ Behind' /\ log' \in [Convs -> Seq(Event)] /\ gone' \subseteq Convs
  BY ChatAssumption DEF IInv, TypeOK, Blank, Behind, Follows, serverVars

\* Where no record changes, what is said of the records stays true.
LEMMA RecordsSame ==
    ASSUME IInv, UNCHANGED <<slot, past>>, UNCHANGED calls \/ CallsLike
    PROVE  Records'
<1>1. Records
  BY InvParts
<1>2. SlotTrue' /\ PastDrawn' /\ IntentKept'
  BY <1>1 DEF Records, SlotTrue, PastDrawn, IntentKept, Matches
<1>3. CallsTrue'
  BY <1>1 DEF Records, CallsTrue, CallsLike
<1> QED
  BY <1>2, <1>3 DEF Records

\* Where no record changes, the records stay typed.
LEMMA TypesSame ==
    ASSUME IInv, UNCHANGED <<slot, past, serverVars>>, UNCHANGED calls \/ CallsLike
    PROVE  RecordTypes'
  BY DEF IInv, TypeOK, RecordTypes, CallsLike, serverVars

\* A quiet step preserves the inductive invariant.
LEMMA QuietInv == ASSUME IInv, QuietStep PROVE IInv'
<1>1. tab' \in Engine /\ tab'.active \in Convs /\ Listed(tab') /\ Follows(tab')
  BY DEF QuietStep, Kept, IInv, Listed
<1>2. UNCHANGED <<slot, calls, serverVars, past>> /\ Kept(tab, tab')
  BY DEF QuietStep
<1>3. Held(tab)'
  BY <1>2 DEF IInv, Held, PendingHeld, PreparedHeld, HasPending, Kept
<1> QED
  BY <1>1, <1>2, <1>3, Aside, RecordsSame, TypesSame, InvParts

\* A step that applies the receipt set aside (applyRecoveredReceipt) preserves the inductive
\* invariant.
LEMMA DropInv == ASSUME IInv, DropStep PROVE IInv'
<1>1. tab' \in Engine /\ tab'.active \in Convs /\ Listed(tab') /\ Follows(tab')
  BY DEF DropStep, Parted, IInv, Listed
<1>2. UNCHANGED <<slot, calls, serverVars, past>> /\ Parted(tab, tab')
  BY DEF DropStep
<1>3. Held(tab)'
  BY <1>2 DEF IInv, Held, PendingHeld, PreparedHeld, HasPending, Parted, NoPending
<1> QED
  BY <1>1, <1>2, <1>3, Aside, RecordsSame, TypesSame, InvParts

\* A change of view (activateConversation) preserves the inductive invariant.
LEMMA ShowInv == ASSUME IInv, ShowStep, UNCHANGED calls \/ CallsLike PROVE IInv'
<1>1. tab' \in Engine /\ tab'.active \in Convs /\ Listed(tab') /\ Follows(tab')
  BY DEF ShowStep
<1>2. UNCHANGED <<slot, serverVars, past>>
  BY DEF ShowStep
<1>3. Held(tab)'
  <2>1. SlotTrue /\ tab.unsaved \subseteq past.received
    BY DEF IInv, Held
  <2>2. PendingHeld(tab)'
    <3>1. CASE tab'.pending = NoPending
      BY <3>1 DEF PendingHeld, HasPending, NoPending
    <3>2. CASE slot[tab'.active].state = "pending"
               /\ tab'.pending = [key |-> slot[tab'.active].key, id |-> 0]
      <4>1. tab'.pending.key = slot[tab'.active].key
        BY <3>2
      <4> QED
        BY <1>1, <1>2, <2>1, <3>2, <4>1 DEF PendingHeld, HasPending, SlotTrue
    <3> QED
      BY <3>1, <3>2 DEF ShowStep
  <2>3. PreparedHeld(tab)' /\ ~tab'.deferred /\ tab'.prepared = NoKey
    BY DEF ShowStep, PreparedHeld
  <2>4. (tab.unsaved \subseteq past.received)'
    BY <1>2, <2>1 DEF ShowStep
  <2>5. (tab.broken => ~HasPending(tab))'
    BY DEF ShowStep, HasPending, NoPending
  <2> QED
    BY <2>2, <2>3, <2>4, <2>5 DEF Held
<1> QED
  BY <1>1, <1>2, <1>3, Aside, RecordsSame, TypesSame, InvParts

-----------------------------------------------------------------------------
(* Submissions *)

\* A key that may be drawn, or was prepared, is said nowhere else.
LEMMA Unused ==
    ASSUME IInv, NEW c \in Convs, NEW k \in Keys, tab.active \in {c, NoConv},
           IF tab.prepared # NoKey THEN k = tab.prepared ELSE past.home[k] = NoConv
    PROVE  /\ past.home[k] \in {c, NoConv}
           /\ k \notin past.received \cup past.gaveUp
           /\ \A i \in DOMAIN calls : calls[i].key # k
           /\ \A d \in Convs : slot[d].key = k => d = c
<1>1. CASE tab.prepared # NoKey
  <2>1. /\ tab.active \in Convs /\ past.home[k] = tab.active
        /\ k \notin past.received \cup past.gaveUp /\ \A i \in DOMAIN calls : calls[i].key # k
    BY <1>1 DEF IInv, Held, PreparedHeld
  <2>2. tab.active = c
    BY <2>1, ChatAssumption
  <2> QED
    BY <2>1, <2>2, KeysAssumption DEF IInv, SlotTrue
<1>2. CASE tab.prepared = NoKey
  <2>1. past.home[k] = NoConv
    BY <1>2
  <2>2. k \notin past.received \cup past.gaveUp
    BY <2>1 DEF IInv, PastDrawn
  <2>3. \A i \in DOMAIN calls : calls[i].key # k
    BY <2>1, CallFacts, ChatAssumption DEF IInv, CallsTrue
  <2>4. \A d \in Convs : slot[d].key # k
    BY <2>1, ChatAssumption, KeysAssumption DEF IInv, SlotTrue
  <2> QED
    BY <2>1, <2>2, <2>3, <2>4
<1> QED
  BY <1>1, <1>2

\* The receipts kept in memory are written down, and nothing else of the slots changes.
LEMMA FlushTrue ==
    ASSUME IInv
    PROVE  /\ Flushed(tab, slot) \in [Convs -> Slot]
           /\ \A c \in Convs :
                 \/ Flushed(tab, slot)[c] = slot[c]
                 \/ /\ slot[c].state = "pending" /\ slot[c].key \in past.received
                    /\ Flushed(tab, slot)[c].state = "acknowledged"
                    /\ Flushed(tab, slot)[c].key = slot[c].key
<1> DEFINE f == Flushed(tab, slot)
<1>1. tab \in Engine /\ slot \in [Convs -> Slot] /\ tab.unsaved \subseteq past.received
  BY DEF IInv, TypeOK, Held
<1>2. /\ f \in [Convs -> Slot]
      /\ \A c \in Convs :
            f[c] = IF slot[c].state = "pending" /\ slot[c].key \in tab.unsaved
                   THEN [state |-> "acknowledged", key |-> slot[c].key, code |-> "none"]
                   ELSE slot[c]
  BY <1>1, FlushedType
<1> HIDE DEF f
<1>3. ASSUME NEW c \in Convs
      PROVE  \/ f[c] = slot[c]
             \/ /\ slot[c].state = "pending" /\ slot[c].key \in past.received
                /\ f[c].state = "acknowledged" /\ f[c].key = slot[c].key
  BY <1>1, <1>2
<1> QED
  BY <1>2, <1>3 DEF f

\* submit saves its intent in the record of the conversation, where no open one is, or not at all.
LEMMA SubmitRecords ==
    ASSUME IInv, NEW c \in Convs, NEW k \in Keys, NEW saved \in BOOLEAN, NEW posted \in BOOLEAN,
           SubmitStep(c, k, saved, posted)
    PROVE  Records' /\ RecordTypes'
<1> DEFINE f == Flushed(tab, slot)
<1>1. /\ f \in [Convs -> Slot]
      /\ \A d \in Convs :
            \/ f[d] = slot[d]
            \/ /\ slot[d].state = "pending" /\ slot[d].key \in past.received
               /\ f[d].state = "acknowledged" /\ f[d].key = slot[d].key
  BY FlushTrue
<1>2. /\ past.home[k] \in {c, NoConv} /\ k \notin past.received \cup past.gaveUp
      /\ \A i \in DOMAIN calls : calls[i].key # k
      /\ \A d \in Convs : slot[d].key = k => d = c
  BY Unused DEF SubmitStep
<1>3. /\ slot' = IF saved THEN [f EXCEPT ![c] = Saved(@, k)] ELSE f
      /\ past' = [past EXCEPT !.home[k] = c, !.saved = IF saved THEN @ \cup {k} ELSE @]
      /\ saved => CanSave(f[c], k, TRUE)
      /\ calls' = IF posted THEN NewCall(k, c, "create") ELSE calls
      /\ posted => saved
      /\ Len(calls) < MaxCalls /\ UNCHANGED serverVars
  BY DEF SubmitStep
<1> HIDE DEF f
<1>4. /\ slot \in [Convs -> Slot] /\ calls \in Seq(Call) /\ past \in Past
      /\ SlotTrue /\ CallsTrue /\ PastDrawn /\ IntentKept
  BY DEF IInv, TypeOK
<1>5. /\ past'.home = [past.home EXCEPT ![k] = c] /\ past'.received = past.received
      /\ past'.gaveUp = past.gaveUp /\ past'.cancels = past.cancels
      /\ past'.saved = IF saved THEN past.saved \cup {k} ELSE past.saved
  BY <1>3, <1>4 DEF Past
<1>6. past' \in Past
  BY <1>3, <1>4 DEF Past
<1>7. past.home \in [Keys -> SomeConv]
  BY <1>4, PastFields
<1>8. /\ slot' \in [Convs -> Slot]
      /\ \A d \in Convs \ {c} : slot'[d] = f[d]
      /\ \/ slot'[c] = f[c]
         \/ saved /\ slot'[c].state = "pending" /\ slot'[c].key = k
      /\ saved => slot'[c].state = "pending" /\ slot'[c].key = k
  <2>1. saved => Saved(f[c], k) \in Slot /\ Saved(f[c], k).state = "pending" /\ Saved(f[c], k).key = k
    BY <1>1, <1>3, SlotOps DEF Saved, Matches
  <2> QED
    BY <1>1, <1>3, <2>1
<1>9. \A j \in Keys : past'.home[j] = IF j = k THEN c ELSE past.home[j]
  BY <1>5, <1>7
<1>10. SlotTrue'
  <2>1. SUFFICES ASSUME NEW d \in Convs
        PROVE  /\ slot'[d].state = "none" <=> slot'[d].key = NoKey
               /\ slot'[d].key # NoKey => past'.home[slot'[d].key] = d
               /\ slot'[d].state = "pending" => slot'[d].key \in past'.saved \ past'.gaveUp
               /\ slot'[d].state = "acknowledged" => slot'[d].key \in past'.received
               /\ slot'[d].state = "abandoned" => slot'[d].key \in past'.gaveUp
    BY DEF SlotTrue
  <2>2. CASE saved /\ d = c
    BY <1>2, <1>5, <1>8, <1>9, <2>2, KeysAssumption
  <2>3. CASE ~(saved /\ d = c)
    <3>1. slot'[d] = f[d]
      BY <1>8, <2>3
    <3>2. /\ slot[d].state = "none" <=> slot[d].key = NoKey
          /\ slot[d].key # NoKey => past.home[slot[d].key] = d
          /\ slot[d].state = "pending" => slot[d].key \in past.saved \ past.gaveUp
          /\ slot[d].state = "acknowledged" => slot[d].key \in past.received
          /\ slot[d].state = "abandoned" => slot[d].key \in past.gaveUp
      BY <1>4 DEF SlotTrue
    <3>3. slot[d].key # NoKey => slot[d].key \in Keys /\ past'.home[slot[d].key] = d
      BY <1>2, <1>4, <1>9, <3>2, SlotFields, SomeKeyIs
    <3>4. /\ f[d].key = slot[d].key
          /\ \/ f[d].state = slot[d].state
             \/ /\ slot[d].state = "pending" /\ slot[d].key \in past.received /\ f[d].state = "acknowledged"
      BY <1>1
    <3> QED
      BY <1>5, <3>1, <3>2, <3>3, <3>4
  <2> QED
    BY <2>2, <2>3
<1>11. calls' \in Seq(Call) /\ Len(calls') <= MaxCalls /\ CallsTrue'
  <2>1. \A i \in DOMAIN calls :
           /\ past'.home[calls[i].key] = calls[i].conv
           /\ calls[i].kind = "create" <=> calls[i].key \in past'.saved
    <3>1. ASSUME NEW i \in DOMAIN calls
          PROVE  /\ past'.home[calls[i].key] = calls[i].conv
                 /\ calls[i].kind = "create" <=> calls[i].key \in past'.saved
      <4>1. calls[i].key \in Keys /\ calls[i].key # k
        BY <1>2, CallFacts
      <4> QED
        BY <1>4, <1>5, <1>9, <4>1 DEF CallsTrue
    <3> QED
      BY <3>1
  <2>2. CASE ~posted
    BY <1>3, <1>4, <2>1, <2>2, SeqFacts, ChatAssumption DEF CallsTrue
  <2>3. CASE posted
    <3>1. /\ calls' \in Seq(Call) /\ Len(calls') = Len(calls) + 1
          /\ DOMAIN calls' = DOMAIN calls \cup {Len(calls) + 1}
          /\ \A i \in DOMAIN calls : calls'[i] = calls[i]
          /\ calls'[Len(calls) + 1] =
                [key |-> k, conv |-> c, kind |-> "create", status |-> "sent", owner |-> "engine",
                 doomed |-> FALSE]
      BY <1>3, <1>4, <2>3, NewCallType
    <3>2. Len(calls') <= MaxCalls
      BY <1>3, <1>4, <3>1, SeqFacts, ChatAssumption
    <3>3. k \in past'.saved /\ past'.home[k] = c
      BY <1>3, <1>5, <1>9, <2>3
    <3>4. /\ calls'[Len(calls) + 1].key = k /\ calls'[Len(calls) + 1].conv = c
          /\ calls'[Len(calls) + 1].kind = "create"
      BY <3>1
    <3> QED
      BY <2>1, <3>1, <3>2, <3>3, <3>4 DEF CallsTrue
  <2> QED
    BY <2>2, <2>3
<1>12. PastDrawn'
  <2>1. SUFFICES ASSUME NEW j \in Keys, past'.home[j] = NoConv
        PROVE  j \notin past'.saved \cup past'.received \cup past'.gaveUp
    BY DEF PastDrawn
  <2>2. j # k /\ past.home[j] = NoConv
    BY <1>9, <2>1, ChatAssumption
  <2> QED
    BY <1>4, <1>5, <2>2 DEF PastDrawn
<1>13. IntentKept'
  <2>1. SUFFICES ASSUME NEW j, j \in past'.saved \ (past'.received \cup past'.gaveUp)
        PROVE  slot'[past'.home[j]].state = "pending" /\ slot'[past'.home[j]].key = j
    BY DEF IntentKept, Matches
  <2>2. CASE saved /\ j = k
    BY <1>8, <1>9, <2>2
  <2>3. CASE ~(saved /\ j = k)
    <3>1. j \in past.saved \ (past.received \cup past.gaveUp) /\ j \in Keys
      BY <1>4, <1>5, <2>1, <2>3, PastFields DEF KeySets
    <3> DEFINE d == past.home[j]
    <3>2. slot[d].state = "pending" /\ slot[d].key = j
      BY <1>4, <3>1 DEF IntentKept, Matches
    <3>3. d \in Convs
      <4>1. d \in SomeConv /\ d # NoConv
        BY <1>4, <1>7, <3>1 DEF PastDrawn
      <4> QED
        BY <4>1 DEF SomeConv
    <3>4. past'.home[j] = d
      BY <1>2, <1>9, <3>1, <3>2, <3>3
    <3> HIDE DEF d
    <3>5. f[d].state = "pending" /\ f[d].key = j
      BY <1>1, <3>1, <3>2, <3>3
    <3>6. CASE saved /\ d = c
      BY <1>3, <2>3, <3>5, <3>6 DEF CanSave
    <3>7. CASE ~(saved /\ d = c)
      BY <1>8, <3>3, <3>4, <3>5, <3>7
    <3> QED
      BY <3>6, <3>7
  <2> QED
    BY <2>2, <2>3
<1>14. log' \in [Convs -> Seq(Event)] /\ gone' \subseteq Convs
  BY <1>3 DEF serverVars, IInv, TypeOK
<1> QED
  BY <1>6, <1>8, <1>10, <1>11, <1>12, <1>13, <1>14 DEF Records, RecordTypes

\* Sending a message (submit) preserves the inductive invariant.
LEMMA SubmitInv == ASSUME IInv, NEW c \in Convs, NEW k \in Keys, Submit(c, k) PROVE IInv'
<1>1. PICK saved \in BOOLEAN, posted \in BOOLEAN : SubmitStep(c, k, saved, posted)
  BY SubmitFoot
<1>2. Records' /\ RecordTypes'
  BY <1>1, SubmitRecords
<1>3. tab' \in Engine /\ tab'.active \in Convs /\ Listed(tab') /\ Follows(tab') /\ UNCHANGED serverVars
  BY <1>1 DEF SubmitStep
<1>4. Held(tab)'
  <2>1. past \in Past /\ past' \in Past /\ slot' \in [Convs -> Slot] /\ slot \in [Convs -> Slot]
    BY <1>2 DEF RecordTypes, IInv, TypeOK
  <2>2. past' = [past EXCEPT !.home[k] = c, !.saved = IF saved THEN @ \cup {k} ELSE @]
    BY <1>1 DEF SubmitStep
  <2>3. /\ past'.home[k] = c /\ past'.received = past.received /\ past'.gaveUp = past.gaveUp
        /\ saved => k \in past'.saved
    BY <2>1, <2>2 DEF Past
  <2>4. k \notin past.received \cup past.gaveUp /\ \A i \in DOMAIN calls : calls[i].key # k
    BY <1>1, Unused DEF SubmitStep
  <2>5. tab'.active = c /\ tab'.unsaved = {} /\ ~tab'.broken /\ ~HasPending(tab) /\ ~tab.deferred
    BY <1>1 DEF SubmitStep, IInv, Held
  <2>6. CASE posted
    <3>1. tab'.pending.key = k /\ tab'.prepared = NoKey /\ ~tab'.deferred /\ saved
      BY <1>1, <2>6 DEF SubmitStep
    <3>2. slot'[c].state = "pending" /\ slot'[c].key = k
      <4> DEFINE f == Flushed(tab, slot)
      <4>1. f \in [Convs -> Slot]
        BY FlushTrue
      <4>2. slot' = [f EXCEPT ![c] = Saved(f[c], k)]
        BY <1>1, <3>1 DEF SubmitStep
      <4> HIDE DEF f
      <4>3. Saved(f[c], k).state = "pending" /\ Saved(f[c], k).key = k
        BY DEF Saved, Matches
      <4> QED
        BY <4>1, <4>2, <4>3
    <3> QED
      BY <1>3, <2>3, <2>4, <2>5, <3>1, <3>2 DEF Held, PendingHeld, PreparedHeld, HasPending
  <2>7. CASE ~posted
    <3>1. tab'.pending = tab.pending /\ tab'.prepared = k /\ tab'.deferred = tab.deferred /\ calls' = calls
      BY <1>1, <2>7 DEF SubmitStep
    <3> QED
      BY <1>3, <2>3, <2>4, <2>5, <3>1 DEF Held, PendingHeld, PreparedHeld, HasPending
  <2> QED
    BY <2>6, <2>7
<1> QED
  BY <1>2, <1>3, <1>4, Aside, InvParts

\* A key with a history was drawn for a conversation.
LEMMA HomeConv ==
    ASSUME IInv, NEW k \in past.saved \cup past.received \cup past.gaveUp
    PROVE  k \in Keys /\ past.home[k] \in Convs
<1>1. past \in Past /\ PastDrawn
  BY DEF IInv, TypeOK
<1>2. k \in Keys /\ past.home[k] \in SomeConv
  BY <1>1, PastFields DEF KeySets
<1> QED
  BY <1>1, <1>2 DEF PastDrawn, SomeConv

\* Sending a message during a run (submit, run shown) preserves the inductive invariant.
LEMMA SteerInv == ASSUME IInv, NEW k \in Keys, Steer(k) PROVE IInv'
<1> DEFINE f == Flushed(tab, slot)
           c == tab.active
<1>1. SteerStep(k)
  BY SteerFoot
<1>2. /\ f \in [Convs -> Slot]
      /\ \A d \in Convs :
            \/ f[d] = slot[d]
            \/ /\ slot[d].state = "pending" /\ slot[d].key \in past.received
               /\ f[d].state = "acknowledged" /\ f[d].key = slot[d].key
  BY FlushTrue
<1>3. /\ slot \in [Convs -> Slot] /\ calls \in Seq(Call) /\ past \in Past /\ tab \in Engine
      /\ SlotTrue /\ CallsTrue /\ PastDrawn /\ IntentKept /\ Held(tab) /\ Listed(tab)
  BY DEF IInv, TypeOK
<1>4. slot' = f /\ c \in Convs /\ past.home[k] = NoConv /\ UNCHANGED serverVars
  BY <1>1 DEF SteerStep
<1> HIDE DEF f
<1>5. /\ past' \in Past /\ past'.home = [past.home EXCEPT ![k] = c] /\ past'.received = past.received
      /\ past'.gaveUp = past.gaveUp /\ past'.saved = past.saved
  BY <1>1, <1>3, <1>4 DEF SteerStep, Past
<1>6. k \notin past.saved \cup past.received \cup past.gaveUp
  BY <1>3, <1>4 DEF PastDrawn
<1>7. \A i \in DOMAIN calls : calls[i].key # k
  BY <1>3, <1>4, CallFacts, ChatAssumption DEF CallsTrue
<1>8. \A j \in Keys : past'.home[j] = IF j = k THEN c ELSE past.home[j]
  BY <1>3, <1>5, PastFields
<1>9. \A d \in Convs : slot[d].key # k
  BY <1>3, <1>4, ChatAssumption, KeysAssumption DEF SlotTrue
<1>10. SlotTrue'
  <2>1. SUFFICES ASSUME NEW d \in Convs
        PROVE  /\ slot'[d].state = "none" <=> slot'[d].key = NoKey
               /\ slot'[d].key # NoKey => past'.home[slot'[d].key] = d
               /\ slot'[d].state = "pending" => slot'[d].key \in past'.saved \ past'.gaveUp
               /\ slot'[d].state = "acknowledged" => slot'[d].key \in past'.received
               /\ slot'[d].state = "abandoned" => slot'[d].key \in past'.gaveUp
    BY DEF SlotTrue
  <2>2. /\ slot[d].state = "none" <=> slot[d].key = NoKey
        /\ slot[d].key # NoKey => past.home[slot[d].key] = d
        /\ slot[d].state = "pending" => slot[d].key \in past.saved \ past.gaveUp
        /\ slot[d].state = "acknowledged" => slot[d].key \in past.received
        /\ slot[d].state = "abandoned" => slot[d].key \in past.gaveUp
    BY <1>3 DEF SlotTrue
  <2>3. slot[d].key # NoKey => past'.home[slot[d].key] = d
    BY <1>3, <1>8, <1>9, <2>2, SlotFields, SomeKeyIs
  <2>4. /\ f[d].key = slot[d].key
        /\ \/ f[d].state = slot[d].state
           \/ /\ slot[d].state = "pending" /\ slot[d].key \in past.received /\ f[d].state = "acknowledged"
    BY <1>2
  <2> QED
    BY <1>4, <1>5, <2>2, <2>3, <2>4
<1>11. calls' \in Seq(Call) /\ Len(calls') <= MaxCalls /\ CallsTrue'
  <2>1. /\ calls' \in Seq(Call) /\ Len(calls') = Len(calls) + 1
        /\ DOMAIN calls' = DOMAIN calls \cup {Len(calls) + 1}
        /\ \A i \in DOMAIN calls : calls'[i] = calls[i]
        /\ calls'[Len(calls) + 1] =
              [key |-> k, conv |-> c, kind |-> "steer", status |-> "sent", owner |-> "engine",
               doomed |-> FALSE]
    BY <1>1, <1>3, <1>4, NewCallType DEF SteerStep
  <2>2. Len(calls') <= MaxCalls
    BY <1>1, <1>3, <2>1, SeqFacts, ChatAssumption DEF SteerStep
  <2>3. ASSUME NEW i \in DOMAIN calls
        PROVE  /\ past'.home[calls[i].key] = calls[i].conv
               /\ calls[i].kind = "create" <=> calls[i].key \in past'.saved
    <3>1. calls[i].key \in Keys /\ calls[i].key # k
      BY <1>7, CallFacts
    <3> QED
      BY <1>3, <1>5, <1>8, <3>1 DEF CallsTrue
  <2>4. /\ calls'[Len(calls) + 1].key = k /\ calls'[Len(calls) + 1].conv = c
        /\ calls'[Len(calls) + 1].kind = "steer"
    BY <2>1
  <2>5. past'.home[k] = c /\ k \notin past'.saved
    BY <1>5, <1>6, <1>8
  <2> QED
    BY <2>1, <2>2, <2>3, <2>4, <2>5 DEF CallsTrue
<1>12. PastDrawn'
  BY <1>3, <1>4, <1>5, <1>8, ChatAssumption DEF PastDrawn
<1>13. IntentKept'
  <2>1. SUFFICES ASSUME NEW j, j \in past.saved \ (past.received \cup past.gaveUp)
        PROVE  slot'[past'.home[j]].state = "pending" /\ slot'[past'.home[j]].key = j
    BY <1>5 DEF IntentKept, Matches
  <2>2. slot[past.home[j]].state = "pending" /\ slot[past.home[j]].key = j
    BY <1>3, <2>1 DEF IntentKept, Matches
  <2>3. j \in Keys /\ past.home[j] \in Convs /\ past'.home[j] = past.home[j]
    BY <1>6, <1>8, <2>1, HomeConv
  <2> QED
    BY <1>2, <1>4, <2>1, <2>2, <2>3
<1>14. Held(tab)'
  <2>1. /\ tab'.active = c /\ tab'.broken = tab.broken /\ tab'.pending = tab.pending
        /\ tab'.prepared = tab.prepared /\ tab'.deferred = tab.deferred /\ tab'.unsaved = {}
    BY <1>1 DEF SteerStep, Home
  <2>2. PendingHeld(tab)'
    <3>1. SUFFICES ASSUME HasPending(tab)
          PROVE  /\ slot'[c].key = tab.pending.key /\ slot'[c].state \in {"pending", "acknowledged"}
                 /\ tab.pending.key \in past'.saved \ past'.gaveUp
      BY <1>4, <2>1 DEF PendingHeld, HasPending
    <3>2. /\ slot[c].key = tab.pending.key /\ slot[c].state \in {"pending", "acknowledged"}
          /\ tab.pending.key \in past.saved \ past.gaveUp
      BY <1>3, <3>1 DEF Held, PendingHeld
    <3> QED
      BY <1>2, <1>4, <1>5, <3>2
  <2>3. PreparedHeld(tab)'
    <3>1. SUFFICES ASSUME tab.prepared # NoKey
          PROVE  /\ past'.home[tab.prepared] = c /\ tab.prepared \notin past'.received \cup past'.gaveUp
                 /\ \A i \in DOMAIN calls' : calls'[i].key # tab.prepared
      BY <1>4, <2>1 DEF PreparedHeld
    <3>2. /\ past.home[tab.prepared] = c /\ tab.prepared \notin past.received \cup past.gaveUp
          /\ \A i \in DOMAIN calls : calls[i].key # tab.prepared
      BY <1>3, <3>1 DEF Held, PreparedHeld
    <3>3. tab.prepared # k /\ tab.prepared \in Keys
      <4>1. tab.prepared \in SomeKey
        BY <1>3, EngineType
      <4> QED
        BY <1>4, <3>1, <3>2, <4>1, SomeKeyIs, ChatAssumption
    <3>4. /\ DOMAIN calls' = DOMAIN calls \cup {Len(calls) + 1}
          /\ \A i \in DOMAIN calls : calls'[i] = calls[i]
          /\ calls'[Len(calls) + 1].key = k
      <4>1. calls' = NewCall(k, c, "steer")
        BY <1>1 DEF SteerStep
      <4>2. /\ DOMAIN calls' = DOMAIN calls \cup {Len(calls) + 1}
            /\ \A i \in DOMAIN calls : calls'[i] = calls[i]
            /\ calls'[Len(calls) + 1] =
                  [key |-> k, conv |-> c, kind |-> "steer", status |-> "sent", owner |-> "engine",
                   doomed |-> FALSE]
        BY <1>3, <1>4, <4>1, NewCallType
      <4>3. calls'[Len(calls) + 1].key = k
        BY <4>2
      <4> QED
        BY <4>2, <4>3
    <3> QED
      BY <1>5, <1>8, <3>2, <3>3, <3>4
  <2> QED
    BY <1>3, <1>5, <2>1, <2>2, <2>3 DEF Held, HasPending
<1>15. log' \in [Convs -> Seq(Event)] /\ gone' \subseteq Convs
  BY <1>4 DEF serverVars, IInv, TypeOK
<1>16. tab' \in Engine /\ tab'.active \in Convs /\ Listed(tab') /\ Follows(tab')
  BY <1>1, <1>3 DEF SteerStep, Home, Listed
<1>17. Records' /\ RecordTypes'
  BY <1>2, <1>4, <1>5, <1>10, <1>11, <1>12, <1>13, <1>15 DEF Records, RecordTypes
<1> QED
  BY <1>4, <1>14, <1>16, <1>17, Aside, InvParts

\* The facts of a pending intent.
LEMMA PendingFacts ==
    ASSUME IInv, HasPending(tab)
    PROVE  LET k == tab.pending.key  c == tab.active IN
           /\ k \in Keys /\ c \in Convs /\ past.home[k] = c
           /\ slot[c].key = k /\ slot[c].state \in {"pending", "acknowledged"}
           /\ k \in past.saved \ past.gaveUp /\ ~tab.broken
<1>1. tab \in Engine /\ SlotTrue /\ PendingHeld(tab) /\ ~tab.broken
  BY DEF IInv, TypeOK, Held
<1>2. tab.pending.key \in Keys
  BY <1>1, PendingKey
<1> QED
  BY <1>1, <1>2, KeysAssumption DEF PendingHeld, SlotTrue

\* The retry of a message whose receipt is known acknowledges its record and no other.
LEMMA RetryKnownSlots ==
    ASSUME IInv, RetryKnownStep
    PROVE  LET k == tab.pending.key  c == tab.active IN
           /\ slot' \in [Convs -> Slot] /\ \A d \in Convs \ {c} : slot'[d] = slot[d]
           /\ slot'[c].state = "acknowledged" /\ slot'[c].key = k
<1> DEFINE k == tab.pending.key
           c == tab.active
           s == Acknowledged(slot[c], k)
<1>1. /\ slot \in [Convs -> Slot] /\ k \in Keys /\ c \in Convs
      /\ slot[c].key = k /\ slot[c].state \in {"pending", "acknowledged"}
  BY PendingFacts DEF IInv, TypeOK, RetryKnownStep
<1>2. slot' = [slot EXCEPT ![c] = s]
  BY DEF RetryKnownStep
<1>3. s.state = "acknowledged" /\ s.key = k /\ s \in Slot
  BY <1>1, SlotOps DEF Acknowledged, Matches
<1> HIDE DEF s
<1> QED
  BY <1>1, <1>2, <1>3

\* The retry of a message whose receipt is known (reconcileKnownReceipt) preserves the inductive
\* invariant.
LEMMA RetryKnownInv == ASSUME IInv, RetryKnown PROVE IInv'
<1> DEFINE k == tab.pending.key
           c == tab.active
<1>1. RetryKnownStep
  BY RetryKnownFoot
<1>2. /\ slot \in [Convs -> Slot] /\ past \in Past /\ tab \in Engine
      /\ SlotTrue /\ CallsTrue /\ PastDrawn /\ IntentKept /\ Held(tab) /\ Listed(tab)
  BY DEF IInv, TypeOK
<1>3. /\ k \in Keys /\ c \in Convs /\ past.home[k] = c
      /\ slot[c].key = k /\ slot[c].state \in {"pending", "acknowledged"}
      /\ k \in past.saved \ past.gaveUp
  BY <1>1, PendingFacts DEF RetryKnownStep
<1>4. k \in past.received
  BY <1>1, <1>2, <1>3 DEF RetryKnownStep, KnownReceipt, SlotTrue, Held
<1>5. /\ slot' \in [Convs -> Slot] /\ \A d \in Convs \ {c} : slot'[d] = slot[d]
      /\ slot'[c].state = "acknowledged" /\ slot'[c].key = k
  BY <1>1, RetryKnownSlots
<1>6. UNCHANGED <<calls, serverVars, past>>
  BY <1>1 DEF RetryKnownStep
<1>7. SlotTrue'
  <2>1. SUFFICES ASSUME NEW d \in Convs
        PROVE  /\ slot'[d].state = "none" <=> slot'[d].key = NoKey
               /\ slot'[d].key # NoKey => past.home[slot'[d].key] = d
               /\ slot'[d].state = "pending" => slot'[d].key \in past.saved \ past.gaveUp
               /\ slot'[d].state = "acknowledged" => slot'[d].key \in past.received
               /\ slot'[d].state = "abandoned" => slot'[d].key \in past.gaveUp
    BY <1>6 DEF SlotTrue
  <2> QED
    BY <1>2, <1>3, <1>4, <1>5, KeysAssumption DEF SlotTrue
<1>8. IntentKept'
  <2>1. SUFFICES ASSUME NEW j, j \in past.saved \ (past.received \cup past.gaveUp)
        PROVE  slot'[past.home[j]].state = "pending" /\ slot'[past.home[j]].key = j
    BY <1>6 DEF IntentKept, Matches
  <2>2. slot[past.home[j]].key = j /\ j # k /\ past.home[j] \in Convs
        /\ slot[past.home[j]].state = "pending"
    BY <1>2, <1>4, <2>1, HomeConv DEF IntentKept, Matches
  <2> QED
    BY <1>3, <1>5, <2>2
<1>9. CallsTrue' /\ PastDrawn'
  BY <1>2, <1>6 DEF CallsTrue, PastDrawn
<1>10. tab' \in Engine /\ tab'.active \in Convs /\ Listed(tab') /\ Follows(tab')
  BY <1>1, <1>2 DEF RetryKnownStep, Home, Listed
<1>11. Held(tab)'
  BY <1>1, <1>2, <1>6 DEF RetryKnownStep, Held, PendingHeld, PreparedHeld, HasPending, NoPending
<1>12. Records' /\ RecordTypes'
  BY <1>5, <1>6, <1>7, <1>8, <1>9 DEF Records, RecordTypes, IInv, TypeOK, serverVars
<1> QED
  BY <1>6, <1>10, <1>11, <1>12, Aside, InvParts

\* Posting a message again changes no record.
LEMMA RetrySame == ASSUME IInv, RetryStep PROVE slot' = slot /\ past' = past
<1> DEFINE k == tab.pending.key
           c == tab.active
<1>1. slot \in [Convs -> Slot] /\ past \in Past
  BY DEF IInv, TypeOK
<1>2. /\ slot[c].key = k /\ slot[c].state \in {"pending", "acknowledged"} /\ k \in past.saved
  BY PendingFacts DEF RetryStep
<1>3. slot' = slot
  <2>1. CanSave(slot[c], k, TRUE)
    BY DEF RetryStep
  <2>2. Saved(slot[c], k) = slot[c]
    BY <1>2, <2>1 DEF CanSave, Closed, Saved, Matches
  <2>3. slot' = [slot EXCEPT ![c] = Saved(slot[c], k)]
    BY DEF RetryStep
  <2> QED
    BY <1>1, <2>2, <2>3
<1>4. past' = past
  <2>1. past' = [past EXCEPT !.saved = past.saved \cup {k}]
    BY DEF RetryStep
  <2>2. past.saved \cup {k} = past.saved
    BY <1>2
  <2> QED
    BY <1>1, <2>1, <2>2 DEF Past
<1> QED
  BY <1>3, <1>4

\* Posting a message again (retry) preserves the inductive invariant.
LEMMA RetryInv == ASSUME IInv, Retry PROVE IInv'
<1> DEFINE k == tab.pending.key
           c == tab.active
<1>1. RetryStep
  BY RetryFoot
<1>2. /\ slot \in [Convs -> Slot] /\ past \in Past /\ tab \in Engine /\ calls \in Seq(Call)
      /\ SlotTrue /\ CallsTrue /\ PastDrawn /\ IntentKept /\ Held(tab) /\ Listed(tab)
  BY DEF IInv, TypeOK
<1>3. /\ k \in Keys /\ c \in Convs /\ past.home[k] = c
      /\ slot[c].key = k /\ slot[c].state \in {"pending", "acknowledged"}
      /\ k \in past.saved \ past.gaveUp /\ ~tab.broken
  BY <1>1, PendingFacts DEF RetryStep
<1>4. slot' = slot /\ past' = past
  BY <1>1, RetrySame
<1>5. /\ calls' \in Seq(Call) /\ Len(calls') = Len(calls) + 1
      /\ DOMAIN calls' = DOMAIN calls \cup {Len(calls) + 1}
      /\ \A i \in DOMAIN calls : calls'[i] = calls[i]
      /\ calls'[Len(calls) + 1] =
            [key |-> k, conv |-> c, kind |-> "create", status |-> "sent", owner |-> "engine",
             doomed |-> FALSE]
  <2>1. calls' = NewCall(k, c, "create")
    BY <1>1 DEF RetryStep
  <2> QED
    BY <1>2, <1>3, <2>1, NewCallType
<1>6. Len(calls') <= MaxCalls
  BY <1>1, <1>2, <1>5, SeqFacts, ChatAssumption DEF RetryStep
<1>7. CallsTrue'
  <2>1. /\ calls'[Len(calls) + 1].key = k /\ calls'[Len(calls) + 1].conv = c
        /\ calls'[Len(calls) + 1].kind = "create"
    BY <1>5
  <2> QED
    BY <1>2, <1>3, <1>4, <1>5, <2>1 DEF CallsTrue
<1>8. SlotTrue' /\ PastDrawn' /\ IntentKept'
  BY <1>2, <1>4 DEF SlotTrue, PastDrawn, IntentKept, Matches
<1>9. tab' \in Engine /\ tab'.active \in Convs /\ Listed(tab') /\ Follows(tab') /\ UNCHANGED serverVars
  BY <1>1, <1>2 DEF RetryStep, Home, Listed
<1>10. Held(tab)'
  BY <1>1, <1>2, <1>3, <1>4 DEF RetryStep, Home, Held, PendingHeld, PreparedHeld, HasPending
<1>11. Records' /\ RecordTypes'
  BY <1>4, <1>5, <1>6, <1>7, <1>8, <1>9 DEF Records, RecordTypes, IInv, TypeOK, serverVars
<1> QED
  BY <1>9, <1>10, <1>11, Aside, InvParts

\* The key of the intent that is given up.
LEMMA IntentFacts ==
    ASSUME IInv, Intent(tab) # NoKey
    PROVE  /\ Intent(tab) \in Keys /\ tab.active \in Convs
           /\ past.home[Intent(tab)] = tab.active
<1>1. tab \in Engine /\ Held(tab)
  BY DEF IInv, TypeOK
<1>2. CASE HasPending(tab)
  BY <1>2, PendingFacts DEF Intent
<1>3. CASE ~HasPending(tab)
  <2>1. Intent(tab) = tab.prepared /\ tab.prepared # NoKey
    BY <1>3 DEF Intent
  <2>2. tab.prepared \in Keys
    <3>1. tab.prepared \in SomeKey
      BY <1>1, EngineType
    <3> QED
      BY <2>1, <3>1, SomeKeyIs
  <2> QED
    BY <1>1, <2>1, <2>2 DEF Held, PreparedHeld
<1> QED
  BY <1>2, <1>3

\* What giving the intent up does to the records.
GivenUp(k, c) ==
    /\ slot' \in [Convs -> Slot] /\ \A d \in Convs \ {c} : slot'[d] = slot[d]
    /\ k = NoKey => slot' = slot
    /\ k # NoKey =>
          /\ k \in Keys /\ c \in Convs /\ past.home[k] = c
          /\ slot[c].state = "none" \/ slot[c].key = k
          /\ slot'[c].key = k
          /\ \/ slot'[c].state = "abandoned"
             \/ slot'[c].state = slot[c].state /\ slot[c].state = "acknowledged" /\ slot[c].key = k
    /\ past' \in Past /\ past'.home = past.home /\ past'.saved = past.saved
    /\ past'.received = past.received /\ past'.gaveUp = past.gaveUp \cup ({k} \ {NoKey})
    /\ past'.cancels = past.cancels \cup Cancelled(tab)
    /\ CallsLike

\* abandonPendingSubmission gives the intent up: in the record if it is there, and in the history.
LEMMA AbandonFoot ==
    ASSUME IInv, AbandonRecords(tab), \E works \in BOOLEAN : AbandonWorks(tab, works)
    PROVE  GivenUp(Intent(tab), tab.active)
<1> DEFINE k == Intent(tab)
           c == tab.active
<1>1. slot \in [Convs -> Slot] /\ past \in Past /\ tab \in Engine
  BY DEF IInv, TypeOK
<1>2. k # NoKey => k \in Keys /\ c \in Convs /\ past.home[k] = c
  BY IntentFacts
<1>3. k # NoKey => slot[c].state = "none" \/ Matches(slot[c], k) \/ Closed(slot[c], k)
  BY DEF AbandonWorks, CanAbandon
<1>4. CallsLike
  BY AbandonLike
<1>5. /\ past' \in Past /\ past'.home = past.home /\ past'.saved = past.saved
      /\ past'.received = past.received /\ past'.gaveUp = past.gaveUp \cup ({k} \ {NoKey})
      /\ past'.cancels = past.cancels \cup Cancelled(tab)
  <2>1. past' = [past EXCEPT !.gaveUp = past.gaveUp \cup ({k} \ {NoKey}),
                             !.cancels = past.cancels \cup Cancelled(tab)]
    BY DEF AbandonRecords
  <2>2. ({k} \ {NoKey}) \subseteq Keys
    BY <1>2
  <2>3. Cancelled(tab) \subseteq Keys
    BY <1>1, PendingKey DEF Cancelled, IInv, Held
  <2> HIDE DEF k
  <2> QED
    BY <1>1, <2>1, <2>2, <2>3 DEF Past
<1>6. k = NoKey => slot' = slot
  BY DEF AbandonRecords
<1>7. ASSUME k # NoKey
      PROVE  /\ slot' \in [Convs -> Slot] /\ \A d \in Convs \ {c} : slot'[d] = slot[d]
             /\ slot'[c].key = k
             /\ \/ slot'[c].state = "abandoned"
                \/ slot'[c].state = slot[c].state /\ slot[c].state = "acknowledged" /\ slot[c].key = k
             /\ slot[c].state = "none" \/ slot[c].key = k
  <2>1. slot' = [slot EXCEPT ![c] = Abandoned(slot[c], k)]
    BY <1>7 DEF AbandonRecords
  <2>2. k \in Keys /\ c \in Convs /\ slot[c] \in Slot
    BY <1>1, <1>2, <1>7
  <2> DEFINE s == Abandoned(slot[c], k)
  <2>3. s \in Slot
    BY <2>2, SlotOps
  <2>4. /\ s.key = k
        /\ s.state = "abandoned" \/ (s.state = slot[c].state /\ slot[c].state = "acknowledged" /\ slot[c].key = k)
    BY DEF Abandoned, Closed
  <2>5. slot[c].state = "none" \/ slot[c].key = k
    BY <1>3, <1>7 DEF Matches, Closed
  <2> HIDE DEF s, k
  <2> QED
    BY <1>1, <2>1, <2>2, <2>3, <2>4, <2>5 DEF s
<1> HIDE DEF k
<1>8. slot' \in [Convs -> Slot] /\ \A d \in Convs \ {c} : slot'[d] = slot[d]
  BY <1>1, <1>6, <1>7
<1> QED
  BY <1>2, <1>4, <1>5, <1>6, <1>7, <1>8 DEF GivenUp, k

\* Giving an intent up keeps what is said of the records.
LEMMA AbandonInv ==
    ASSUME IInv, GivenUp(Intent(tab), tab.active), UNCHANGED serverVars
    PROVE  Records' /\ RecordTypes'
<1> DEFINE k == Intent(tab)
           c == tab.active
<1>1. /\ slot \in [Convs -> Slot] /\ past \in Past /\ calls \in Seq(Call) /\ Len(calls) <= MaxCalls
      /\ SlotTrue /\ CallsTrue /\ PastDrawn /\ IntentKept
  BY DEF IInv, TypeOK
<1>2. GivenUp(k, c)
  OBVIOUS
<1> HIDE DEF k
<1>3. SlotTrue'
  <2>1. SUFFICES ASSUME NEW d \in Convs
        PROVE  /\ slot'[d].state = "none" <=> slot'[d].key = NoKey
               /\ slot'[d].key # NoKey => past'.home[slot'[d].key] = d
               /\ slot'[d].state = "pending" => slot'[d].key \in past'.saved \ past'.gaveUp
               /\ slot'[d].state = "acknowledged" => slot'[d].key \in past'.received
               /\ slot'[d].state = "abandoned" => slot'[d].key \in past'.gaveUp
    BY DEF SlotTrue
  <2>2. /\ slot[d].state = "none" <=> slot[d].key = NoKey
        /\ slot[d].key # NoKey => past.home[slot[d].key] = d
        /\ slot[d].state = "pending" => slot[d].key \in past.saved \ past.gaveUp
        /\ slot[d].state = "acknowledged" => slot[d].key \in past.received
        /\ slot[d].state = "abandoned" => slot[d].key \in past.gaveUp
    BY <1>1 DEF SlotTrue
  <2>3. CASE k = NoKey
    BY <1>2, <2>2, <2>3 DEF GivenUp
  <2>4. CASE k # NoKey /\ d # c
    <3>1. slot'[d] = slot[d]
      BY <1>2, <2>4 DEF GivenUp
    <3>2. slot[d].key # k
      BY <1>2, <2>2, <2>4 DEF GivenUp
    <3> QED
      BY <1>2, <2>2, <3>1, <3>2 DEF GivenUp
  <2>5. CASE k # NoKey /\ d = c
    BY <1>2, <2>2, <2>5 DEF GivenUp
  <2> QED
    BY <2>3, <2>4, <2>5
<1>4. CallsTrue'
  BY <1>1, <1>2 DEF GivenUp, CallsTrue, CallsLike
<1>5. PastDrawn'
  <2>1. SUFFICES ASSUME NEW j \in Keys, past.home[j] = NoConv
        PROVE  j \notin past'.saved \cup past'.received \cup past'.gaveUp
    BY <1>2 DEF PastDrawn, GivenUp
  <2>2. j \notin past.saved \cup past.received \cup past.gaveUp
    BY <1>1, <2>1 DEF PastDrawn
  <2>3. k # NoKey => j # k
    BY <1>2, <2>1, ChatAssumption DEF GivenUp
  <2> QED
    BY <1>2, <2>2, <2>3 DEF GivenUp
<1>6. IntentKept'
  <2>1. SUFFICES ASSUME NEW j, j \in past'.saved \ (past'.received \cup past'.gaveUp)
        PROVE  slot'[past'.home[j]].state = "pending" /\ slot'[past'.home[j]].key = j
    BY DEF IntentKept, Matches
  <2>2. j \in past.saved \ (past.received \cup past.gaveUp) /\ (k # NoKey => j # k)
        /\ past'.home[j] = past.home[j]
    BY <1>2, <2>1 DEF GivenUp
  <2> DEFINE d == past.home[j]
  <2>3. slot[d].state = "pending" /\ slot[d].key = j /\ d \in Convs
    BY <1>1, <2>2, HomeConv DEF IntentKept, Matches
  <2> HIDE DEF d
  <2>4. slot'[d] = slot[d]
    BY <1>2, <2>2, <2>3 DEF GivenUp
  <2> QED
    BY <2>2, <2>3, <2>4 DEF d
<1> QED
  BY <1>1, <1>2, <1>3, <1>4, <1>5, <1>6 DEF Records, RecordTypes, GivenUp, CallsLike, serverVars, IInv, TypeOK

\* An engine that holds the record's intent, or none, holds what is true.
LEMMA ShownHeld ==
    ASSUME tab'.active \in Convs, SlotTrue', tab'.prepared = NoKey, ~tab'.deferred,
           tab'.unsaved \subseteq past'.received,
           \/ tab'.pending = NoPending
           \/ /\ ~tab'.broken /\ slot'[tab'.active].state = "pending"
              /\ tab'.pending = [key |-> slot'[tab'.active].key, id |-> 0]
    PROVE  Held(tab)'
<1>1. CASE tab'.pending = NoPending
  <2>1. tab'.pending.key = NoKey
    BY <1>1 DEF NoPending
  <2> QED
    BY <2>1 DEF Held, PendingHeld, PreparedHeld, HasPending
<1>2. CASE /\ ~tab'.broken /\ slot'[tab'.active].state = "pending"
           /\ tab'.pending = [key |-> slot'[tab'.active].key, id |-> 0]
  <2>1. tab'.pending.key = slot'[tab'.active].key
    BY <1>2
  <2>2. slot'[tab'.active].key \in past'.saved \ past'.gaveUp
    BY <1>2 DEF SlotTrue
  <2> QED
    BY <1>2, <2>1, <2>2 DEF Held, PendingHeld, PreparedHeld, HasPending
<1> QED
  BY <1>1, <1>2

\* Giving a message up before its receipt (cancelPendingSubmission) preserves the inductive
\* invariant.
LEMMA StopSubmissionInv == ASSUME IInv, StopSubmission PROVE IInv'
<1>1. StopSubmissionStep
  BY StopSubmissionFoot
<1>2. GivenUp(Intent(tab), tab.active) /\ UNCHANGED serverVars
  BY <1>1, AbandonFoot DEF StopSubmissionStep
<1>3. Records' /\ RecordTypes'
  BY <1>2, AbandonInv
<1>4. tab' \in Engine /\ tab'.active \in Convs /\ Listed(tab') /\ Follows(tab')
  BY <1>1 DEF StopSubmissionStep, Home, Listed, IInv
<1>5. Held(tab)'
  BY <1>1, <1>2, <1>3, <1>4, ShownHeld DEF StopSubmissionStep, GivenUp, Records, IInv, Held
<1> QED
  BY <1>2, <1>3, <1>4, <1>5, Aside, InvParts

\* Opening a conversation of one's own (newConversation) preserves the inductive invariant.
LEMMA NewInv == ASSUME IInv, NEW c \in Convs, New(c) PROVE IInv'
<1>1. NewStep
  BY NewFoot
<1>2. GivenUp(Intent(tab), tab.active) /\ UNCHANGED serverVars
  BY <1>1, AbandonFoot DEF NewStep
<1>3. Records' /\ RecordTypes'
  BY <1>2, AbandonInv
<1>4. tab' \in Engine /\ tab'.active \in Convs /\ Listed(tab') /\ Follows(tab')
  BY <1>1 DEF NewStep
<1>5. Held(tab)'
  BY <1>1, <1>2, <1>3, <1>4, ShownHeld DEF NewStep, GivenUp, Records, IInv, Held
<1> QED
  BY <1>2, <1>3, <1>4, <1>5, Aside, InvParts

\* A recovery that finds no conversation (hydrate after an expired cursor) preserves the inductive
\* invariant.
LEMMA RecoverAbsentInv == ASSUME IInv, RecoverAbsent PROVE IInv'
<1>1. CASE QuietStep
  BY <1>1, QuietInv
<1>2. CASE RecoverAbsentStep
  <2>1. GivenUp(Intent(tab), tab.active) /\ UNCHANGED serverVars
    BY <1>2, AbandonFoot DEF RecoverAbsentStep
  <2>2. Records' /\ RecordTypes'
    BY <2>1, AbandonInv
  <2>3. /\ tab' \in Engine /\ tab'.active \in Convs /\ Listed(tab') /\ Follows(tab')
        /\ tab'.active # tab.active
    BY <1>2 DEF RecoverAbsentStep
  <2>4. slot'[tab'.active] = slot[tab'.active]
    BY <2>1, <2>3 DEF GivenUp
  <2>5. Held(tab)'
    BY <1>2, <2>1, <2>2, <2>3, <2>4, ShownHeld DEF RecoverAbsentStep, GivenUp, Records, IInv, Held
  <2> QED
    BY <2>1, <2>2, <2>3, <2>5, Aside, InvParts
<1> QED
  BY <1>1, <1>2, RecoverAbsentFoot

\* What the receipt of k writes into the record of its conversation c.
Receipted(k, c) ==
    /\ slot' \in [Convs -> Slot] /\ \A d \in Convs \ {c} : slot'[d] = slot[d]
    /\ \/ slot'[c] = slot[c]
       \/ /\ slot[c].state = "none" \/ Matches(slot[c], k)
          /\ slot'[c].state = "acknowledged" /\ slot'[c].key = k
    /\ past' \in Past /\ past'.home = past.home /\ past'.saved = past.saved
    /\ past'.received = past.received \cup {k} /\ past'.gaveUp = past.gaveUp

\* A receipt acknowledges the record of its key, or leaves the records alone.
LEMMA ReceiptedFoot ==
    ASSUME IInv, NEW i \in DOMAIN calls, NEW works \in BOOLEAN, ReceiptStep(i, works)
    PROVE  Receipted(calls[i].key, calls[i].conv)
<1> DEFINE k == calls[i].key
           c == calls[i].conv
           s == Acknowledged(slot[c], k)
           cancels == IF calls[i].doomed THEN past.cancels \cup {k} ELSE past.cancels
<1>1. k \in Keys /\ c \in Convs /\ slot \in [Convs -> Slot] /\ past \in Past
  BY CallFacts DEF IInv, TypeOK
<1>2. slot' = IF works THEN [slot EXCEPT ![c] = s] ELSE slot
  BY DEF ReceiptStep
<1>3. s \in Slot
  <2>1. slot[c] \in Slot
    BY <1>1
  <2> QED
    BY <1>1, <2>1, SlotOps
<1>4. s = slot[c] \/ ((slot[c].state = "none" \/ Matches(slot[c], k)) /\ s.state = "acknowledged" /\ s.key = k)
  BY DEF Acknowledged
<1>5. past' = [past EXCEPT !.received = past.received \cup {k}, !.cancels = cancels]
  BY DEF ReceiptStep
<1>6. cancels \subseteq Keys
  BY <1>1, PastFields DEF KeySets
<1> HIDE DEF k, c, s, cancels
<1>7. /\ past' \in Past /\ past'.home = past.home /\ past'.saved = past.saved
      /\ past'.received = past.received \cup {k} /\ past'.gaveUp = past.gaveUp
  BY <1>1, <1>5, <1>6 DEF Past
<1>8. slot' \in [Convs -> Slot] /\ \A d \in Convs \ {c} : slot'[d] = slot[d]
  BY <1>1, <1>2, <1>3
<1>9. \/ slot'[c] = slot[c]
      \/ /\ slot[c].state = "none" \/ Matches(slot[c], k)
         /\ slot'[c].state = "acknowledged" /\ slot'[c].key = k
  BY <1>1, <1>2, <1>4
<1> QED
  BY <1>7, <1>8, <1>9 DEF Receipted, k, c

\* A receipt keeps what is said of the records.
LEMMA ReceiptedRecords ==
    ASSUME IInv, NEW k \in Keys, NEW c \in Convs, past.home[k] = c, Receipted(k, c), CallsLike,
           UNCHANGED serverVars
    PROVE  Records' /\ RecordTypes'
<1>1. /\ slot \in [Convs -> Slot] /\ past \in Past /\ calls \in Seq(Call) /\ Len(calls) <= MaxCalls
      /\ SlotTrue /\ CallsTrue /\ PastDrawn /\ IntentKept
  BY DEF IInv, TypeOK
<1>2. SlotTrue'
  <2>1. SUFFICES ASSUME NEW d \in Convs
        PROVE  /\ slot'[d].state = "none" <=> slot'[d].key = NoKey
               /\ slot'[d].key # NoKey => past'.home[slot'[d].key] = d
               /\ slot'[d].state = "pending" => slot'[d].key \in past'.saved \ past'.gaveUp
               /\ slot'[d].state = "acknowledged" => slot'[d].key \in past'.received
               /\ slot'[d].state = "abandoned" => slot'[d].key \in past'.gaveUp
    BY DEF SlotTrue
  <2>2. /\ slot[d].state = "none" <=> slot[d].key = NoKey
        /\ slot[d].key # NoKey => past.home[slot[d].key] = d
        /\ slot[d].state = "pending" => slot[d].key \in past.saved \ past.gaveUp
        /\ slot[d].state = "acknowledged" => slot[d].key \in past.received
        /\ slot[d].state = "abandoned" => slot[d].key \in past.gaveUp
    BY <1>1 DEF SlotTrue
  <2>3. CASE slot'[d] = slot[d]
    BY <2>2, <2>3 DEF Receipted
  <2>4. CASE d = c /\ slot'[c].state = "acknowledged" /\ slot'[c].key = k
    BY <2>4, KeysAssumption DEF Receipted
  <2> QED
    BY <2>3, <2>4 DEF Receipted
<1>3. CallsTrue'
  BY <1>1 DEF Receipted, CallsTrue, CallsLike
<1>4. PastDrawn'
  BY <1>1, ChatAssumption DEF Receipted, PastDrawn
<1>5. IntentKept'
  <2>1. SUFFICES ASSUME NEW j, j \in past'.saved \ (past'.received \cup past'.gaveUp)
        PROVE  slot'[past'.home[j]].state = "pending" /\ slot'[past'.home[j]].key = j
    BY DEF IntentKept, Matches
  <2>2. j \in past.saved \ (past.received \cup past.gaveUp) /\ j # k /\ past'.home[j] = past.home[j]
    BY <2>1 DEF Receipted
  <2> DEFINE d == past.home[j]
  <2>3. slot[d].state = "pending" /\ slot[d].key = j /\ d \in Convs
    BY <1>1, <2>2, HomeConv DEF IntentKept, Matches
  <2> HIDE DEF d
  <2>4. slot'[d] = slot[d]
    BY <2>2, <2>3 DEF Receipted, Matches
  <2> QED
    BY <2>2, <2>3, <2>4 DEF d
<1> QED
  BY <1>1, <1>2, <1>3, <1>4, <1>5 DEF Records, RecordTypes, Receipted, CallsLike, serverVars, IInv, TypeOK

\* The receipt of a create-message call (beginRun then) preserves the inductive invariant.
LEMMA ReceiptInv == ASSUME IInv, NEW i \in DOMAIN calls, Receipt(i) PROVE IInv'
<1> DEFINE k == calls[i].key
           c == calls[i].conv
<1>1. PICK works \in BOOLEAN : ReceiptStep(i, works)
  BY ReceiptFoot DEF Works
<1>2. /\ k \in Keys /\ c \in Convs /\ past.home[k] = c /\ tab \in Engine /\ tab.active \in Convs
      /\ Held(tab) /\ Listed(tab)
  BY CallFacts DEF IInv, CallsTrue
<1>3. Receipted(k, c) /\ UNCHANGED serverVars
  BY <1>1, ReceiptedFoot DEF ReceiptStep
<1>4. CallsLike
  BY <1>1, SettledLike, ConsumedLike DEF ReceiptStep
<1>5. Records' /\ RecordTypes'
  BY <1>2, <1>3, <1>4, ReceiptedRecords
<1>6. /\ tab' \in Engine /\ tab'.active \in Convs /\ Listed(tab') /\ Follows(tab')
      /\ tab'.active = tab.active /\ tab'.broken = tab.broken
  BY <1>1, <1>2 DEF ReceiptStep, Home, Listed
<1>7. /\ tab'.unsaved \subseteq tab.unsaved \cup {k}
      /\ tab'.pending \in {tab.pending, NoPending} /\ tab'.prepared \in {tab.prepared, NoKey}
      /\ tab'.deferred => tab'.pending = tab.pending /\ (tab.deferred \/ tab.pending.key = k)
  BY <1>1 DEF ReceiptStep, Taken, Holds
<1> HIDE DEF k, c
<1>8. Held(tab)'
  <2>1. PendingHeld(tab)'
    <3>1. SUFFICES ASSUME tab'.pending.key # NoKey, tab'.pending = tab.pending
          PROVE  /\ slot'[tab.active].key = tab.pending.key
                 /\ slot'[tab.active].state \in {"pending", "acknowledged"}
                 /\ tab.pending.key \in past'.saved \ past'.gaveUp
      <4>1. NoPending.key = NoKey
        BY DEF NoPending
      <4> QED
        BY <1>6, <1>7, <4>1 DEF PendingHeld, HasPending
    <3>2. /\ slot[tab.active].key = tab.pending.key
          /\ slot[tab.active].state \in {"pending", "acknowledged"}
          /\ tab.pending.key \in past.saved \ past.gaveUp
      BY <1>2, <3>1 DEF Held, PendingHeld, HasPending
    <3> QED
      BY <1>2, <1>3, <3>2 DEF Receipted, Matches
  <2>2. PreparedHeld(tab)'
    <3>1. SUFFICES ASSUME tab'.prepared # NoKey, tab'.prepared = tab.prepared
          PROVE  /\ past'.home[tab.prepared] = tab.active
                 /\ tab.prepared \notin past'.received \cup past'.gaveUp
                 /\ \A j \in DOMAIN calls' : calls'[j].key # tab.prepared
      BY <1>6, <1>7 DEF PreparedHeld
    <3>2. /\ past.home[tab.prepared] = tab.active
          /\ tab.prepared \notin past.received \cup past.gaveUp
          /\ \A j \in DOMAIN calls : calls[j].key # tab.prepared
      BY <1>2, <3>1 DEF Held, PreparedHeld
    <3> QED
      BY <1>3, <1>4, <3>2 DEF Receipted, CallsLike, k
  <2>3. (tab.unsaved \subseteq past.received)'
    BY <1>2, <1>3, <1>7 DEF Held, Receipted
  <2>4. (tab.deferred => HasPending(tab) /\ tab.pending.key \in past.received)'
    BY <1>2, <1>3, <1>7, KeysAssumption DEF Held, Receipted, HasPending
  <2>5. (tab.broken => ~HasPending(tab) /\ tab.prepared = NoKey)'
    BY <1>2, <1>6, <1>7 DEF Held, HasPending, NoPending
  <2> QED
    BY <2>1, <2>2, <2>3, <2>4, <2>5 DEF Held
<1> QED
  BY <1>3, <1>5, <1>6, <1>8, Aside, InvParts

\* A failed call leaves every record the record of its key, pending as it was.
LEMMA CreateFailsSlots ==
    ASSUME IInv, NEW i \in DOMAIN calls, NEW works, NEW code \in {"failed", "unknown"},
           CreateFailsStep(i, works, code)
    PROVE  /\ slot' \in [Convs -> Slot]
           /\ \A d \in Convs : slot'[d].state = slot[d].state /\ slot'[d].key = slot[d].key
<1> DEFINE c == tab.active
           s == Failed(slot[c], calls[i].key, code)
<1>1. slot \in [Convs -> Slot] /\ slot[c] \in Slot /\ c \in Convs /\ calls[i].key \in Keys
  BY CallFacts DEF IInv, TypeOK
<1>2. s \in Slot
  BY <1>1, SlotOps
<1>3. s.state = slot[c].state /\ s.key = slot[c].key
  BY <1>1 DEF Failed, Slot
<1>4. slot' = IF works THEN [slot EXCEPT ![c] = s] ELSE slot
  BY DEF CreateFailsStep
<1> HIDE DEF s, c
<1> QED
  BY <1>1, <1>2, <1>3, <1>4

\* The failure of a create-message call (beginRun catch) preserves the inductive invariant.
LEMMA CreateFailsInv == ASSUME IInv, NEW i \in DOMAIN calls, CreateFails(i) PROVE IInv'
<1>1. PICK works \in BOOLEAN, code \in {"failed", "unknown"} : CreateFailsStep(i, works, code)
  BY CreateFailsFoot
<1>2. /\ slot \in [Convs -> Slot] /\ calls[i].key \in Keys /\ tab \in Engine /\ tab.active \in Convs
      /\ SlotTrue /\ CallsTrue /\ PastDrawn /\ IntentKept /\ Held(tab) /\ Listed(tab)
  BY CallFacts DEF IInv, TypeOK
<1>3. CallsLike
  BY <1>1, SettledLike DEF CreateFailsStep
<1>4. /\ slot' \in [Convs -> Slot]
      /\ \A d \in Convs : slot'[d].state = slot[d].state /\ slot'[d].key = slot[d].key
  BY <1>1, CreateFailsSlots
<1>5. UNCHANGED <<serverVars, past>> /\ tab' \in Engine /\ Kept(tab, tab') /\ Follows(tab')
  BY <1>1 DEF CreateFailsStep
<1>6. SlotTrue' /\ IntentKept'
  <2>1. SlotTrue'
    <3>1. SUFFICES ASSUME NEW d \in Convs
          PROVE  /\ slot'[d].state = "none" <=> slot'[d].key = NoKey
                 /\ slot'[d].key # NoKey => past.home[slot'[d].key] = d
                 /\ slot'[d].state = "pending" => slot'[d].key \in past.saved \ past.gaveUp
                 /\ slot'[d].state = "acknowledged" => slot'[d].key \in past.received
                 /\ slot'[d].state = "abandoned" => slot'[d].key \in past.gaveUp
      BY <1>5 DEF SlotTrue
    <3> QED
      BY <1>2, <1>4 DEF SlotTrue
  <2>2. IntentKept'
    <3>1. SUFFICES ASSUME NEW j, j \in past.saved \ (past.received \cup past.gaveUp)
          PROVE  slot'[past.home[j]].state = "pending" /\ slot'[past.home[j]].key = j
      BY <1>5 DEF IntentKept, Matches
    <3>2. past.home[j] \in Convs
      BY <3>1, HomeConv
    <3> QED
      BY <1>2, <1>4, <3>1, <3>2 DEF IntentKept, Matches
  <2> QED
    BY <2>1, <2>2
<1>7. CallsTrue' /\ PastDrawn'
  BY <1>2, <1>3, <1>5 DEF CallsTrue, PastDrawn, CallsLike
<1>8. Held(tab)'
  BY <1>2, <1>3, <1>4, <1>5 DEF Kept, Held, PendingHeld, PreparedHeld, HasPending, CallsLike
<1>9. tab'.active \in Convs /\ Listed(tab')
  BY <1>2, <1>5 DEF Kept, Listed
<1>10. Records' /\ RecordTypes'
  BY <1>3, <1>4, <1>5, <1>6, <1>7 DEF Records, RecordTypes, CallsLike, serverVars, IInv, TypeOK
<1> QED
  BY <1>5, <1>8, <1>9, <1>10, Aside, InvParts

\* The end of a call made during a run (submit steer then, catch) preserves the inductive
\* invariant.
LEMMA SteerAnsweredInv == ASSUME IInv, NEW i \in DOMAIN calls, SteerAnswered(i) PROVE IInv'
<1> DEFINE k == calls[i].key
<1>1. /\ past \in Past /\ k \in Keys /\ tab \in Engine /\ tab.active \in Convs
      /\ SlotTrue /\ CallsTrue /\ PastDrawn /\ IntentKept /\ Held(tab) /\ Listed(tab)
      /\ calls[i].conv \in Convs
  BY CallFacts DEF IInv, TypeOK
<1>2. past.home[k] # NoConv
  BY <1>1, ChatAssumption DEF CallsTrue
<1>3. CallsLike
  BY SettledLike DEF SteerAnswered
<1>4. /\ UNCHANGED <<slot, serverVars>> /\ tab' \in Engine /\ Kept(tab, tab') /\ Follows(tab')
      /\ \A j \in DOMAIN calls : calls[j].key = tab.prepared => tab.prepared = NoKey
  BY <1>1 DEF SteerAnswered, Held, PreparedHeld
<1>5. /\ past' \in Past /\ past'.home = past.home /\ past'.saved = past.saved
      /\ past'.received \in {past.received, past.received \cup {k}} /\ past'.gaveUp = past.gaveUp
  <2>1. past' = past \/ past' = [past EXCEPT !.received = past.received \cup {k}]
    BY DEF SteerAnswered
  <2> HIDE DEF k
  <2> QED
    BY <1>1, <2>1 DEF Past
<1> HIDE DEF k
<1>6. SlotTrue' /\ IntentKept' /\ CallsTrue' /\ PastDrawn'
  <2>1. SlotTrue'
    BY <1>1, <1>4, <1>5 DEF SlotTrue
  <2>2. IntentKept'
    BY <1>1, <1>4, <1>5 DEF IntentKept, Matches
  <2>3. CallsTrue'
    BY <1>1, <1>3, <1>5 DEF CallsTrue, CallsLike
  <2>4. PastDrawn'
    BY <1>1, <1>2, <1>5 DEF PastDrawn
  <2> QED
    BY <2>1, <2>2, <2>3, <2>4
<1>7. Held(tab)'
  <2>1. PendingHeld(tab)'
    BY <1>1, <1>4, <1>5 DEF Kept, Held, PendingHeld, HasPending
  <2>2. PreparedHeld(tab)'
    BY <1>1, <1>3, <1>4, <1>5 DEF Kept, Held, PreparedHeld, CallsLike, k
  <2> QED
    BY <1>1, <1>4, <1>5, <2>1, <2>2 DEF Kept, Held, HasPending
<1>8. tab'.active \in Convs /\ Listed(tab')
  BY <1>1, <1>4 DEF Kept, Listed
<1>9. Records' /\ RecordTypes'
  BY <1>3, <1>4, <1>5, <1>6 DEF Records, RecordTypes, CallsLike, serverVars, IInv, TypeOK
<1> QED
  BY <1>4, <1>7, <1>8, <1>9, Aside, InvParts

\* A new engine over the same storage (reload, dispose) preserves the inductive invariant.
LEMMA RestartInv == ASSUME IInv, NEW owner, Restart(owner) PROVE IInv'
  BY RestartShow, RestartLike, ShowInv

\* The ledgers grow while the engine does nothing.
Grows ==
    /\ UNCHANGED <<tab, slot, past>>
    /\ log' \in [Convs -> Seq(Event)] /\ gone' \subseteq Convs
    /\ \A c \in Convs : Len(log'[c]) \in Nat /\ Len(log[c]) <= Len(log'[c])

\* A step of the service preserves the inductive invariant.
LEMMA GrowsInv ==
    ASSUME IInv, Grows, UNCHANGED calls \/ (CallsLike /\ tab.active \in Convs)
    PROVE  IInv'
<1>1. Records'
  BY RecordsSame DEF Grows
<1>2. RecordTypes'
  BY DEF Grows, IInv, TypeOK, RecordTypes, CallsLike
<1>3. Blank'
  BY ChatAssumption DEF IInv, Blank, Grows
<1>4. Behind'
  <2>1. SUFFICES ASSUME tab.active \in Convs
        PROVE  tab.position <= Len(log'[tab.active]) /\ tab.read.at <= Len(log'[tab.active])
    BY DEF Behind, Grows
  <2>2. /\ Len(log[tab.active]) \in Nat /\ Len(log'[tab.active]) \in Nat
        /\ Len(log[tab.active]) <= Len(log'[tab.active])
    BY <2>1, LogLength DEF Grows
  <2>3. tab.position <= Len(log[tab.active]) /\ tab.read.at <= Len(log[tab.active])
    BY <2>1 DEF IInv, Behind
  <2>4. tab.position \in Int /\ tab.read.at \in Int
    BY EngineType DEF IInv, TypeOK, ReadType, Travelling
  <2> QED
    BY <2>2, <2>3, <2>4
<1>5. tab' \in Engine /\ Listed(tab')
  BY DEF IInv, TypeOK, Listed, Grows
<1>6. Held(tab)'
  BY DEF IInv, Grows, CallsLike, Held, PendingHeld, PreparedHeld, HasPending
<1> QED
  BY <1>1, <1>2, <1>3, <1>4, <1>5, <1>6, InvParts

\* Appending an event leaves ledgers, none of them shorter.
LEMMA LedgersGrow ==
    ASSUME IInv, NEW c \in Convs, NEW ev \in Event,
           log' = log \/ log' = [log EXCEPT ![c] = Append(@, ev)]
    PROVE  /\ log' \in [Convs -> Seq(Event)]
           /\ \A d \in Convs : Len(log'[d]) \in Nat /\ Len(log[d]) <= Len(log'[d])
<1>1. log \in [Convs -> Seq(Event)] /\ \A d \in Convs : log[d] \in Seq(Event) /\ Len(log[d]) \in Nat
  BY LogLength DEF IInv, TypeOK
<1> DEFINE grown == Append(log[c], ev)
<1>2. grown \in Seq(Event) /\ Len(grown) = Len(log[c]) + 1
  BY <1>1, AppendProperties
<1>3. log' = log \/ log' = [log EXCEPT ![c] = grown]
  OBVIOUS
<1> HIDE DEF grown
<1> QED
  BY <1>1, <1>2, <1>3, SMTT(20)

\* The service accepting a message only adds to the ledgers.
LEMMA AcceptGrows ==
    ASSUME IInv, NEW i \in DOMAIN calls, Accept(i)
    PROVE  Grows /\ CallsLike /\ tab.active \in Convs
<1>1. calls[i].key \in Keys /\ calls[i].conv \in Convs /\ tab.active \in Convs
  BY CallFacts
<1> DEFINE ev == [kind |-> "queued", run |-> calls[i].key]
<1>2. ev \in Event
  BY <1>1 DEF Event
<1>3. log' = log \/ log' = [log EXCEPT ![calls[i].conv] = Append(@, ev)]
  BY DEF Accept
<1> HIDE DEF ev
<1>4. /\ log' \in [Convs -> Seq(Event)]
      /\ \A d \in Convs : Len(log'[d]) \in Nat /\ Len(log[d]) <= Len(log'[d])
  BY <1>1, <1>2, <1>3, LedgersGrow
<1>5. CallsLike
  BY ServedLike
<1> QED
  BY <1>1, <1>4, <1>5 DEF Grows, Accept, IInv, TypeOK

\* The service refusing a message only adds to the ledgers.
LEMMA RefuseGrows ==
    ASSUME IInv, NEW i \in DOMAIN calls, Refuse(i)
    PROVE  Grows /\ CallsLike /\ tab.active \in Convs
<1>1. CallsLike /\ tab.active \in Convs
  BY ServedLike, CallFacts
<1> QED
  BY <1>1, LogLength DEF Grows, Refuse, serverVars, IInv, TypeOK

\* A run begun by somebody else only adds to the ledgers.
LEMMA StartGrows == ASSUME IInv, NEW c \in Convs, Start(c) PROVE Grows
<1>1. log[c] \in Seq(Event)
  BY LogLength
<1> DEFINE ev == [kind |-> "created", run |-> ExecutionHead(log[c])]
<1>2. ev \in Event
  <2>1. ExecutionHead(log[c]) \in Keys
    <3>1. \E k \in Unfinished(log[c]) : \A other \in Unfinished(log[c]) :
             Place(log[c], k) <= Place(log[c], other)
      <4> DEFINE P == {Place(log[c], k) : k \in Unfinished(log[c])}
      <4>1. P \in SUBSET Nat /\ P # {}
        BY <1>1, PlaceType DEF Start
      <4> HIDE DEF P
      <4>2. PICK p \in P : \A q \in P : p <= q
        BY <4>1, Least
      <4> QED
        BY <4>2 DEF P
    <3>2. ExecutionHead(log[c]) \in Unfinished(log[c])
      BY <3>1 DEF Start, ExecutionHead
    <3> QED
      BY <1>1, <3>2, LedgerType DEF KeySets
  <2> QED
    BY <2>1 DEF Event
<1>3. log' = [log EXCEPT ![c] = Append(@, ev)]
  BY DEF Start
<1> HIDE DEF ev
<1>4. /\ log' \in [Convs -> Seq(Event)]
      /\ \A d \in Convs : Len(log'[d]) \in Nat /\ Len(log[d]) <= Len(log'[d])
  BY <1>2, <1>3, LedgersGrow
<1> QED
  BY <1>4 DEF Grows, Start, IInv, TypeOK

\* A run's end only adds to the ledgers.
LEMMA CompleteGrows == ASSUME IInv, NEW c \in Convs, NEW k \in Keys, Complete(c, k) PROVE Grows
<1> DEFINE ev == [kind |-> "completed", run |-> k]
<1>1. ev \in Event
  BY DEF Event
<1>2. log' = [log EXCEPT ![c] = Append(@, ev)]
  BY DEF Complete
<1> HIDE DEF ev
<1>3. /\ log' \in [Convs -> Seq(Event)]
      /\ \A d \in Convs : Len(log'[d]) \in Nat /\ Len(log[d]) <= Len(log'[d])
  BY <1>1, <1>2, LedgersGrow
<1> QED
  BY <1>3 DEF Grows, Complete, IInv, TypeOK

\* A conversation deleted elsewhere only adds to the ledgers.
LEMMA VanishGrows == ASSUME IInv, NEW c \in Convs, Vanish(c) PROVE Grows
  BY LogLength DEF Grows, Vanish, IInv, TypeOK

\* The first engine is blank.
LEMMA EmptyEngineType == EmptyEngine \in Engine
<1>1. /\ NoConv \in SomeConv /\ {} \in ConvSets /\ {} \in KeySets /\ IdleMachine \in Machine
      /\ NoPending \in PendingType /\ NoKey \in SomeKey /\ NoRead \in ReadType /\ NoStop \in StopType
      /\ "none" \in Errors /\ "connected" \in Connections /\ "closed" \in Streams
  BY Values, MachineTypes, NoPendingType, NoReadType, NoStopType
<1> HIDE DEF NoConv, NoKey
<1> QED
  BY <1>1, EngineType DEF EmptyEngine

\* The invariant holds of an engine over an empty storage.
LEMMA InvInit == Init => IInv
<1> SUFFICES ASSUME Init PROVE IInv
  OBVIOUS
<1>1. EmptySlot \in Slot /\ EmptySlot.state = "none" /\ EmptySlot.key = NoKey
  BY DEF EmptySlot, Slot
<1>2. past.home = [k \in Keys |-> NoConv] /\ past.saved = {} /\ past.received = {} /\ past.gaveUp = {}
  BY DEF Init
<1>3. tab = EmptyEngine /\ calls = <<>> /\ tab.active = NoConv /\ tab.pending.key = NoKey /\ tab.prepared = NoKey
      /\ ~tab.deferred /\ ~tab.broken /\ tab.unsaved = {} /\ tab.list = {} /\ tab.drawn = {}
  BY DEF Init, EmptyEngine, NoPending
<1>4. TypeOK
  <2>1. past \in Past
    BY DEF Init, Past
  <2>2. <<>> \in Seq(Call) /\ <<>> \in Seq(Event) /\ Len(<<>>) <= MaxCalls
    BY ChatAssumption
  <2> QED
    BY <1>1, <2>1, <2>2, EmptyEngineType DEF Init, TypeOK
<1>5. Blank /\ Behind /\ Listed(tab)
  BY <1>3, ChatAssumption DEF Blank, Behind, Listed
<1>6. SlotTrue /\ CallsTrue /\ PastDrawn /\ IntentKept
  BY <1>1, <1>2, <1>3 DEF Init, SlotTrue, CallsTrue, PastDrawn, IntentKept
<1>7. Held(tab)
  BY <1>3 DEF Held, PendingHeld, PreparedHeld, HasPending
<1> QED
  BY <1>4, <1>5, <1>6, <1>7 DEF IInv

\* A command of the user preserves the inductive invariant.
LEMMA UserInv == ASSUME IInv, User PROVE IInv'
<1>1. ASSUME NEW c \in Convs, NEW k \in Keys, Submit(c, k) PROVE IInv'
  BY <1>1, SubmitInv
<1>2. ASSUME NEW k \in Keys, Steer(k) PROVE IInv'
  BY <1>2, SteerInv
<1>3. CASE RetryKnown
  BY <1>3, RetryKnownInv
<1>4. CASE Retry
  BY <1>4, RetryInv
<1>5. CASE StopSubmission
  BY <1>5, StopSubmissionInv
<1>6. CASE StopRun
  BY <1>6, StopRunQuiet, QuietInv
<1>7. CASE Reconnect
  BY <1>7, ReconnectStep, QuietInv, ShowInv
<1>8. CASE Reload
  BY <1>8, RestartInv DEF Reload
<1>9. CASE Remount
  BY <1>9, RestartInv DEF Remount
<1>10. ASSUME NEW c \in Convs, New(c) PROVE IInv'
  BY <1>10, NewInv
<1>11. ASSUME NEW c \in Convs, Select(c) PROVE IInv'
  BY <1>11, SelectShow, ShowInv
<1> QED
  BY <1>1, <1>2, <1>3, <1>4, <1>5, <1>6, <1>7, <1>8, <1>9, <1>10, <1>11 DEF User

\* The answer of a call or a read preserves the inductive invariant.
LEMMA AnswersInv == ASSUME IInv, Answers PROVE IInv'
<1>1. ASSUME NEW i \in DOMAIN calls, Receipt(i) PROVE IInv'
  BY <1>1, ReceiptInv
<1>2. ASSUME NEW i \in DOMAIN calls, CreateFails(i) PROVE IInv'
  BY <1>2, CreateFailsInv
<1>3. ASSUME NEW i \in DOMAIN calls, SteerReceipt(i) PROVE IInv'
  BY <1>3, SteerReceiptFoot, SteerAnsweredInv
<1>4. ASSUME NEW i \in DOMAIN calls, SteerFails(i) PROVE IInv'
  BY <1>4, SteerFailsFoot, SteerAnsweredInv
<1>5. CASE StopAnswered
  BY <1>5, StopAnsweredQuiet, QuietInv
<1>6. CASE HydrateAbsent
  BY <1>6, HydrateAbsentStep, QuietInv, DropInv
<1>7. CASE RecoverAbsent
  BY <1>7, RecoverAbsentInv
<1>8. CASE HydrateOwner
  BY <1>8, HydrateOwnerStep, QuietInv, DropInv
<1>9. CASE HydrateFails
  BY <1>9, HydrateFailsQuiet, QuietInv
<1>10. CASE HydrateForbidden
  BY <1>10, HydrateForbiddenShow, ShowInv
<1>11. CASE SyncOwner
  BY <1>11, SyncOwnerQuiet, QuietInv
<1>12. CASE SyncAbsent
  BY <1>12, SyncAbsentQuiet, QuietInv
<1>13. CASE StopOwner
  BY <1>13, StopOwnerQuiet, QuietInv
<1>14. CASE ReadFails
  BY <1>14, ReadFailsQuiet, QuietInv
<1> QED
  BY <1>1, <1>2, <1>3, <1>4, <1>5, <1>6, <1>7, <1>8, <1>9, <1>10, <1>11, <1>12, <1>13, <1>14 DEF Answers

\* A callback of the stream preserves the inductive invariant.
LEMMA StreamInv == ASSUME IInv, Stream PROVE IInv'
<1>1. CASE StreamConnects
  BY <1>1, StreamConnectsQuiet, QuietInv
<1>2. CASE StreamDrops
  BY <1>2, StreamDropsQuiet, QuietInv
<1>3. CASE StreamFails
  BY <1>3, StreamFailsQuiet, QuietInv
<1>4. CASE ReattachTimesOut
  BY <1>4, ReattachTimesOutQuiet, QuietInv
<1>5. CASE StreamExpires
  BY <1>5, StreamExpiresQuiet, QuietInv
<1>6. CASE StreamEvents
  BY <1>6, StreamEventsQuiet, QuietInv
<1> QED
  BY <1>1, <1>2, <1>3, <1>4, <1>5, <1>6 DEF Stream

\* A step of the service preserves the inductive invariant.
LEMMA ServiceInv == ASSUME IInv, Service PROVE IInv'
<1>1. ASSUME NEW i \in DOMAIN calls, Accept(i) PROVE IInv'
  BY <1>1, AcceptGrows, GrowsInv
<1>2. ASSUME NEW i \in DOMAIN calls, Refuse(i) PROVE IInv'
  BY <1>2, RefuseGrows, GrowsInv
<1>3. ASSUME NEW c \in Convs, Start(c) PROVE IInv'
  BY <1>3, StartGrows, GrowsInv DEF Start
<1>4. ASSUME NEW c \in Convs, Vanish(c) PROVE IInv'
  BY <1>4, VanishGrows, GrowsInv DEF Vanish
<1>5. ASSUME NEW c \in Convs, NEW k \in Keys, Complete(c, k) PROVE IInv'
  BY <1>5, CompleteGrows, GrowsInv DEF Complete
<1>6. CASE ReadExecutes
  BY <1>6, ReadExecutesQuiet, QuietInv
<1> QED
  BY <1>1, <1>2, <1>3, <1>4, <1>5, <1>6 DEF Service

\* Nothing happening preserves the inductive invariant.
LEMMA StutterInv == ASSUME IInv, UNCHANGED vars PROVE IInv'
  BY DEF vars, serverVars, IInv, TypeOK, Blank, Behind, Listed, SlotTrue, CallsTrue, PastDrawn, Held,
         PendingHeld, PreparedHeld, HasPending, IntentKept, Matches

\* Every step preserves the inductive invariant.
LEMMA InvNext == IInv /\ [Next]_vars => IInv'
  BY UserInv, AnswersInv, StreamInv, ServiceInv, StutterInv DEF Next

\* The invariant of the records, the calls and the intent held is one of every behaviour, whatever
\* the faults, the number of conversations, messages and calls.
THEOREM Inductive == Spec => []IInv
  BY InvInit, InvNext, PTL DEF Spec

\* The variables of the tab, its storage and the service have their types.
THEOREM TypeCorrect == Spec => []TypeOK
<1>1. IInv => TypeOK
  BY DEF IInv
<1> QED
  BY <1>1, Inductive, PTL

\* No message is lost: a saved intent stays in the record of its conversation until its receipt
\* came or it was given up (browser-submission-recovery.ts, machine.ts), whatever the faults.
THEOREM IntentIsKept == Spec => []IntentKept
<1>1. IInv => IntentKept
  BY DEF IInv
<1> QED
  BY <1>1, Inductive, PTL

\* A message that was given up never comes back: no record offers it again, whatever the faults
\* (abandonPendingSubmission writes "abandoned" before anything else happens).
THEOREM GivenUpClosed == Spec => []GivenUpStaysClosed
<1>1. IInv => GivenUpStaysClosed
  <2> SUFFICES ASSUME IInv, NEW k \in past.gaveUp PROVE ~Matches(slot[past.home[k]], k)
    BY DEF GivenUpStaysClosed
  <2>1. past.home[k] \in Convs
    BY HomeConv
  <2> QED
    BY <2>1 DEF IInv, SlotTrue, Matches
<1> QED
  BY <1>1, Inductive, PTL

Opens == {OpenIntent(c) : c \in Convs}
ClosedSet == (past.saved \cap (past.received \cup past.gaveUp)) \ Opens

\* An open intent is one of the saved keys, and one conversation's only; the others are closed.
OpenTrue ==
    /\ past.saved \subseteq Keys
    /\ \A c \in Convs : OpenIntent(c) # NoKey =>
          OpenIntent(c) \in past.saved /\ past.home[OpenIntent(c)] = c
    /\ ClosedSet = past.saved \ Opens

\* The open intents are pending records, one per conversation, and saved.
LEMMA OpenFacts == IInv => OpenTrue
<1> SUFFICES ASSUME IInv PROVE OpenTrue
  OBVIOUS
<1>1. past.saved \subseteq Keys
  BY PastFields DEF IInv, TypeOK, KeySets
<1>2. \A c \in Convs : OpenIntent(c) # NoKey =>
         OpenIntent(c) \in past.saved /\ past.home[OpenIntent(c)] = c
  BY DEF OpenIntent, IInv, SlotTrue
<1>3. ASSUME NEW k \in past.saved \ (past.received \cup past.gaveUp) PROVE k \in Opens
  <2>1. Matches(slot[past.home[k]], k) /\ past.home[k] \in Convs
    BY HomeConv DEF IInv, IntentKept
  <2> QED
    BY <2>1 DEF Opens, OpenIntent, Matches
<1>4. ClosedSet = past.saved \ Opens
  BY <1>3 DEF ClosedSet
<1> QED
  BY <1>1, <1>2, <1>4 DEF OpenTrue

\* The same of the next state.
LEMMA OpenFactsNext == IInv' => OpenTrue'
  BY OpenFacts, PTL

\* A step that only closes intents.
LEMMA Closes ==
    ASSUME IInv, IInv', past'.saved = past.saved,
           \A c \in Convs : (OpenIntent(c))' \in {OpenIntent(c), NoKey}
    PROVE  Lifecycle!Next
<1> DEFINE S == {c \in Convs : OpenIntent(c) # NoKey /\ (OpenIntent(c))' = NoKey}
           open == [c \in Convs |-> OpenIntent(c)]
<1>1. OpenTrue /\ OpenTrue'
  BY OpenFacts, OpenFactsNext
<1>2. open' = [c \in Convs |-> IF c \in S THEN NoKey ELSE open[c]]
  OBVIOUS
<1>3. ClosedSet' = ClosedSet \cup {open[c] : c \in S}
  <2>1. /\ ClosedSet = past.saved \ Opens /\ ClosedSet' = past.saved \ Opens'
    BY <1>1 DEF OpenTrue
  <2>2. \A k : k \in Opens <=> \E c \in Convs : k = OpenIntent(c)
    BY DEF Opens
  <2>3. \A k : k \in Opens' <=> \E c \in Convs : k = (OpenIntent(c))'
    BY DEF Opens
  <2>4. ASSUME NEW k \in past.saved, k \notin Opens'
        PROVE  k \in ClosedSet \cup {open[c] : c \in S}
    <3>1. CASE k \notin Opens
      BY <2>1, <3>1
    <3>2. CASE k \in Opens
      <4>1. PICK c \in Convs : k = OpenIntent(c)
        BY <2>2, <3>2
      <4>2. k # NoKey
        BY <1>1, <2>4, KeysAssumption DEF OpenTrue
      <4>3. (OpenIntent(c))' = NoKey
        BY <2>3, <2>4, <4>1
      <4> QED
        BY <4>1, <4>2, <4>3
    <3> QED
      BY <3>1, <3>2
  <2>5. ASSUME NEW k \in ClosedSet PROVE k \in ClosedSet'
    <3>1. k \in past.saved /\ k \notin Opens /\ k # NoKey
      BY <1>1, <2>1, <2>5, KeysAssumption DEF OpenTrue
    <3>2. k \notin Opens'
      BY <2>2, <2>3, <3>1
    <3> QED
      BY <2>1, <3>1, <3>2
  <2>6. ASSUME NEW c \in S PROVE open[c] \in ClosedSet'
    <3>1. OpenIntent(c) \in past.saved /\ past.home[OpenIntent(c)] = c /\ OpenIntent(c) # NoKey
      BY <1>1, <2>6 DEF OpenTrue
    <3>2. ASSUME NEW d \in Convs PROVE (OpenIntent(d))' # OpenIntent(c)
      <4>1. CASE (OpenIntent(d))' = NoKey
        BY <3>1, <4>1
      <4>2. CASE (OpenIntent(d))' # NoKey
        <5>1. (OpenIntent(d))' = OpenIntent(d) /\ d # c
          BY <2>6, <4>2
        <5>2. past.home[OpenIntent(d)] = d
          BY <1>1, <4>2, <5>1 DEF OpenTrue
        <5> QED
          BY <3>1, <5>1, <5>2
      <4> QED
        BY <4>1, <4>2
    <3>3. OpenIntent(c) \notin Opens'
      BY <2>3, <3>2
    <3> QED
      BY <2>1, <2>6, <3>1, <3>3
  <2> HIDE DEF S, open
  <2> QED
    BY <2>1, <2>4, <2>5, <2>6
<1>4. S \in SUBSET Lifecycle!Occupied
  BY DEF Lifecycle!Occupied
<1>5. Lifecycle!Close(S)
  BY <1>2, <1>3 DEF Lifecycle!Close, Lifecycle!Without, ClosedSet, Opens
<1> HIDE DEF S
<1> QED
  BY <1>4, <1>5 DEF Lifecycle!Next

\* A submission that opens its intent.
LEMMA OpensIntent ==
    ASSUME IInv, IInv', NEW c \in Convs, NEW k \in Keys, k \notin past.saved,
           past'.saved = past.saved \cup {k}, (OpenIntent(c))' = k,
           OpenIntent(c) # NoKey => OpenIntent(c) \in past.received,
           \A d \in Convs \ {c} : (OpenIntent(d))' \in {OpenIntent(d), NoKey}
    PROVE  Lifecycle!Next
<1> DEFINE S == {d \in Convs : OpenIntent(d) # NoKey /\ (OpenIntent(d))' # OpenIntent(d)}
           open == [d \in Convs |-> OpenIntent(d)]
<1>1. OpenTrue /\ OpenTrue'
  BY OpenFacts, OpenFactsNext
<1>2. /\ ClosedSet = past.saved \ Opens /\ ClosedSet' = (past.saved \cup {k}) \ Opens'
      /\ k # NoKey /\ \A d \in Convs : OpenIntent(d) # k
  BY <1>1, KeysAssumption DEF OpenTrue
<1>3. c \in S \/ open[c] = NoKey
  BY <1>2
<1>4. open' = [[d \in Convs |-> IF d \in S THEN NoKey ELSE open[d]] EXCEPT ![c] = k]
  OBVIOUS
<1>5. ClosedSet' = ClosedSet \cup {open[d] : d \in S}
  <2>1. \A j : j \in Opens <=> \E d \in Convs : j = OpenIntent(d)
    BY DEF Opens
  <2>2. \A j : j \in Opens' <=> \E d \in Convs : j = (OpenIntent(d))'
    BY DEF Opens
  <2>3. k \in Opens'
    BY <2>2
  <2>4. ASSUME NEW j \in ClosedSet' PROVE j \in ClosedSet \cup {open[d] : d \in S}
    <3>1. j \in past.saved /\ j \notin Opens' /\ j # NoKey
      BY <1>1, <1>2, <2>3, <2>4, KeysAssumption DEF OpenTrue
    <3>2. CASE j \notin Opens
      BY <1>2, <3>1, <3>2
    <3>3. CASE j \in Opens
      <4>1. PICK d \in Convs : j = OpenIntent(d)
        BY <2>1, <3>3
      <4>2. (OpenIntent(d))' # j
        BY <2>2, <3>1
      <4> QED
        BY <3>1, <4>1, <4>2
    <3> QED
      BY <3>2, <3>3
  <2>5. ASSUME NEW j \in ClosedSet PROVE j \in ClosedSet'
    <3>1. j \in past.saved /\ j \notin Opens /\ j # NoKey /\ j # k
      BY <1>1, <1>2, <2>5, KeysAssumption DEF OpenTrue
    <3>2. j \notin Opens'
      BY <2>1, <2>2, <3>1
    <3> QED
      BY <1>2, <3>1, <3>2
  <2>6. ASSUME NEW d \in S PROVE open[d] \in ClosedSet'
    <3>1. /\ OpenIntent(d) \in past.saved /\ past.home[OpenIntent(d)] = d /\ OpenIntent(d) # NoKey
          /\ OpenIntent(d) # k
      BY <1>1, <1>2, <2>6 DEF OpenTrue
    <3>2. ASSUME NEW b \in Convs PROVE (OpenIntent(b))' # OpenIntent(d)
      <4>1. CASE b = c
        BY <3>1, <4>1
      <4>2. CASE b # c /\ (OpenIntent(b))' = NoKey
        BY <3>1, <4>2
      <4>3. CASE b # c /\ (OpenIntent(b))' # NoKey
        <5>1. (OpenIntent(b))' = OpenIntent(b) /\ b # d
          BY <2>6, <4>3
        <5>2. past.home[OpenIntent(b)] = b
          BY <1>1, <4>3, <5>1 DEF OpenTrue
        <5> QED
          BY <3>1, <5>1, <5>2
      <4> QED
        BY <4>1, <4>2, <4>3
    <3>3. OpenIntent(d) \notin Opens'
      BY <2>2, <3>2
    <3> QED
      BY <1>2, <2>6, <3>1, <3>3
  <2> HIDE DEF S, open
  <2> QED
    BY <2>4, <2>5, <2>6
<1>6. S \in SUBSET Lifecycle!Occupied
  BY DEF Lifecycle!Occupied
<1>7. k \notin ClosedSet
  BY <1>2
<1>8. Lifecycle!Open(S, c, k)
  BY <1>2, <1>3, <1>4, <1>5, <1>7 DEF Lifecycle!Open, Lifecycle!Without, ClosedSet, Opens
<1> HIDE DEF S
<1> QED
  BY <1>6, <1>8 DEF Lifecycle!Next

Shuts ==
    /\ past'.saved = past.saved
    /\ \A c \in Convs : (OpenIntent(c))' \in {OpenIntent(c), NoKey}

\* A step that changes no record and saves no intent opens none.
LEMMA SameShuts == ASSUME slot' = slot, past'.saved = past.saved PROVE Shuts
  BY DEF Shuts, OpenIntent

\* flushReceipts closes only intents whose receipts came.
LEMMA FlushShuts ==
    ASSUME IInv, NEW c \in Convs
    PROVE  LET f == Flushed(tab, slot)[c] IN
           /\ (IF f.state = "pending" THEN f.key ELSE NoKey) \in {OpenIntent(c), NoKey}
           /\ OpenIntent(c) # NoKey /\ f.state # "pending" => OpenIntent(c) \in past.received
           /\ f.state = "pending" => f = slot[c]
  BY FlushTrue DEF OpenIntent

\* submit opens its own intent, and closes only intents whose receipts came: a step of
\* IntentLifecycle.
LEMMA SubmitOpens ==
    ASSUME IInv, IInv', NEW c \in Convs, NEW k \in Keys, Submit(c, k)
    PROVE  Lifecycle!Next
<1> DEFINE f == Flushed(tab, slot)
<1>1. PICK saved \in BOOLEAN, posted \in BOOLEAN : SubmitStep(c, k, saved, posted)
  BY SubmitFoot
<1>2. /\ slot' = IF saved THEN [f EXCEPT ![c] = Saved(@, k)] ELSE f
      /\ past' = [past EXCEPT !.home[k] = c, !.saved = IF saved THEN @ \cup {k} ELSE @]
      /\ saved => CanSave(f[c], k, TRUE)
  BY <1>1 DEF SubmitStep
<1>3. past \in Past /\ slot \in [Convs -> Slot] /\ f \in [Convs -> Slot]
  BY FlushTrue DEF IInv, TypeOK
<1>4. \A d \in Convs :
         /\ (IF f[d].state = "pending" THEN f[d].key ELSE NoKey) \in {OpenIntent(d), NoKey}
         /\ OpenIntent(d) # NoKey /\ f[d].state # "pending" => OpenIntent(d) \in past.received
         /\ f[d].state = "pending" => f[d] = slot[d]
  BY FlushShuts
<1>5. past'.saved = IF saved THEN past.saved \cup {k} ELSE past.saved
  BY <1>2, <1>3 DEF Past
<1>6. past.home[k] \in {c, NoConv} /\ k \notin past.received \cup past.gaveUp
  BY <1>1, Unused DEF SubmitStep
<1> HIDE DEF f
<1>7. CASE ~saved
  <2>1. \A d \in Convs : (OpenIntent(d))' \in {OpenIntent(d), NoKey}
    BY <1>2, <1>4, <1>7 DEF OpenIntent
  <2> QED
    BY <1>5, <1>7, <2>1, Closes
<1>8. CASE saved
  <2>1. /\ \A d \in Convs \ {c} : slot'[d] = f[d]
        /\ slot'[c].state = "pending" /\ slot'[c].key = k
    <3>1. Saved(f[c], k).state = "pending" /\ Saved(f[c], k).key = k
      BY DEF Saved, Matches
    <3> QED
      BY <1>2, <1>3, <1>8, <3>1
  <2>2. (OpenIntent(c))' = k /\ \A d \in Convs \ {c} : (OpenIntent(d))' \in {OpenIntent(d), NoKey}
    BY <1>4, <2>1 DEF OpenIntent
  <2>3. CASE k \in past.saved
    <3>1. Matches(slot[past.home[k]], k) /\ past.home[k] = c
      <4>1. past.home[k] \in Convs
        BY <2>3, HomeConv
      <4> QED
        BY <1>6, <2>3, <4>1, ChatAssumption DEF IInv, IntentKept
    <3>2. OpenIntent(c) = k
      BY <3>1 DEF OpenIntent, Matches
    <3>3. past'.saved = past.saved
      BY <1>5, <2>3
    <3>4. \A d \in Convs : (OpenIntent(d))' \in {OpenIntent(d), NoKey}
      BY <2>2, <3>2
    <3> QED
      BY <3>3, <3>4, Closes
  <2>4. CASE k \notin past.saved
    <3>1. OpenIntent(c) # NoKey => OpenIntent(c) \in past.received
      <4>1. OpenIntent(c) # k
        BY <2>4, OpenFacts, KeysAssumption DEF OpenTrue
      <4>2. f[c].state = "pending" => f[c].key = k /\ f[c] = slot[c]
        BY <1>2, <1>4, <1>8 DEF CanSave
      <4> QED
        BY <1>4, <4>1, <4>2 DEF OpenIntent
    <3> QED
      BY <1>5, <1>8, <2>2, <2>4, <3>1, OpensIntent
  <2> QED
    BY <2>3, <2>4
<1> QED
  BY <1>7, <1>8

\* Giving an intent up closes it and opens none.
LEMMA GivenUpShuts ==
    ASSUME IInv, GivenUp(Intent(tab), tab.active)
    PROVE  Shuts
  BY DEF GivenUp, Shuts, OpenIntent

\* A step that opens no intent is a step of IntentLifecycle, or a stutter.
LEMMA ShutsIsStep == ASSUME IInv, IInv', Shuts PROVE Lifecycle!Next
  BY Closes DEF Shuts

\* A command of the user is a step of IntentLifecycle, or a stutter.
LEMMA UserShuts ==
    ASSUME IInv, IInv', User
    PROVE  Lifecycle!Next
<1>1. ASSUME NEW c \in Convs, NEW k \in Keys, Submit(c, k) PROVE Lifecycle!Next
  BY <1>1, SubmitOpens
<1>2. ASSUME NEW k \in Keys, Steer(k) PROVE Shuts
  <2>1. SteerStep(k)
    BY <1>2, SteerFoot
  <2>2. past'.saved = past.saved
    BY <2>1 DEF SteerStep, IInv, TypeOK, Past
  <2>3. slot' = Flushed(tab, slot)
    BY <2>1 DEF SteerStep
  <2> QED
    BY <2>2, <2>3, FlushShuts DEF Shuts, OpenIntent
<1>3. CASE RetryKnown
  <2>1. RetryKnownStep
    BY <1>3, RetryKnownFoot
  <2> QED
    BY <2>1, RetryKnownSlots, ShutsIsStep DEF RetryKnownStep, Shuts, OpenIntent
<1>4. CASE Retry
  BY <1>4, RetryFoot, RetrySame, SameShuts, ShutsIsStep
<1>5. CASE StopSubmission
  BY <1>5, StopSubmissionFoot, AbandonFoot, GivenUpShuts, ShutsIsStep DEF StopSubmissionStep
<1>6. ASSUME NEW c \in Convs, New(c) PROVE Shuts
  BY <1>6, NewFoot, AbandonFoot, GivenUpShuts DEF NewStep
<1>7. CASE StopRun \/ Reconnect
  BY <1>7, SameShuts, ShutsIsStep DEF StopRun, Reconnect
<1>8. CASE Reload \/ Remount
  BY <1>8, SameShuts, ShutsIsStep DEF Reload, Remount, Restart
<1>9. ASSUME NEW c \in Convs, Select(c) PROVE Shuts
  BY <1>9, SameShuts DEF Select
<1> QED
  BY <1>1, <1>2, <1>3, <1>4, <1>5, <1>6, <1>7, <1>8, <1>9, ShutsIsStep DEF User

\* The answer of a call or a read opens no intent.
LEMMA AnswersShut ==
    ASSUME IInv, Answers
    PROVE  Shuts
<1>1. ASSUME NEW i \in DOMAIN calls, Receipt(i) PROVE Shuts
  <2>1. PICK works \in BOOLEAN : ReceiptStep(i, works)
    BY <1>1, ReceiptFoot DEF Works
  <2>2. Receipted(calls[i].key, calls[i].conv)
    BY <2>1, ReceiptedFoot
  <2> QED
    BY <2>2 DEF Receipted, Shuts, OpenIntent
<1>2. ASSUME NEW i \in DOMAIN calls, CreateFails(i) PROVE Shuts
  <2>1. PICK works \in BOOLEAN, code \in {"failed", "unknown"} : CreateFailsStep(i, works, code)
    BY <1>2, CreateFailsFoot
  <2>2. \A d \in Convs : slot'[d].state = slot[d].state /\ slot'[d].key = slot[d].key
    BY <2>1, CreateFailsSlots
  <2> QED
    BY <2>1, <2>2 DEF CreateFailsStep, Shuts, OpenIntent
<1>3. ASSUME NEW i \in DOMAIN calls, SteerAnswered(i) PROVE Shuts
  BY <1>3, SameShuts DEF SteerAnswered, IInv, TypeOK, Past
<1>4. CASE RecoverAbsent
  <2>1. CASE QuietStep
    BY <2>1, SameShuts DEF QuietStep
  <2>2. CASE RecoverAbsentStep
    BY <2>2, AbandonFoot, GivenUpShuts DEF RecoverAbsentStep
  <2> QED
    BY <1>4, <2>1, <2>2, RecoverAbsentFoot
<1>5. CASE StopAnswered \/ HydrateAbsent \/ HydrateOwner \/ HydrateFails \/ HydrateForbidden
           \/ SyncOwner \/ SyncAbsent \/ StopOwner \/ ReadFails
  BY <1>5, SameShuts DEF StopAnswered, HydrateAbsent, HydrateOwner, HydrateFails, HydrateForbidden,
                         SyncOwner, SyncAbsent, StopOwner, ReadFails
<1> QED
  BY <1>1, <1>2, <1>3, <1>4, <1>5, SteerReceiptFoot, SteerFailsFoot DEF Answers

\* The stream and the service open no intent.
LEMMA OthersShut ==
    ASSUME IInv, Stream \/ Service \/ UNCHANGED vars
    PROVE  Shuts
<1>1. slot' = slot /\ past' = past
  BY DEF Stream, StreamConnects, StreamDrops, StreamFails, ReattachTimesOut, StreamExpires, StreamEvents,
         Service, Accept, Refuse, Start, Complete, Vanish, ReadExecutes, vars
<1> QED
  BY <1>1, SameShuts

\* The records of sessionStorage implement IntentLifecycle: an intent is opened once, at most one
\* is open in a conversation, and what is closed stays closed, whatever the faults and however many
\* conversations.
THEOREM Refines == Spec => KeepsLifecycle
<1>1. Init => Lifecycle!Init
  BY DEF Init, Lifecycle!Init, OpenIntent, EmptySlot
<1>2. IInv /\ IInv' /\ [Next]_vars => Lifecycle!Next
  <2> SUFFICES ASSUME IInv, IInv', [Next]_vars PROVE Lifecycle!Next
    OBVIOUS
  <2>1. CASE User
    BY <2>1, UserShuts
  <2>2. CASE Answers \/ Stream \/ Service \/ UNCHANGED vars
    BY <2>2, AnswersShut, OthersShut, ShutsIsStep
  <2> QED
    BY <2>1, <2>2 DEF Next
<1> QED
  BY <1>1, <1>2, InvInit, InvNext, PTL DEF Spec, KeepsLifecycle, Lifecycle!Spec

\* No call is taken over by another engine, no call is marked, and a mark goes with its call only.
Owned == \A j \in DOMAIN calls : calls'[j].owner \in {calls[j].owner, "nobody"}
Marked ==
    \A j \in DOMAIN calls :
        /\ calls'[j].doomed => calls[j].doomed
        /\ calls'[j].owner = "engine" /\ calls[j].doomed => calls'[j].doomed

\* A call that is over is nobody's, and doomed no more.
LEMMA OverFacts ==
    ASSUME NEW call \in Call
    PROVE  /\ Over(call).owner = "nobody" /\ ~Over(call).doomed
           /\ Deserted(call).owner = "nobody" /\ ~Deserted(call).doomed
  BY DEF Over, Deserted, Call

\* The end of a call (beginRun finally) gives no call a new owner and dooms none.
LEMMA SettledOwned ==
    ASSUME IInv, NEW i \in DOMAIN calls, calls' = Settled(i) \/ calls' = [calls EXCEPT ![i] = Deserted(@)]
    PROVE  Owned /\ Marked
<1>1. calls[i] \in Call
  BY CallFacts
<1>2. calls'[i].owner = "nobody" /\ ~calls'[i].doomed
  BY <1>1, OverFacts DEF Settled
<1>3. \A j \in DOMAIN calls : j # i => calls'[j] = calls[j]
  BY DEF Settled
<1> QED
  BY <1>2, <1>3 DEF Owned, Marked

\* Taking a cancelled submission's receipt frees the calls of its key only.
LEMMA ConsumedOwned ==
    ASSUME IInv, NEW i \in DOMAIN calls, calls' = Consumed(i)
    PROVE  /\ Owned
           /\ \A j \in DOMAIN calls :
                 /\ calls'[j].doomed => calls[j].doomed
                 /\ calls'[j].owner = "engine" /\ calls[j].doomed /\ calls[j].key # calls[i].key => calls'[j].doomed
<1>1. ASSUME NEW j \in DOMAIN calls
      PROVE  /\ calls'[j].owner \in {calls[j].owner, "nobody"}
             /\ calls'[j].doomed => calls[j].doomed
             /\ calls'[j].owner = "engine" /\ calls[j].doomed /\ calls[j].key # calls[i].key => calls'[j].doomed
  <2>1. calls[j] \in Call
    BY CallFacts
  <2>2. CASE j = i
    <3>1. calls'[j] = Over(calls[i])
      BY <2>2 DEF Consumed
    <3> QED
      BY <2>1, <2>2, <3>1, OverFacts
  <2>3. CASE j # i
    <3>1. calls'[j] = IF calls[j].key = calls[i].key /\ calls[j].owner = calls[i].owner
                      THEN [calls[j] EXCEPT !.doomed = FALSE] ELSE calls[j]
      BY <2>3 DEF Consumed
    <3> QED
      BY <2>1, <3>1 DEF Call
  <2> QED
    BY <2>2, <2>3
<1> QED
  BY <1>1 DEF Owned

\* The service gives no call a new owner and dooms none.
LEMMA ServedOwned ==
    ASSUME IInv, NEW i \in DOMAIN calls, Accept(i) \/ Refuse(i)
    PROVE  Owned /\ Marked
<1>1. calls[i] \in Call
  BY CallFacts
<1>2. PICK s : calls' = [calls EXCEPT ![i] = [calls[i] EXCEPT !.status = s]]
  BY <1>1 DEF Accept, Refuse
<1>3. calls'[i].owner = calls[i].owner /\ calls'[i].doomed = calls[i].doomed
  BY <1>1, <1>2 DEF Call
<1>4. \A j \in DOMAIN calls : j # i => calls'[j] = calls[j]
  BY <1>2
<1> QED
  BY <1>3, <1>4 DEF Owned, Marked

\* abandonPendingSubmission dooms the create-message calls of its intent, and no others.
LEMMA AbandonOwned ==
    ASSUME IInv, AbandonRecords(tab)
    PROVE  /\ Owned
           /\ \A j \in DOMAIN calls :
                 /\ calls'[j].doomed => calls[j].doomed \/ calls[j].key = Intent(tab)
                 /\ calls[j].doomed => calls'[j].doomed
                 /\ calls[j].owner = "engine" /\ calls[j].kind = "create" /\ calls[j].key = Intent(tab)
                       /\ ~tab.deferred => calls'[j].doomed
<1>1. ASSUME NEW j \in DOMAIN calls
      PROVE  /\ calls'[j].owner = calls[j].owner
             /\ calls'[j].doomed => calls[j].doomed \/ calls[j].key = Intent(tab)
             /\ calls[j].doomed => calls'[j].doomed
             /\ calls[j].owner = "engine" /\ calls[j].kind = "create" /\ calls[j].key = Intent(tab)
                   /\ ~tab.deferred => calls'[j].doomed
  <2>1. calls[j] \in Call
    BY CallFacts
  <2>2. calls'[j] = IF calls[j].owner = "engine" /\ calls[j].kind = "create" /\ calls[j].key = Intent(tab)
                       /\ ~tab.deferred
                    THEN [calls[j] EXCEPT !.doomed = TRUE] ELSE calls[j]
    BY DEF AbandonRecords
  <2> QED
    BY <2>1, <2>2 DEF Call
<1> QED
  BY <1>1 DEF Owned

\* A reload leaves the calls to nobody, a dispose to the old engine.
LEMMA RestartOwned ==
    ASSUME IInv, NEW owner \in {"nobody", "disposed"}, Restart(owner), NEW j \in DOMAIN calls
    PROVE  /\ calls'[j].owner \in {"nobody", owner}
           /\ owner = "nobody" => (calls'[j].doomed => calls[j].doomed)
<1>1. calls[j] \in Call
  BY CallFacts
<1>2. calls'[j] = IF calls[j].owner = "nobody" THEN calls[j]
                  ELSE IF owner = "nobody" \/ calls[j].kind = "steer" THEN Deserted(calls[j])
                  ELSE [calls[j] EXCEPT !.owner = "disposed"]
  BY DEF Restart
<1>3. CASE calls[j].owner = "nobody"
  BY <1>2, <1>3
<1>4. CASE calls[j].owner # "nobody" /\ (owner = "nobody" \/ calls[j].kind = "steer")
  <2>1. calls'[j] = Deserted(calls[j])
    BY <1>2, <1>4
  <2> QED
    BY <1>1, <2>1, OverFacts
<1>5. CASE calls[j].owner # "nobody" /\ ~(owner = "nobody" \/ calls[j].kind = "steer")
  <2>1. calls'[j] = [calls[j] EXCEPT !.owner = "disposed"]
    BY <1>2, <1>5
  <2> QED
    BY <1>1, <1>5, <2>1 DEF Call
<1> QED
  BY <1>3, <1>4, <1>5

\* Calls that a disposed engine waits for are waited for already.
NoneDisposed ==
    \A i \in DOMAIN calls' : calls'[i].owner = "disposed" => i \in DOMAIN calls /\ calls[i].owner = "disposed"

\* Where no call gets a new owner, none becomes a dead engine's.
LEMMA OwnedDisposed == ASSUME CallsLike, Owned PROVE NoneDisposed
  BY DEF CallsLike, Owned, NoneDisposed

\* A new call is the engine's: none becomes a dead engine's.
LEMMA NewCallDisposed ==
    ASSUME IInv, NEW k \in Keys, NEW c \in Convs, NEW kind \in {"create", "steer"}, calls' = NewCall(k, c, kind)
    PROVE  NoneDisposed
<1>1. /\ DOMAIN calls' = DOMAIN calls \cup {Len(calls) + 1}
      /\ \A i \in DOMAIN calls : calls'[i] = calls[i]
      /\ calls'[Len(calls) + 1] =
            [key |-> k, conv |-> c, kind |-> kind, status |-> "sent", owner |-> "engine", doomed |-> FALSE]
  <2>1. calls \in Seq(Call)
    BY DEF IInv, TypeOK
  <2> QED
    BY <2>1, NewCallType
<1>2. calls'[Len(calls) + 1].owner = "engine"
  BY <1>1
<1> QED
  BY <1>1, <1>2 DEF NoneDisposed

\* No receipt is of no key.
LEMMA NotReceived == ASSUME IInv PROVE NoKey \notin past.received
  BY PastFields, KeysAssumption DEF IInv, TypeOK, KeySets

\* Whatever closes intents, takes no receipt and forgets none.
LEMMA NotedKept ==
    ASSUME IInv, Noted, Shuts, past'.received = past.received, tab'.unsaved = tab.unsaved, NoneDisposed
    PROVE  Noted'
  BY NotReceived DEF Noted, Shuts, NoneDisposed

\* A record that is pending after flushReceipts is of a message without a receipt.
LEMMA FlushedOpen ==
    ASSUME IInv, Noted, NEW c \in Convs, Flushed(tab, slot)[c].state = "pending"
    PROVE  Flushed(tab, slot)[c].key \notin past.received
<1>1. Flushed(tab, slot)[c] = IF slot[c].state = "pending" /\ slot[c].key \in tab.unsaved
                              THEN [state |-> "acknowledged", key |-> slot[c].key, code |-> "none"]
                              ELSE slot[c]
  BY FlushedType DEF IInv, TypeOK
<1>2. slot[c].state = "pending" /\ slot[c].key \notin tab.unsaved /\ Flushed(tab, slot)[c] = slot[c]
  BY <1>1
<1> QED
  BY <1>2 DEF Noted, OpenIntent

\* Sending a message (submit) keeps what the storage does not know yet in memory (Noted).
LEMMA SubmitNoted ==
    ASSUME IInv, Noted, NEW c \in Convs, NEW k \in Keys, Submit(c, k)
    PROVE  Noted'
<1> DEFINE f == Flushed(tab, slot)
<1>1. PICK saved \in BOOLEAN, posted \in BOOLEAN : SubmitStep(c, k, saved, posted)
  BY SubmitFoot
<1>2. slot' = (IF saved THEN [f EXCEPT ![c] = Saved(@, k)] ELSE f) /\ f \in [Convs -> Slot]
  BY <1>1, FlushTrue DEF SubmitStep
<1>3. past'.received = past.received /\ tab'.unsaved = {} /\ k \notin past.received
  BY <1>1, Unused DEF SubmitStep, IInv, TypeOK, Past
<1>4. \A d \in Convs : f[d].state = "pending" => f[d].key \notin past.received
  BY FlushedOpen
<1>5. Saved(f[c], k).key = k
  BY DEF Saved, Matches
<1> HIDE DEF f
<1>6. \A d \in Convs : (OpenIntent(d))' \notin past.received
  BY <1>2, <1>3, <1>4, <1>5, NotReceived DEF OpenIntent
<1>7. NoneDisposed
  <2>1. CASE posted
    <3>1. calls' = NewCall(k, c, "create")
      BY <1>1, <2>1 DEF SubmitStep
    <3> QED
      BY <3>1, NewCallDisposed
  <2>2. CASE ~posted
    BY <1>1, <2>2 DEF SubmitStep, NoneDisposed
  <2> QED
    BY <2>1, <2>2
<1> QED
  BY <1>3, <1>6, <1>7 DEF Noted, NoneDisposed

\* Sending a message during a run (submit, run shown) keeps what the storage does not know yet in
\* memory (Noted).
LEMMA SteerNoted == ASSUME IInv, Noted, NEW k \in Keys, Steer(k) PROVE Noted'
<1> DEFINE f == Flushed(tab, slot)
<1>1. SteerStep(k)
  BY SteerFoot
<1>2. slot' = f /\ past'.received = past.received /\ tab'.unsaved = {}
  BY <1>1 DEF SteerStep, IInv, TypeOK, Past
<1>3. \A d \in Convs : f[d].state = "pending" => f[d].key \notin past.received
  BY FlushedOpen
<1> HIDE DEF f
<1>4. \A d \in Convs : (OpenIntent(d))' \notin past.received
  BY <1>2, <1>3, NotReceived DEF OpenIntent
<1>5. NoneDisposed
  BY <1>1, NewCallDisposed DEF SteerStep
<1> QED
  BY <1>2, <1>4, <1>5 DEF Noted, NoneDisposed

\* The retry of a message whose receipt is known (reconcileKnownReceipt) keeps what the storage
\* does not know yet in memory (Noted).
LEMMA RetryKnownNoted == ASSUME IInv, Noted, RetryKnown PROVE Noted'
<1> DEFINE k == tab.pending.key
           c == tab.active
<1>1. RetryKnownStep
  BY RetryKnownFoot
<1>2. /\ \A d \in Convs \ {c} : slot'[d] = slot[d]
      /\ slot'[c].state = "acknowledged" /\ c \in Convs /\ past.home[k] = c
  BY <1>1, RetryKnownSlots, PendingFacts DEF RetryKnownStep
<1>3. UNCHANGED <<calls, past>> /\ tab'.unsaved = tab.unsaved \ {k}
  BY <1>1 DEF RetryKnownStep
<1> HIDE DEF k, c
<1>4. ASSUME NEW d \in Convs, (OpenIntent(d))' \in past.received PROVE (OpenIntent(d))' \in tab'.unsaved
  <2>1. d # c /\ (OpenIntent(d))' = OpenIntent(d) /\ OpenIntent(d) # NoKey
    BY <1>2, <1>4, NotReceived DEF OpenIntent
  <2>2. OpenIntent(d) # k
    BY <1>2, <2>1, OpenFacts DEF OpenTrue
  <2> QED
    BY <1>3, <1>4, <2>1, <2>2 DEF Noted
<1> QED
  BY <1>3, <1>4 DEF Noted

\* A new engine over the same storage (reload, dispose) keeps what the storage does not know yet in
\* memory (Noted).
LEMMA RestartNoted ==
    ASSUME IInv, Noted, MemoryKept, Reload \/ Remount
    PROVE  Noted'
<1>1. PICK owner \in {"nobody", "disposed"} :
         Restart(owner) /\ (owner = "disposed" => "remount" \in Faults)
  BY DEF Reload, Remount
<1>2. CallsLike /\ tab'.unsaved = {}
  BY <1>1, RestartLike, RestartShow
<1>3. tab.unsaved = {}
  BY DEF Noted, MemoryKept, Reload, Remount
<1>4. \A i \in DOMAIN calls' : calls'[i].owner = "disposed" => "remount" \in Faults
  BY <1>1, <1>2, RestartOwned DEF CallsLike
<1>5. UNCHANGED <<slot, past>>
  BY <1>1 DEF Restart
<1> QED
  BY <1>2, <1>3, <1>4, <1>5 DEF Noted, OpenIntent

\* Giving an intent up keeps what the storage does not know yet in memory.
LEMMA GivenUpNoted ==
    ASSUME IInv, Noted, AbandonRecords(tab), GivenUp(Intent(tab), tab.active), tab'.unsaved = tab.unsaved
    PROVE  Noted'
<1>1. Shuts /\ past'.received = past.received /\ CallsLike
  BY GivenUpShuts DEF GivenUp
<1>2. Owned
  BY AbandonOwned
<1> QED
  BY <1>1, <1>2, NotedKept, OwnedDisposed

\* The receipt of a create-message call (beginRun then) keeps what the storage does not know yet in
\* memory (Noted).
LEMMA ReceiptNoted ==
    ASSUME IInv, Noted, MemoryKept, NEW i \in DOMAIN calls, Receipt(i)
    PROVE  Noted'
<1> DEFINE k == calls[i].key
           c == calls[i].conv
<1>1. PICK works \in Works : ReceiptStep(i, works)
  BY ReceiptFoot
<1>2. works \in BOOLEAN
  BY DEF Works
<1>3. Receipted(k, c)
  BY <1>1, <1>2, ReceiptedFoot
<1>4. CallsLike /\ Owned
  BY <1>1, SettledLike, ConsumedLike, SettledOwned, ConsumedOwned DEF ReceiptStep
<1>5. k \in Keys /\ c \in Convs /\ past.home[k] = c
  BY CallFacts DEF IInv, CallsTrue
<1>6. /\ works => slot'[c].key # k \/ slot'[c].state # "pending"
      /\ works => tab'.unsaved \in {tab.unsaved, tab.unsaved \ {k}}
      /\ ~works => slot' = slot /\ tab'.unsaved = tab.unsaved \cup {k} /\ "disk" \in Faults
  <2>1. ASSUME works PROVE slot'[c].key # k \/ slot'[c].state # "pending"
    <3>1. slot'[c] = Acknowledged(slot[c], k)
      BY <1>1, <1>5, <2>1 DEF ReceiptStep, IInv, TypeOK
    <3> QED
      BY <3>1 DEF Acknowledged, Matches
  <2>2. ASSUME ~works PROVE "disk" \in Faults /\ slot' = slot /\ tab'.unsaved = tab.unsaved \cup {k}
    <3>1. "disk" \in Faults
      BY <2>2 DEF Works
    <3>2. calls[i].owner = "engine"
      BY <1>1, <3>1 DEF ReceiptStep, Noted, MemoryKept
    <3> QED
      BY <1>1, <2>2, <3>1, <3>2 DEF ReceiptStep
  <2>3. ASSUME works PROVE tab'.unsaved \in {tab.unsaved, tab.unsaved \ {k}}
    BY <1>1, <2>3 DEF ReceiptStep
  <2> QED
    BY <2>1, <2>2, <2>3
<1> HIDE DEF k, c
<1>7. ASSUME NEW d \in Convs, (OpenIntent(d))' \in past'.received PROVE (OpenIntent(d))' \in tab'.unsaved
  <2>1. past'.received = past.received \cup {k} /\ NoKey \notin past'.received
    BY <1>3, <1>5, NotReceived, KeysAssumption DEF Receipted
  <2>2. (OpenIntent(d))' = OpenIntent(d) /\ OpenIntent(d) # NoKey
    BY <1>3, <1>7, <2>1 DEF Receipted, OpenIntent
  <2>3. CASE OpenIntent(d) = k
    <3>1. d = c
      BY <1>5, <2>2, <2>3, OpenFacts DEF OpenTrue
    <3> QED
      BY <1>6, <2>2, <2>3, <3>1 DEF OpenIntent
  <2>4. CASE OpenIntent(d) # k
    BY <1>6, <1>7, <2>1, <2>2, <2>4 DEF Noted
  <2> QED
    BY <2>3, <2>4
<1>8. "disk" \notin Faults => tab'.unsaved = {}
  BY <1>6 DEF Noted
<1>9. \A j \in DOMAIN calls' : calls'[j].owner = "disposed" => "remount" \in Faults
  BY <1>4, OwnedDisposed DEF Noted, NoneDisposed
<1> QED
  BY <1>7, <1>8, <1>9 DEF Noted

\* The failure of a create-message call (beginRun catch) keeps what the storage does not know yet
\* in memory (Noted).
LEMMA CreateFailsNoted == ASSUME IInv, Noted, NEW i \in DOMAIN calls, CreateFails(i) PROVE Noted'
<1>1. PICK works \in BOOLEAN, code \in {"failed", "unknown"} : CreateFailsStep(i, works, code)
  BY CreateFailsFoot
<1>2. /\ \A d \in Convs : slot'[d].state = slot[d].state /\ slot'[d].key = slot[d].key
      /\ past' = past /\ tab'.unsaved = tab.unsaved
  BY <1>1, CreateFailsSlots DEF CreateFailsStep, Kept
<1>3. Shuts
  BY <1>2 DEF Shuts, OpenIntent
<1>4. NoneDisposed
  BY <1>1, SettledLike, SettledOwned, OwnedDisposed DEF CreateFailsStep
<1> QED
  BY <1>2, <1>3, <1>4, NotedKept

\* The end of a call made during a run (submit steer then, catch) keeps what the storage does not
\* know yet in memory (Noted).
LEMMA SteerAnsweredNoted ==
    ASSUME IInv, Noted, NEW i \in DOMAIN calls, SteerAnswered(i)
    PROVE  Noted'
<1> DEFINE k == calls[i].key
<1>1. k \notin past.saved
  BY DEF SteerAnswered, IInv, CallsTrue
<1>2. slot' = slot /\ past'.received \subseteq past.received \cup {k} /\ tab'.unsaved = tab.unsaved
  BY DEF SteerAnswered, Kept, IInv, TypeOK, Past
<1>3. NoneDisposed
  BY SettledLike, SettledOwned, OwnedDisposed DEF SteerAnswered
<1>4. k \in Keys
  BY CallFacts
<1> HIDE DEF k
<1>5. ASSUME NEW d \in Convs, OpenIntent(d) \in past'.received PROVE OpenIntent(d) \in tab.unsaved
  <2>1. OpenIntent(d) # NoKey
    BY <1>2, <1>4, <1>5, NotReceived, KeysAssumption
  <2>2. OpenIntent(d) # k
    BY <1>1, <2>1, OpenFacts DEF OpenTrue
  <2> QED
    BY <1>2, <1>5, <2>2 DEF Noted
<1>6. \A d \in Convs : (OpenIntent(d))' = OpenIntent(d)
  BY <1>2 DEF OpenIntent
<1> QED
  BY <1>2, <1>3, <1>5, <1>6 DEF Noted, NoneDisposed

\* A quiet step, an applied receipt or a change of view keeps what the storage does not know in
\* memory.
LEMMA QuietNoted ==
    ASSUME IInv, Noted, QuietStep \/ DropStep \/ (ShowStep /\ tab'.unsaved = tab.unsaved /\ UNCHANGED calls)
    PROVE  Noted'
<1>1. slot' = slot /\ past' = past /\ calls' = calls /\ tab'.unsaved = tab.unsaved
  BY DEF QuietStep, DropStep, ShowStep, Kept, Parted
<1> QED
  BY <1>1, SameShuts, NotedKept DEF NoneDisposed

\* A step of the service keeps what the storage does not know in memory.
LEMMA GrowsNoted == ASSUME IInv, Noted, Grows, NoneDisposed PROVE Noted'
  BY SameShuts, NotedKept DEF Grows

\* A command of the user keeps what the storage does not know yet in memory (Noted).
LEMMA UserNoted == ASSUME IInv, Noted, MemoryKept, User PROVE Noted'
<1>1. ASSUME NEW c \in Convs, NEW k \in Keys, Submit(c, k) PROVE Noted'
  BY <1>1, SubmitNoted
<1>2. ASSUME NEW k \in Keys, Steer(k) PROVE Noted'
  BY <1>2, SteerNoted
<1>3. CASE RetryKnown
  BY <1>3, RetryKnownNoted
<1>4. CASE Retry
  <2>1. RetryStep /\ slot' = slot /\ past' = past
    BY <1>4, RetryFoot, RetrySame
  <2>2. NoneDisposed
    BY <2>1, PendingFacts, NewCallDisposed DEF RetryStep
  <2> QED
    BY <2>1, <2>2, SameShuts, NotedKept DEF RetryStep
<1>5. CASE StopSubmission
  BY <1>5, StopSubmissionFoot, AbandonFoot, GivenUpNoted DEF StopSubmissionStep
<1>6. ASSUME NEW c \in Convs, New(c) PROVE Noted'
  BY <1>6, NewFoot, AbandonFoot, GivenUpNoted DEF NewStep
<1>7. CASE StopRun
  BY <1>7, StopRunQuiet, QuietNoted
<1>8. CASE Reconnect
  BY <1>8, ReconnectStep, QuietNoted
<1>9. CASE Reload \/ Remount
  BY <1>9, RestartNoted
<1>10. ASSUME NEW c \in Convs, Select(c) PROVE Noted'
  BY <1>10, SelectShow, QuietNoted
<1> QED
  BY <1>1, <1>2, <1>3, <1>4, <1>5, <1>6, <1>7, <1>8, <1>9, <1>10 DEF User

\* The answer of a call or a read keeps what the storage does not know yet in memory (Noted).
LEMMA AnswersNoted == ASSUME IInv, Noted, MemoryKept, Answers PROVE Noted'
<1>1. ASSUME NEW i \in DOMAIN calls, Receipt(i) PROVE Noted'
  BY <1>1, ReceiptNoted
<1>2. ASSUME NEW i \in DOMAIN calls, CreateFails(i) PROVE Noted'
  BY <1>2, CreateFailsNoted
<1>3. ASSUME NEW i \in DOMAIN calls, SteerReceipt(i) \/ SteerFails(i) PROVE Noted'
  BY <1>3, SteerReceiptFoot, SteerFailsFoot, SteerAnsweredNoted
<1>4. CASE RecoverAbsent
  <2>1. CASE QuietStep
    BY <2>1, QuietNoted
  <2>2. CASE RecoverAbsentStep
    BY <2>2, AbandonFoot, GivenUpNoted DEF RecoverAbsentStep
  <2> QED
    BY <1>4, <2>1, <2>2, RecoverAbsentFoot
<1>5. CASE StopAnswered
  BY <1>5, StopAnsweredQuiet, QuietNoted
<1>6. CASE HydrateAbsent
  BY <1>6, HydrateAbsentStep, QuietNoted
<1>7. CASE HydrateOwner
  BY <1>7, HydrateOwnerStep, QuietNoted
<1>8. CASE HydrateFails
  BY <1>8, HydrateFailsQuiet, QuietNoted
<1>9. CASE HydrateForbidden
  BY <1>9, HydrateForbiddenShow, QuietNoted
<1>10. CASE SyncOwner \/ SyncAbsent
  BY <1>10, SyncOwnerQuiet, SyncAbsentQuiet, QuietNoted
<1>11. CASE StopOwner \/ ReadFails
  BY <1>11, StopOwnerQuiet, ReadFailsQuiet, QuietNoted
<1> QED
  BY <1>1, <1>2, <1>3, <1>4, <1>5, <1>6, <1>7, <1>8, <1>9, <1>10, <1>11 DEF Answers

\* A callback of the stream changes no record, no call and no intent.
LEMMA StreamIsQuiet == ASSUME IInv, Stream PROVE QuietStep
  BY StreamConnectsQuiet, StreamDropsQuiet, StreamFailsQuiet, ReattachTimesOutQuiet, StreamExpiresQuiet,
     StreamEventsQuiet DEF Stream

\* A step of the service keeps what the storage does not know yet in memory (Noted).
LEMMA ServiceNoted == ASSUME IInv, Noted, Service PROVE Noted'
<1>1. ASSUME NEW i \in DOMAIN calls, Accept(i) \/ Refuse(i) PROVE Noted'
  BY <1>1, AcceptGrows, RefuseGrows, ServedOwned, OwnedDisposed, GrowsNoted
<1>2. ASSUME NEW c \in Convs, Start(c) PROVE Noted'
  BY <1>2, StartGrows, GrowsNoted DEF Start, NoneDisposed
<1>3. ASSUME NEW c \in Convs, Vanish(c) PROVE Noted'
  BY <1>3, VanishGrows, GrowsNoted DEF Vanish, NoneDisposed
<1>4. ASSUME NEW c \in Convs, NEW k \in Keys, Complete(c, k) PROVE Noted'
  BY <1>4, CompleteGrows, GrowsNoted DEF Complete, NoneDisposed
<1>5. CASE ReadExecutes
  BY <1>5, ReadExecutesQuiet, QuietNoted
<1> QED
  BY <1>1, <1>2, <1>3, <1>4, <1>5 DEF Service

\* Every step keeps what the storage does not know in memory, where memory lasts as long as its
\* need.
LEMMA NotedNext == ASSUME IInv, Noted, MemoryKept, [Next]_vars PROVE Noted'
<1>1. CASE UNCHANGED vars
  BY <1>1 DEF vars, Noted, OpenIntent
<1> QED
  BY <1>1, UserNoted, AnswersNoted, StreamIsQuiet, QuietNoted, ServiceNoted DEF Next

\* An engine over an empty storage has nothing to remember.
LEMMA NotedInit == ASSUME Init PROVE Noted
<1>1. tab.unsaved = {} /\ calls = <<>> /\ past.received = {}
  BY DEF Init, EmptyEngine
<1> QED
  BY <1>1 DEF Noted

\* A message is posted by a submission, a steer or a retry only.
LEMMA PostsUnknown ==
    ASSUME IInv, Noted, [Next]_vars, Len(calls') > Len(calls)
    PROVE  calls'[Len(calls')].key \notin past.received
<1>1. calls \in Seq(Call) /\ Len(calls) \in Nat
  BY SeqFacts DEF IInv, TypeOK
<1>2. ASSUME NEW k \in Keys, NEW c \in Convs, NEW kind \in {"create", "steer"}, calls' = NewCall(k, c, kind),
             k \notin past.received
      PROVE  calls'[Len(calls')].key \notin past.received
  <2>1. /\ Len(calls') = Len(calls) + 1
        /\ calls'[Len(calls) + 1] =
             [key |-> k, conv |-> c, kind |-> kind, status |-> "sent", owner |-> "engine", doomed |-> FALSE]
    BY <1>1, <1>2, NewCallType
  <2>2. calls'[Len(calls) + 1].key = k
    BY <2>1
  <2> QED
    BY <1>2, <2>1, <2>2
<1>3. ~(UNCHANGED calls) /\ ~CallsLike
  BY <1>1 DEF CallsLike
<1>4. ASSUME NEW c \in Convs, NEW k \in Keys, Submit(c, k)
      PROVE  calls'[Len(calls')].key \notin past.received
  <2>1. PICK saved \in BOOLEAN, posted \in BOOLEAN : SubmitStep(c, k, saved, posted)
    BY <1>4, SubmitFoot
  <2>2. calls' = NewCall(k, c, "create") /\ k \notin past.received
    BY <1>3, <2>1, Unused DEF SubmitStep
  <2> QED
    BY <1>2, <2>2
<1>5. ASSUME NEW k \in Keys, Steer(k) PROVE calls'[Len(calls')].key \notin past.received
  <2>1. calls' = NewCall(k, tab.active, "steer") /\ past.home[k] = NoConv /\ tab.active \in Convs
    BY <1>5, SteerFoot DEF SteerStep
  <2>2. k \notin past.received
    BY <2>1 DEF IInv, PastDrawn
  <2> QED
    BY <1>2, <2>1, <2>2
<1>6. CASE Retry
  <2>1. RetryStep
    BY <1>6, RetryFoot
  <2> DEFINE k == tab.pending.key
             c == tab.active
  <2>2. /\ k \in Keys /\ c \in Convs /\ slot[c].key = k /\ slot[c].state \in {"pending", "acknowledged"}
    BY <2>1, PendingFacts DEF RetryStep
  <2>3. OpenIntent(c) = k /\ k \notin tab.unsaved
    BY <2>1, <2>2 DEF RetryStep, KnownReceipt, OpenIntent
  <2>4. k \notin past.received
    BY <2>2, <2>3 DEF Noted
  <2> QED
    BY <1>2, <2>1, <2>2, <2>4 DEF RetryStep
<1>7. ASSUME RetryKnown \/ StopRun \/ Reconnect \/ (\E c \in Convs : Select(c)) PROVE FALSE
  BY <1>3, <1>7 DEF RetryKnown, StopRun, Reconnect, Select
<1>8. ASSUME StopSubmission \/ (\E c \in Convs : New(c)) \/ RecoverAbsent PROVE FALSE
  BY <1>3, <1>8, AbandonLike DEF StopSubmission, New, RecoverAbsent
<1>9. ASSUME Reload \/ Remount PROVE FALSE
  BY <1>3, <1>9, RestartLike DEF Reload, Remount
<1>10. ASSUME NEW i \in DOMAIN calls, Receipt(i) \/ CreateFails(i) \/ SteerReceipt(i) \/ SteerFails(i)
       PROVE  FALSE
  BY <1>3, <1>10, SettledLike, ConsumedLike DEF Receipt, CreateFails, SteerReceipt, SteerFails
<1>11. ASSUME StopAnswered \/ HydrateAbsent \/ HydrateOwner \/ HydrateFails \/ HydrateForbidden
              \/ SyncOwner \/ SyncAbsent \/ StopOwner \/ ReadFails
       PROVE  FALSE
  BY <1>3, <1>11 DEF StopAnswered, HydrateAbsent, HydrateOwner, HydrateFails, HydrateForbidden,
                     SyncOwner, SyncAbsent, StopOwner, ReadFails
<1>12. ASSUME Stream PROVE FALSE
  BY <1>3, <1>12, StreamIsQuiet DEF QuietStep
<1>13. ASSUME NEW i \in DOMAIN calls, Accept(i) \/ Refuse(i) PROVE FALSE
  BY <1>3, <1>13, ServedLike
<1>14. ASSUME ReadExecutes \/ \E c \in Convs : Start(c) \/ Vanish(c) \/ \E k \in Keys : Complete(c, k)
       PROVE  FALSE
  BY <1>3, <1>14 DEF ReadExecutes, Start, Vanish, Complete
<1>15. CASE User
  BY <1>4, <1>5, <1>6, <1>7, <1>8, <1>9, <1>15 DEF User
<1>16. CASE Answers \/ Stream \/ Service
  BY <1>8, <1>10, <1>11, <1>12, <1>13, <1>14, <1>16 DEF Answers, Service
<1> QED
  BY <1>3, <1>15, <1>16 DEF Next, vars

\* A message whose receipt is known is not posted again, however often it is retried (retry's
\* knownReceipt, flushReceipts): as long as no page is lost that remembers what it could not store.
THEOREM NotReposted == ASSUME MemoryKept PROVE Spec => KnownReceiptNotReposted
<1>1. Init => IInv /\ Noted
  BY InvInit, NotedInit
<1>2. IInv /\ Noted /\ [Next]_vars => (IInv /\ Noted)'
  BY InvNext, NotedNext
<1>3. IInv /\ Noted /\ [Next]_vars =>
        [Len(calls') > Len(calls) => calls'[Len(calls')].key \notin past.received]_vars
  BY PostsUnknown
<1> QED
  BY <1>1, <1>2, <1>3, PTL DEF Spec, KnownReceiptNotReposted

\* Each call is one of before, with its mark or nobody's, or a new one of an intent that is not given up.
Tracked ==
    \A i \in DOMAIN calls' :
        \/ /\ i \in DOMAIN calls
           /\ calls'[i].key = calls[i].key /\ calls'[i].kind = calls[i].kind
           /\ calls'[i].owner \in {calls[i].owner, "nobody"}
           /\ calls'[i].doomed => calls[i].doomed
           /\ calls'[i].owner = "engine" /\ calls[i].doomed => calls'[i].doomed
        \/ calls'[i].key \notin past.gaveUp /\ calls'[i].owner = "engine" /\ ~calls'[i].doomed

\* Where no call gets a new owner and none is doomed or freed, the calls given up stay tracked.
LEMMA OwnedTracked == ASSUME CallsLike, Owned, Marked PROVE Tracked
  BY DEF CallsLike, Owned, Marked, Tracked

\* Where no call changes, the calls given up stay tracked.
LEMMA SameTracked == ASSUME calls' = calls PROVE Tracked
  BY DEF Tracked

\* A new call of a key that was not given up leaves the calls given up tracked.
LEMMA NewCallTracked ==
    ASSUME IInv, NEW k \in Keys, NEW c \in Convs, NEW kind \in {"create", "steer"}, calls' = NewCall(k, c, kind),
           k \notin past.gaveUp
    PROVE  Tracked
<1> DEFINE r == [key |-> k, conv |-> c, kind |-> kind, status |-> "sent", owner |-> "engine", doomed |-> FALSE]
<1>1. /\ DOMAIN calls' = DOMAIN calls \cup {Len(calls) + 1}
      /\ \A i \in DOMAIN calls : calls'[i] = calls[i]
      /\ calls'[Len(calls) + 1] = r
  <2>1. calls \in Seq(Call)
    BY DEF IInv, TypeOK
  <2> QED
    BY <2>1, NewCallType
<1>2. /\ r.owner = "engine" /\ r.key = k /\ ~r.doomed
  OBVIOUS
<1> HIDE DEF r
<1>3. /\ calls'[Len(calls) + 1].owner = "engine" /\ calls'[Len(calls) + 1].key = k
      /\ ~calls'[Len(calls) + 1].doomed
  BY <1>1, <1>2
<1> QED
  BY <1>1, <1>3 DEF Tracked

\* An intent whose receipt came is shown as one whose receipt waits.
Waits == HasPending(tab) /\ tab.pending.key \in past.received => tab.deferred

\* Where nobody gives up and nothing is received, what was given up stays cancelled or tracked.
LEMMA StoppedKept ==
    ASSUME Stopped, past'.gaveUp = past.gaveUp, past'.received = past.received,
           past.cancels \subseteq past'.cancels, Tracked, Waits'
    PROVE  Stopped'
<1>1. ASSUME NEW k \in past'.gaveUp
      PROVE  \/ k \in past'.cancels
             \/ /\ k \notin past'.received
                /\ \A i \in DOMAIN calls' : calls'[i].key = k /\ calls'[i].owner = "engine" => calls'[i].doomed
  BY <1>1 DEF Stopped, Tracked
<1>2. ASSUME NEW i \in DOMAIN calls'
      PROVE  /\ calls'[i].doomed => calls'[i].key \in past'.gaveUp
             /\ calls'[i].key \in past'.gaveUp => calls'[i].kind = "create"
             /\ calls'[i].owner # "disposed"
  BY <1>2 DEF Stopped, Tracked
<1>3. Waits'
  OBVIOUS
<1> QED
  BY <1>1, <1>2, <1>3 DEF Stopped, Waits

\* A quiet step or an applied receipt keeps a message that was given up cancelled, or about to be.
LEMMA QuietStopped == ASSUME IInv, Stopped, QuietStep \/ DropStep PROVE Stopped'
<1>1. past' = past /\ calls' = calls
  BY DEF QuietStep, DropStep
<1>2. Waits'
  BY <1>1 DEF QuietStep, DropStep, Kept, Parted, HasPending, NoPending, Waits, Stopped
<1> QED
  BY <1>1, <1>2, SameTracked, StoppedKept

\* A view shown anew does not hold an intent whose receipt came, where every receipt is stored.
LEMMA ShowWaits ==
    ASSUME IInv, Noted, OneEngine, past' = past, tab'.active \in Convs,
           \/ tab'.pending = NoPending
           \/ /\ slot[tab'.active].state = "pending"
              /\ tab'.pending = [key |-> slot[tab'.active].key, id |-> 0]
    PROVE  Waits'
<1>1. CASE tab'.pending = NoPending
  BY <1>1 DEF Waits, HasPending, NoPending
<1>2. CASE /\ slot[tab'.active].state = "pending"
           /\ tab'.pending = [key |-> slot[tab'.active].key, id |-> 0]
  <2>1. tab'.pending.key = OpenIntent(tab'.active)
    BY <1>2 DEF OpenIntent
  <2>2. OpenIntent(tab'.active) \notin past.received
    BY DEF Noted, OneEngine
  <2> QED
    BY <2>1, <2>2 DEF Waits
<1> QED
  BY <1>1, <1>2

\* A change of view keeps a message that was given up cancelled, or about to be.
LEMMA ShowStopped ==
    ASSUME IInv, Noted, Stopped, OneEngine, ShowStep, Tracked
    PROVE  Stopped'
<1>1. past' = past /\ Waits'
  BY ShowWaits DEF ShowStep
<1> QED
  BY <1>1, StoppedKept

\* A reload of the page (engine start) keeps a message that was given up cancelled, or about to be
\* (Stopped).
LEMMA ReloadStopped ==
    ASSUME IInv, Noted, Stopped, OneEngine, Reload
    PROVE  Stopped'
<1>1. Restart("nobody")
  BY DEF Reload
<1>2. ShowStep /\ CallsLike
  BY <1>1, RestartShow, RestartLike
<1>3. Tracked
  BY <1>1, <1>2, RestartOwned DEF CallsLike, Tracked
<1> QED
  BY <1>2, <1>3, ShowStopped

\* A step of the service keeps a message that was given up cancelled, or about to be.
LEMMA GrowsStopped == ASSUME Stopped, Grows, Tracked PROVE Stopped'
<1>1. past' = past /\ Waits'
  BY DEF Grows, Waits, Stopped, HasPending
<1> QED
  BY <1>1, StoppedKept

\* Sending a message (submit) keeps a message that was given up cancelled, or about to be
\* (Stopped).
LEMMA SubmitStopped ==
    ASSUME IInv, Stopped, NEW c \in Convs, NEW k \in Keys, Submit(c, k)
    PROVE  Stopped'
<1>1. PICK saved \in BOOLEAN, posted \in BOOLEAN : SubmitStep(c, k, saved, posted)
  BY SubmitFoot
<1>2. k \notin past.received \cup past.gaveUp
  BY <1>1, Unused DEF SubmitStep
<1>3. /\ past'.received = past.received /\ past'.gaveUp = past.gaveUp /\ past'.cancels = past.cancels
  BY <1>1 DEF SubmitStep, IInv, TypeOK, Past
<1>4. CASE posted
  <2>1. calls' = NewCall(k, c, "create") /\ tab'.pending.key = k
    BY <1>1, <1>4 DEF SubmitStep
  <2>2. Tracked /\ Waits'
    BY <1>2, <1>3, <2>1, NewCallTracked DEF Waits
  <2> QED
    BY <1>3, <2>2, StoppedKept
<1>5. CASE ~posted
  <2>1. calls' = calls /\ tab'.pending = tab.pending /\ ~HasPending(tab)
    BY <1>1, <1>5 DEF SubmitStep
  <2>2. Tracked /\ Waits'
    BY <2>1, SameTracked DEF Waits, HasPending
  <2> QED
    BY <1>3, <2>2, StoppedKept
<1> QED
  BY <1>4, <1>5

\* Sending a message during a run (submit, run shown) keeps a message that was given up cancelled,
\* or about to be (Stopped).
LEMMA SteerStopped == ASSUME IInv, Stopped, NEW k \in Keys, Steer(k) PROVE Stopped'
<1>1. SteerStep(k)
  BY SteerFoot
<1>2. k \notin past.gaveUp
  BY <1>1 DEF SteerStep, IInv, PastDrawn
<1>3. Tracked
  BY <1>1, <1>2, NewCallTracked DEF SteerStep
<1>4. past'.received = past.received /\ past'.gaveUp = past.gaveUp /\ past'.cancels = past.cancels
  BY <1>1 DEF SteerStep, IInv, TypeOK, Past
<1>5. Waits'
  BY <1>1, <1>4 DEF SteerStep, Waits, Stopped, HasPending
<1> QED
  BY <1>3, <1>4, <1>5, StoppedKept

\* Posting a message again (retry) keeps a message that was given up cancelled, or about to be
\* (Stopped).
LEMMA RetryStopped == ASSUME IInv, Noted, Stopped, Retry PROVE Stopped'
<1> DEFINE k == tab.pending.key
           c == tab.active
<1>1. RetryStep /\ past' = past
  BY RetryFoot, RetrySame
<1>2. /\ k \in Keys /\ c \in Convs /\ slot[c].key = k /\ slot[c].state \in {"pending", "acknowledged"}
      /\ k \notin past.gaveUp
  BY <1>1, PendingFacts DEF RetryStep
<1>3. OpenIntent(c) = k /\ k \notin tab.unsaved
  BY <1>1, <1>2 DEF RetryStep, KnownReceipt, OpenIntent
<1>4. k \notin past.received
  BY <1>2, <1>3 DEF Noted
<1>5. Tracked
  BY <1>1, <1>2, NewCallTracked DEF RetryStep
<1>6. Waits'
  BY <1>1, <1>4 DEF RetryStep, Waits
<1> QED
  BY <1>1, <1>5, <1>6, StoppedKept

\* The retry of a message whose receipt is known (reconcileKnownReceipt) keeps a message that was
\* given up cancelled, or about to be (Stopped).
LEMMA RetryKnownStopped == ASSUME IInv, Stopped, RetryKnown PROVE Stopped'
<1>1. RetryKnownStep
  BY RetryKnownFoot
<1>2. Waits'
  BY <1>1 DEF RetryKnownStep, Waits, HasPending, NoPending
<1> QED
  BY <1>1, <1>2, SameTracked, StoppedKept DEF RetryKnownStep

\* abandonPendingSubmission cancels the run at once, or dooms the call that will admit it.
LEMMA AbandonStopped ==
    ASSUME IInv, Stopped, AbandonRecords(tab), GivenUp(Intent(tab), tab.active), Waits'
    PROVE  Stopped'
<1> DEFINE k == Intent(tab)
<1>1. /\ past'.received = past.received /\ past'.gaveUp = past.gaveUp \cup ({k} \ {NoKey})
      /\ past'.cancels = past.cancels \cup Cancelled(tab) /\ CallsLike
  BY DEF GivenUp
<1>2. /\ Owned
      /\ \A j \in DOMAIN calls :
            /\ calls'[j].doomed => calls[j].doomed \/ calls[j].key = k
            /\ calls[j].doomed => calls'[j].doomed
            /\ calls[j].owner = "engine" /\ calls[j].kind = "create" /\ calls[j].key = k
                  /\ ~tab.deferred => calls'[j].doomed
  BY AbandonOwned
<1>3. \A j \in DOMAIN calls : calls[j].key # NoKey
  BY CallFacts, KeysAssumption
<1>4. \A j \in DOMAIN calls : calls[j].key = k => calls[j].kind = "create"
  <2>1. CASE HasPending(tab)
    BY <2>1, PendingFacts DEF Intent, IInv, CallsTrue
  <2>2. CASE ~HasPending(tab)
    BY <1>3, <2>2 DEF Intent, IInv, Held, PreparedHeld
  <2> QED
    BY <2>1, <2>2
<1>5. k # NoKey => k \in past'.cancels \/ (k \notin past.received /\ ~tab.deferred)
  <2>1. CASE HasPending(tab)
    BY <1>1, <2>1 DEF Intent, Cancelled, Stopped
  <2>2. CASE ~HasPending(tab)
    BY <2>2 DEF Intent, IInv, Held, PreparedHeld
  <2> QED
    BY <2>1, <2>2
<1> HIDE DEF k
<1>6. ASSUME NEW j \in past'.gaveUp
      PROVE  \/ j \in past'.cancels
             \/ /\ j \notin past'.received
                /\ \A i \in DOMAIN calls' : calls'[i].key = j /\ calls'[i].owner = "engine" => calls'[i].doomed
  <2>1. CASE j \in past.gaveUp
    BY <1>1, <1>2, <2>1 DEF Stopped, CallsLike, Owned
  <2>2. CASE j = k /\ k # NoKey
    BY <1>1, <1>2, <1>4, <1>5, <2>2 DEF CallsLike, Owned
  <2> QED
    BY <1>1, <1>6, <2>1, <2>2
<1>7. ASSUME NEW i \in DOMAIN calls'
      PROVE  /\ calls'[i].doomed => calls'[i].key \in past'.gaveUp
             /\ calls'[i].key \in past'.gaveUp => calls'[i].kind = "create"
             /\ calls'[i].owner # "disposed"
  BY <1>1, <1>2, <1>3, <1>4, <1>7 DEF Stopped, CallsLike, Owned
<1> QED
  BY <1>6, <1>7 DEF Stopped, Waits

\* The receipt of a create-message call (beginRun then) keeps a message that was given up
\* cancelled, or about to be (Stopped).
LEMMA ReceiptStopped == ASSUME IInv, Stopped, NEW i \in DOMAIN calls, Receipt(i) PROVE Stopped'
<1> DEFINE k == calls[i].key
           c == calls[i].conv
<1>1. PICK works \in BOOLEAN : ReceiptStep(i, works)
  BY ReceiptFoot DEF Works
<1>2. CallsLike /\ Owned
  BY <1>1, SettledLike, ConsumedLike, SettledOwned, ConsumedOwned DEF ReceiptStep
<1>3. \A j \in DOMAIN calls :
         /\ calls'[j].doomed => calls[j].doomed
         /\ calls'[j].owner = "engine" /\ calls[j].doomed /\ calls[j].key # k => calls'[j].doomed
  BY <1>1, SettledOwned, ConsumedOwned DEF ReceiptStep, Marked
<1>4. /\ past'.received = past.received \cup {k} /\ past'.gaveUp = past.gaveUp
      /\ past'.cancels = IF calls[i].doomed THEN past.cancels \cup {k} ELSE past.cancels
  BY <1>1 DEF ReceiptStep, IInv, TypeOK, Past
<1>5. calls[i].owner = "engine" /\ past.home[k] = c /\ calls[i].kind = "create"
  BY <1>1 DEF ReceiptStep, Stopped, IInv, CallsTrue
<1>6. IF ~calls[i].doomed /\ Holds(i) THEN Taken(tab, tab')
      ELSE tab'.pending = tab.pending /\ tab'.deferred = tab.deferred
  BY <1>1 DEF ReceiptStep
<1>7. Waits'
  <2>1. CASE ~calls[i].doomed /\ Holds(i)
    BY <1>6, <2>1 DEF Taken, Waits, HasPending, NoPending
  <2>2. CASE ~(~calls[i].doomed /\ Holds(i))
    <3>1. SUFFICES ASSUME tab.pending.key = k, HasPending(tab) PROVE FALSE
      BY <1>4, <1>6, <2>2 DEF Waits, HasPending, Stopped
    <3>2. past.home[k] = tab.active /\ k \notin past.gaveUp
      BY <3>1, PendingFacts
    <3>3. Holds(i)
      BY <1>5, <3>1, <3>2 DEF Holds
    <3>4. calls[i].doomed => k \in past.gaveUp
      BY DEF Stopped
    <3> QED
      BY <2>2, <3>2, <3>3, <3>4
  <2> QED
    BY <2>1, <2>2
<1> HIDE DEF k, c
<1>8. ASSUME NEW j \in past'.gaveUp
      PROVE  \/ j \in past'.cancels
             \/ /\ j \notin past'.received
                /\ \A n \in DOMAIN calls' : calls'[n].key = j /\ calls'[n].owner = "engine" => calls'[n].doomed
  <2>1. CASE j = k
    BY <1>4, <1>5, <1>8, <2>1 DEF Stopped, k
  <2>2. CASE j # k
    BY <1>2, <1>3, <1>4, <1>8, <2>2 DEF Stopped, CallsLike, Owned
  <2> QED
    BY <2>1, <2>2
<1>9. ASSUME NEW n \in DOMAIN calls'
      PROVE  /\ calls'[n].doomed => calls'[n].key \in past'.gaveUp
             /\ calls'[n].key \in past'.gaveUp => calls'[n].kind = "create"
             /\ calls'[n].owner # "disposed"
  BY <1>2, <1>3, <1>4, <1>9 DEF Stopped, CallsLike, Owned
<1> QED
  BY <1>7, <1>8, <1>9 DEF Stopped, Waits

\* The failure of a create-message call (beginRun catch) keeps a message that was given up
\* cancelled, or about to be (Stopped).
LEMMA CreateFailsStopped == ASSUME IInv, Stopped, NEW i \in DOMAIN calls, CreateFails(i) PROVE Stopped'
<1>1. PICK works \in BOOLEAN, code \in {"failed", "unknown"} : CreateFailsStep(i, works, code)
  BY CreateFailsFoot
<1>2. past' = past /\ Tracked
  BY <1>1, SettledLike, SettledOwned, OwnedTracked DEF CreateFailsStep
<1>3. Waits'
  BY <1>1, <1>2 DEF CreateFailsStep, Kept, Waits, Stopped, HasPending
<1> QED
  BY <1>2, <1>3, StoppedKept

\* The end of a call made during a run (submit steer then, catch) keeps a message that was given up
\* cancelled, or about to be (Stopped).
LEMMA SteerAnsweredStopped ==
    ASSUME IInv, Stopped, NEW i \in DOMAIN calls, SteerAnswered(i)
    PROVE  Stopped'
<1> DEFINE k == calls[i].key
<1>1. k \notin past.saved \cup past.gaveUp
  BY DEF SteerAnswered, IInv, CallsTrue, Stopped
<1>2. CallsLike /\ Owned /\ Marked
  BY SettledLike, SettledOwned DEF SteerAnswered
<1>3. /\ past'.received \subseteq past.received \cup {k} /\ past'.gaveUp = past.gaveUp
      /\ past'.cancels = past.cancels
  BY DEF SteerAnswered, IInv, TypeOK, Past
<1>4. tab'.pending = tab.pending /\ tab'.deferred = tab.deferred
  BY DEF SteerAnswered, Kept
<1> HIDE DEF k
<1>5. Waits'
  <2>1. HasPending(tab) => tab.pending.key # k
    BY <1>1, PendingFacts
  <2> QED
    BY <1>3, <1>4, <2>1 DEF Waits, HasPending, Stopped
<1>6. ASSUME NEW j \in past'.gaveUp
      PROVE  \/ j \in past'.cancels
             \/ /\ j \notin past'.received
                /\ \A n \in DOMAIN calls' : calls'[n].key = j /\ calls'[n].owner = "engine" => calls'[n].doomed
  BY <1>1, <1>2, <1>3, <1>6 DEF Stopped, CallsLike, Owned, Marked
<1>7. ASSUME NEW n \in DOMAIN calls'
      PROVE  /\ calls'[n].doomed => calls'[n].key \in past'.gaveUp
             /\ calls'[n].key \in past'.gaveUp => calls'[n].kind = "create"
             /\ calls'[n].owner # "disposed"
  BY <1>2, <1>3, <1>7 DEF Stopped, CallsLike, Owned, Marked
<1> QED
  BY <1>5, <1>6, <1>7 DEF Stopped, Waits

\* A command of the user keeps a message that was given up cancelled, or about to be (Stopped).
LEMMA UserStopped == ASSUME IInv, Noted, Stopped, OneEngine, User PROVE Stopped'
<1>1. ASSUME NEW c \in Convs, NEW k \in Keys, Submit(c, k) PROVE Stopped'
  BY <1>1, SubmitStopped
<1>2. ASSUME NEW k \in Keys, Steer(k) PROVE Stopped'
  BY <1>2, SteerStopped
<1>3. CASE RetryKnown \/ Retry
  BY <1>3, RetryKnownStopped, RetryStopped
<1>4. CASE StopSubmission
  <2>1. StopSubmissionStep
    BY <1>4, StopSubmissionFoot
  <2>2. Waits'
    BY <2>1 DEF StopSubmissionStep, Waits, HasPending, NoPending
  <2> QED
    BY <2>1, <2>2, AbandonFoot, AbandonStopped DEF StopSubmissionStep
<1>5. ASSUME NEW c \in Convs, New(c) PROVE Stopped'
  <2>1. NewStep
    BY <1>5, NewFoot
  <2>2. Waits'
    BY <2>1 DEF NewStep, Waits, HasPending, NoPending
  <2> QED
    BY <2>1, <2>2, AbandonFoot, AbandonStopped DEF NewStep
<1>6. CASE StopRun
  BY <1>6, StopRunQuiet, QuietStopped
<1>7. CASE Reconnect
  BY <1>7, ReconnectStep, QuietStopped, ShowStopped, SameTracked
<1>8. CASE Reload
  BY <1>8, ReloadStopped
<1>9. ~Remount
  BY DEF Remount, OneEngine
<1>10. ASSUME NEW c \in Convs, Select(c) PROVE Stopped'
  BY <1>10, SelectShow, ShowStopped, SameTracked
<1> QED
  BY <1>1, <1>2, <1>3, <1>4, <1>5, <1>6, <1>7, <1>8, <1>9, <1>10 DEF User

\* A recovery that finds no conversation (hydrate after an expired cursor) keeps a message that was
\* given up cancelled, or about to be (Stopped).
LEMMA RecoverAbsentStopped == ASSUME IInv, Noted, Stopped, OneEngine, RecoverAbsent PROVE Stopped'
<1>1. CASE QuietStep
  BY <1>1, QuietStopped
<1>2. CASE RecoverAbsentStep
  <2>1. GivenUp(Intent(tab), tab.active) /\ AbandonRecords(tab)
    BY <1>2, AbandonFoot DEF RecoverAbsentStep
  <2>2. Waits'
    <3>1. CASE tab'.pending = NoPending
      BY <3>1 DEF Waits, HasPending, NoPending
    <3>2. CASE /\ slot[tab'.active].state = "pending"
               /\ tab'.pending = [key |-> slot[tab'.active].key, id |-> 0]
      <4>1. tab'.pending.key = OpenIntent(tab'.active) /\ tab'.active \in Convs
        BY <1>2, <3>2 DEF OpenIntent, RecoverAbsentStep
      <4>2. OpenIntent(tab'.active) \notin past.received
        BY <4>1 DEF Noted, OneEngine
      <4>3. past'.received = past.received
        BY <2>1 DEF GivenUp
      <4> QED
        BY <4>1, <4>2, <4>3 DEF Waits
    <3> QED
      BY <1>2, <3>1, <3>2 DEF RecoverAbsentStep
  <2> QED
    BY <2>1, <2>2, AbandonStopped
<1> QED
  BY <1>1, <1>2, RecoverAbsentFoot

\* The answer of a call or a read keeps a message that was given up cancelled, or about to be
\* (Stopped).
LEMMA AnswersStopped == ASSUME IInv, Noted, Stopped, OneEngine, Answers PROVE Stopped'
<1>1. ASSUME NEW i \in DOMAIN calls, Receipt(i) PROVE Stopped'
  BY <1>1, ReceiptStopped
<1>2. ASSUME NEW i \in DOMAIN calls, CreateFails(i) PROVE Stopped'
  BY <1>2, CreateFailsStopped
<1>3. ASSUME NEW i \in DOMAIN calls, SteerReceipt(i) \/ SteerFails(i) PROVE Stopped'
  BY <1>3, SteerReceiptFoot, SteerFailsFoot, SteerAnsweredStopped
<1>4. CASE RecoverAbsent
  BY <1>4, RecoverAbsentStopped
<1>5. CASE StopAnswered
  BY <1>5, StopAnsweredQuiet, QuietStopped
<1>6. CASE HydrateAbsent
  BY <1>6, HydrateAbsentStep, QuietStopped
<1>7. CASE HydrateOwner
  BY <1>7, HydrateOwnerStep, QuietStopped
<1>8. CASE HydrateFails
  BY <1>8, HydrateFailsQuiet, QuietStopped
<1>9. CASE HydrateForbidden
  BY <1>9, HydrateForbiddenShow, ShowStopped, SameTracked
<1>10. CASE SyncOwner \/ SyncAbsent
  BY <1>10, SyncOwnerQuiet, SyncAbsentQuiet, QuietStopped
<1>11. CASE StopOwner \/ ReadFails
  BY <1>11, StopOwnerQuiet, ReadFailsQuiet, QuietStopped
<1> QED
  BY <1>1, <1>2, <1>3, <1>4, <1>5, <1>6, <1>7, <1>8, <1>9, <1>10, <1>11 DEF Answers

\* A step of the service keeps a message that was given up cancelled, or about to be (Stopped).
LEMMA ServiceStopped == ASSUME IInv, Stopped, Service PROVE Stopped'
<1>1. ASSUME NEW i \in DOMAIN calls, Accept(i) \/ Refuse(i) PROVE Stopped'
  BY <1>1, AcceptGrows, RefuseGrows, ServedOwned, OwnedTracked, GrowsStopped
<1>2. ASSUME NEW c \in Convs, Start(c) PROVE Stopped'
  BY <1>2, StartGrows, GrowsStopped, SameTracked DEF Start
<1>3. ASSUME NEW c \in Convs, Vanish(c) PROVE Stopped'
  BY <1>3, VanishGrows, GrowsStopped, SameTracked DEF Vanish
<1>4. ASSUME NEW c \in Convs, NEW k \in Keys, Complete(c, k) PROVE Stopped'
  BY <1>4, CompleteGrows, GrowsStopped, SameTracked DEF Complete
<1>5. CASE ReadExecutes
  BY <1>5, ReadExecutesQuiet, QuietStopped
<1> QED
  BY <1>1, <1>2, <1>3, <1>4, <1>5 DEF Service

\* Every step keeps a message that was given up cancelled, or about to be, where one engine lives
\* in a page.
LEMMA StoppedNext == ASSUME IInv, Noted, Stopped, OneEngine, [Next]_vars PROVE Stopped'
<1>1. CASE UNCHANGED vars
  BY <1>1 DEF vars, Stopped, HasPending
<1> QED
  BY <1>1, UserStopped, AnswersStopped, StreamIsQuiet, QuietStopped, ServiceStopped DEF Next

\* At the start nothing was given up.
LEMMA StoppedInit == ASSUME Init PROVE Stopped
<1>1. calls = <<>> /\ past.received = {} /\ past.gaveUp = {}
  BY DEF Init
<1> QED
  BY <1>1 DEF Stopped

\* A message that was given up and admitted all the same is cancelled (cancelledSubmissions): in a
\* page with one engine, whose storage works.
THEOREM GivenUpCancelled == ASSUME OneEngine PROVE Spec => []GivenUpIsCancelled
<1>1. Init => IInv /\ Noted /\ Stopped
  BY InvInit, NotedInit, StoppedInit
<1>2. IInv /\ Noted /\ Stopped /\ [Next]_vars => (IInv /\ Noted /\ Stopped)'
  BY InvNext, NotedNext, StoppedNext DEF OneEngine, MemoryKept
<1>3. Stopped => GivenUpIsCancelled
  BY DEF Stopped, GivenUpIsCancelled
<1> QED
  BY <1>1, <1>2, <1>3, PTL DEF Spec

=============================================================================
