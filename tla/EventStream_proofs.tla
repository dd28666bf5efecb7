-------------------------- MODULE EventStream_proofs --------------------------
(***************************************************************************)
(* The event stream, for a ledger of any length, runs that end anywhere in *)
(* it, any frames that do not parse and any bounds: the thread is the      *)
(* ledger up to its cursor, every event once and in order; a run that is   *)
(* shown is followed; a recovery is alone.                                 *)
(*                                                                         *)
(* The thread holds because the handle asks for what follows the cursor of *)
(* the thread, and what it asks for again it has seen: the frames of a     *)
(* chunk that are new to the handle are those right after the cursor.      *)
(***************************************************************************)
EXTENDS EventStream, RecursionLemmas, FiniteSetTheorems

\* A run has ended in the ledger only if it was admitted, and only the last one may go on.
RunsAreAdmitted ==
    \A n \in 0..ledger : /\ Ended(1..n) <= admitted
                         /\ n < ledger => Ended(1..n) < admitted

\* A snapshot is not ahead of the ledger.
ReadIsBehind == read.mark <= ledger

\* No event of the thread is past the cursor, dropped or not.
CursorIsNewest == \A i \in DOMAIN thread : thread[i] <= cursor

\* A handle asks for what follows the cursor, has seen nothing past it, and the frames that the
\* service may repeat are frames that it has seen.
HandleIsAtCursor ==
    /\ stream.pc # "none" => stream.start = cursor /\ \A p \in stream.seen : p <= cursor
    /\ stream.pc = "open" => /\ stream.next \in 1..(cursor + 1)
                             /\ \A p \in stream.next..cursor : p \in stream.seen

\* A recovery owns the read of its kind, and no steer's receipt reopens the stream beside it.
RecoveryOwnsRead ==
    /\ read.kind = "recover" => recovering
    /\ recovering => post.kind # "steer"

\* The inductive invariant.
IInv == /\ TypeOK /\ NothingLost /\ LiveIsFollowed /\ RecoveryIsAlone
        /\ RunsAreAdmitted /\ ReadIsBehind /\ CursorIsNewest /\ HandleIsAtCursor /\ RecoveryOwnsRead

-----------------------------------------------------------------------------
(* Positions in order *)

\* What InOrder goes through.
LEMMA InOrderRuns ==
    ASSUME NEW S \in SUBSET Positions
    PROVE  \E f \in [0..Length -> Seq(S)] :
              /\ f[0] = <<>> /\ InOrder(S) = f[Length]
              /\ \A n \in 1..Length : f[n] = IF n \in S THEN Append(f[n - 1], n) ELSE f[n - 1]
<1> DEFINE Def(g) == [n \in 0..Length |->
                         IF n = 0 THEN <<>>
                         ELSE IF n \in S THEN Append(g[n - 1], n) ELSE g[n - 1]]
           Q == Seq(S)
           step == [n \in 1..Length |-> [s \in Q |-> IF n \in S THEN Append(s, n) ELSE s]]
           upto == CHOOSE g : g = Def(g)
<1>1. Length \in Nat
  BY StreamAssumption
<1>2. <<>> \in Q /\ \A s \in Q, n \in S : Append(s, n) \in Q
  OBVIOUS
<1>3. step \in Steps(Length, Q)
  BY <1>2 DEF Steps
<1>4. PICK f : Runs(f, Q, <<>>, Length, step)
  <2> HIDE DEF step, Q, upto, Def
  <2> QED
    BY <1>1, <1>2, <1>3, Iteration
<1>5. f \in [0..Length -> Q] /\ f[0] = <<>> /\ \A n \in 1..Length : f[n] = step[n][f[n - 1]]
  BY <1>4 DEF Runs
<1>6. ASSUME NEW n \in 0..Length
      PROVE  f[n] = IF n = 0 THEN <<>> ELSE IF n \in S THEN Append(f[n - 1], n) ELSE f[n - 1]
  <2> HIDE DEF Q
  <2>1. CASE n = 0
    BY <1>5, <2>1
  <2>2. CASE n # 0
    <3>1. n \in 1..Length /\ n - 1 \in 0..Length
      BY <1>1, <2>2
    <3>2. f[n - 1] \in Q
      BY <1>5, <3>1
    <3> QED
      BY <1>5, <3>1, <3>2, <2>2
  <2> QED
    BY <2>1, <2>2
<1>7. f = Def(f)
  BY <1>5, <1>6
<1>8. upto = Def(upto)
  <2> HIDE DEF Def
  <2> QED
    BY <1>7
<1>9. InOrder(S) = upto[Length]
  BY DEF InOrder
<1> DEFINE T == {n \in Nat : n <= Length => upto[n] \in Q}
<1> HIDE DEF upto, Q
<1>15. ASSUME NEW n \in 0..Length
       PROVE  upto[n] = IF n = 0 THEN <<>> ELSE IF n \in S THEN Append(upto[n - 1], n) ELSE upto[n - 1]
  <2>1. Def(upto)[n] = IF n = 0 THEN <<>> ELSE IF n \in S THEN Append(upto[n - 1], n) ELSE upto[n - 1]
    OBVIOUS
  <2> HIDE DEF Def
  <2> QED
    BY <1>8, <2>1
<1>10. 0 \in T
  BY <1>1, <1>2, <1>15
<1>11. ASSUME NEW n \in Nat, n \in T PROVE n + 1 \in T
  <2>1. SUFFICES ASSUME n + 1 <= Length PROVE upto[n + 1] \in Q
    OBVIOUS
  <2>2. n + 1 \in 0..Length /\ n + 1 # 0 /\ n + 1 - 1 = n /\ upto[n] \in Q
    BY <1>1, <1>11, <2>1
  <2>3. upto[n + 1] = IF n + 1 \in S THEN Append(upto[n], n + 1) ELSE upto[n]
    BY <1>15, <2>2
  <2> QED
    BY <1>2, <2>2, <2>3
<1>12. Nat \subseteq T
  <2> HIDE DEF T
  <2> QED
    BY <1>10, <1>11, Induction
<1>13. upto \in [0..Length -> Q]
  <2>1. \A n \in 0..Length : upto[n] \in Q
    BY <1>1, <1>12
  <2>2. upto = [n \in 0..Length |-> upto[n]]
    BY <1>8
  <2> HIDE DEF Def
  <2> QED
    BY <2>1, <2>2
<1>14. /\ upto[0] = <<>>
       /\ \A n \in 1..Length : upto[n] = IF n \in S THEN Append(upto[n - 1], n) ELSE upto[n - 1]
  <2>1. 0 \in 0..Length /\ \A n \in 1..Length : n \in 0..Length /\ n # 0
    BY <1>1
  <2> QED
    BY <1>15, <2>1
<1> QED
  BY <1>9, <1>13, <1>14 DEF Q

\* Positions in order are those positions.
LEMMA InOrderType ==
    ASSUME NEW S \in SUBSET Positions
    PROVE  InOrder(S) \in Seq(S)
<1>1. Length \in 0..Length
  BY StreamAssumption
<1> QED
  BY <1>1, InOrderRuns

\* The positions that follow a up to b.
Following(a, b) == [i \in 1..(b - a) |-> a + i]

\* They are numbers in a sequence, none of them when b is not past a.
LEMMA FollowingType ==
    ASSUME NEW a \in Nat, NEW b \in Nat
    PROVE  /\ Following(a, b) \in Seq((a + 1)..b)
           /\ a <= b => Len(Following(a, b)) = b - a /\ DOMAIN Following(a, b) = 1..(b - a)
           /\ \A i \in 1..(b - a) : Following(a, b)[i] = a + i
           /\ b <= a => Following(a, b) = <<>>
<1>1. CASE a <= b
  <2>1. b - a \in Nat /\ \A i \in 1..(b - a) : a + i \in (a + 1)..b
    BY <1>1
  <2>2. Following(a, b) \in [1..(b - a) -> (a + 1)..b]
    BY <2>1 DEF Following
  <2>3. Following(a, b) \in Seq((a + 1)..b) /\ Len(Following(a, b)) = b - a
    BY <2>1, <2>2
  <2>4. b <= a => Following(a, b) = <<>>
    BY <2>1, <2>3
  <2> QED
    BY <2>2, <2>3, <2>4 DEF Following
<1>2. CASE b < a
  <2>1. 1..(b - a) = {}
    BY <1>2
  <2>2. Following(a, b) = <<>>
    BY <2>1 DEF Following
  <2> QED
    BY <1>2, <2>1, <2>2
<1> QED
  BY <1>1, <1>2

\* A sequence has a length and elements.
LEMMA SeqFacts ==
    ASSUME NEW S, NEW s \in Seq(S)
    PROVE  Len(s) \in Nat /\ DOMAIN s = 1..Len(s) /\ \A i \in 1..Len(s) : s[i] \in S
  OBVIOUS

\* What a sequence with one more element is.
LEMMA AppendFacts ==
    ASSUME NEW S, NEW s \in Seq(S), NEW e \in S
    PROVE  /\ Append(s, e) \in Seq(S) /\ Len(Append(s, e)) = Len(s) + 1
           /\ \A i \in 1..Len(s) : Append(s, e)[i] = s[i]
           /\ Append(s, e)[Len(s) + 1] = e
  OBVIOUS

\* Sequences are equal when their elements are.
LEMMA SameSeq ==
    ASSUME NEW S, NEW s \in Seq(S), NEW t \in Seq(S), Len(s) = Len(t), \A i \in 1..Len(s) : s[i] = t[i]
    PROVE  s = t
  OBVIOUS

\* One more.
LEMMA FollowingNext ==
    ASSUME NEW a \in Nat, NEW b \in Nat, a <= b
    PROVE  Append(Following(a, b), b + 1) = Following(a, b + 1)
<1> DEFINE s == Following(a, b)
           t == Following(a, b + 1)
<1>1. /\ s \in Seq((a + 1)..b) /\ Len(s) = b - a /\ t \in Seq((a + 1)..(b + 1)) /\ Len(t) = b + 1 - a
      /\ \A i \in 1..(b - a) : s[i] = a + i
      /\ \A i \in 1..(b + 1 - a) : t[i] = a + i
  <2>1. b + 1 \in Nat /\ a <= b + 1
    OBVIOUS
  <2>2. s \in Seq((a + 1)..b) /\ Len(s) = b - a /\ \A i \in 1..(b - a) : s[i] = a + i
    BY FollowingType
  <2>3. t \in Seq((a + 1)..(b + 1)) /\ Len(t) = b + 1 - a /\ \A i \in 1..(b + 1 - a) : t[i] = a + i
    BY <2>1, FollowingType
  <2> QED
    BY <2>2, <2>3
<1> HIDE DEF s, t
<1> DEFINE S == (a + 1)..(b + 1)
           u == Append(s, b + 1)
<1>2. s \in Seq(S) /\ t \in Seq(S) /\ b + 1 \in S
  BY <1>1
<1> HIDE DEF S
<1>3. /\ u \in Seq(S) /\ Len(u) = Len(s) + 1 /\ u[Len(s) + 1] = b + 1
      /\ \A i \in 1..Len(s) : u[i] = s[i]
  BY <1>2, AppendFacts
<1> HIDE DEF u
<1>4. Len(u) = Len(t) /\ Len(u) = b + 1 - a
  BY <1>1, <1>3
<1>5. ASSUME NEW i \in 1..Len(u) PROVE u[i] = t[i]
  <2>1. CASE i = b + 1 - a
    <3>1. i = Len(s) + 1 /\ t[i] = b + 1 /\ u[i] = b + 1
      BY <1>1, <1>3, <1>4, <2>1
    <3> QED
      BY <3>1
  <2>2. CASE i # b + 1 - a
    BY <1>1, <1>3, <1>4, <2>2
  <2> QED
    BY <2>1, <2>2
<1>6. u = t
  BY <1>2, <1>3, <1>4, <1>5, SameSeq
<1> QED
  BY <1>6 DEF s, t, u

\* An interval in order.
LEMMA InOrderInterval ==
    ASSUME NEW a \in 0..Length, NEW b \in a..Length
    PROVE  InOrder((a + 1)..b) = Following(a, b)
<1>1. (a + 1)..b \in SUBSET Positions /\ Length \in Nat /\ a \in Nat /\ b \in Nat /\ a <= b
  BY StreamAssumption DEF Positions
<1>2. PICK f \in [0..Length -> Seq((a + 1)..b)] :
              /\ f[0] = <<>> /\ InOrder((a + 1)..b) = f[Length]
              /\ \A n \in 1..Length : f[n] = IF n \in (a + 1)..b THEN Append(f[n - 1], n) ELSE f[n - 1]
  BY <1>1, InOrderRuns
<1> DEFINE T == {n \in Nat : n <= Length => f[n] = Following(a, IF n <= b THEN n ELSE b)}
<1>3. 0 \in T
  BY <1>1, <1>2, FollowingType
<1>4. ASSUME NEW n \in Nat, n \in T PROVE n + 1 \in T
  <2>1. SUFFICES ASSUME n + 1 <= Length PROVE f[n + 1] = Following(a, IF n + 1 <= b THEN n + 1 ELSE b)
    OBVIOUS
  <2>2. /\ f[n] = Following(a, IF n <= b THEN n ELSE b)
        /\ f[n + 1] = IF n + 1 \in (a + 1)..b THEN Append(f[n], n + 1) ELSE f[n]
    BY <1>1, <1>2, <1>4, <2>1, SMTT(30)
  <2>3. CASE n + 1 \in (a + 1)..b
    <3>1. a <= n /\ n <= b /\ n + 1 <= b
      BY <1>1, <2>3
    <3> QED
      BY <1>1, <2>2, <2>3, <3>1, FollowingNext
  <2>4. CASE n + 1 <= a
    BY <1>1, <2>2, <2>4, FollowingType
  <2>5. CASE b < n + 1
    BY <1>1, <2>2, <2>5
  <2> QED
    BY <1>1, <2>3, <2>4, <2>5
<1>5. Length \in T
  <2> HIDE DEF T
  <2> QED
    BY <1>1, <1>3, <1>4, Induction
<1> QED
  BY <1>1, <1>2, <1>5

-----------------------------------------------------------------------------
(* The runs that ended *)

\* Terminal is finite, and so is what has ended of it.
LEMMA TerminalIsFinite ==
    ASSUME NEW E
    PROVE  IsFiniteSet(Terminal \cap E)
<1>1. Length \in Int /\ Terminal \subseteq 1..Length
  BY StreamAssumption
<1>2. IsFiniteSet(1..Length)
  BY <1>1, FS_Interval
<1> DEFINE S == 1..Length
<1> HIDE DEF S
<1>3. IsFiniteSet(S) /\ Terminal \cap E \in SUBSET S
  BY <1>1, <1>2 DEF S
<1> QED
  BY <1>3, FS_Subset

\* More events, more runs that ended.
LEMMA EndedGrows ==
    ASSUME NEW E, NEW F \in SUBSET E
    PROVE  Ended(E) \in Nat /\ Ended(F) \in Nat /\ Ended(F) <= Ended(E)
<1>1. IsFiniteSet(Terminal \cap E) /\ Terminal \cap F \in SUBSET (Terminal \cap E)
  BY TerminalIsFinite
<1>2. IsFiniteSet(Terminal \cap F) /\ Cardinality(Terminal \cap F) <= Cardinality(Terminal \cap E)
  BY <1>1, FS_Subset
<1>3. Cardinality(Terminal \cap E) \in Nat
  BY <1>1, FS_CardinalityType
<1>4. Cardinality(Terminal \cap F) \in Nat
  BY <1>2, FS_CardinalityType
<1> QED
  BY <1>2, <1>3, <1>4 DEF Ended

\* One more event ends at most one run.
LEMMA EndedNext ==
    ASSUME NEW n \in Nat
    PROVE  Ended(1..(n + 1)) <= Ended(1..n) + 1
<1> DEFINE old == Terminal \cap 1..n
           new == Terminal \cap 1..(n + 1)
<1>1. IsFiniteSet(old) /\ Cardinality(old) \in Nat
  BY TerminalIsFinite, FS_CardinalityType
<1>2. new \in SUBSET (old \cup {n + 1})
  OBVIOUS
<1> HIDE DEF old, new
<1>3. IsFiniteSet(old \cup {n + 1}) /\ Cardinality(old \cup {n + 1}) \in Nat
      /\ Cardinality(old \cup {n + 1}) <= Cardinality(old) + 1
  <2>1. /\ IsFiniteSet(old \cup {n + 1})
        /\ Cardinality(old \cup {n + 1}) = IF n + 1 \in old THEN Cardinality(old) ELSE Cardinality(old) + 1
    BY <1>1, FS_AddElement
  <2> QED
    BY <1>1, <2>1
<1>4. Cardinality(new) <= Cardinality(old \cup {n + 1})
  BY <1>2, <1>3, FS_Subset
<1>5. IsFiniteSet(new)
  BY <1>2, <1>3, FS_Subset
<1>6. Cardinality(new) \in Nat
  BY <1>5, FS_CardinalityType
<1>7. Cardinality(new) <= Cardinality(old) + 1
  BY <1>1, <1>3, <1>4, <1>6
<1> QED
  BY <1>7 DEF Ended, old, new

\* The events of the ledger are of runs that were admitted.
LEMMA RunAtType ==
    ASSUME TypeOK, RunsAreAdmitted, NEW p \in 1..ledger
    PROVE  RunAt(p) \in 1..MaxRuns
<1>1. ledger \in Nat /\ admitted \in 1..MaxRuns /\ MaxRuns \in Nat
  BY StreamAssumption DEF TypeOK
<1>2. p - 1 \in 0..ledger /\ p - 1 < ledger
  BY <1>1
<1>3. Ended(1..(p - 1)) < admitted
  BY <1>2 DEF RunsAreAdmitted
<1>4. Ended(1..(p - 1)) \in Nat
  BY EndedGrows
<1> QED
  BY <1>1, <1>3, <1>4 DEF RunAt

\* The runs that ended up to a position of the ledger were admitted.
LEMMA EndedType ==
    ASSUME TypeOK, RunsAreAdmitted, NEW n \in 0..ledger
    PROVE  Ended(1..n) \in 0..admitted /\ 1..Ended(1..n) \subseteq 1..MaxRuns
<1>1. admitted \in 1..MaxRuns /\ MaxRuns \in Nat
  BY StreamAssumption DEF TypeOK
<1>2. Ended(1..n) <= admitted
  BY DEF RunsAreAdmitted
<1>3. Ended(1..n) \in Nat
  BY EndedGrows
<1> QED
  BY <1>1, <1>2, <1>3

-----------------------------------------------------------------------------
(* What the machine makes of a batch *)

\* The machine names a run exactly while it shows one.
Hearing ==
    {m \in [phase : {"live", "idle", "submitting"}, run : 0..MaxRuns, settled : BOOLEAN] :
        m.phase = "live" <=> m.run # 0}

\* An event keeps it so.
LEMMA EventHeard ==
    ASSUME TypeOK, RunsAreAdmitted, NEW m \in Hearing, NEW p \in 1..ledger
    PROVE  STREAM_EVENT(m, p) \in Hearing
<1>1. RunAt(p) \in 1..MaxRuns /\ MaxRuns \in Nat
  BY RunAtType, StreamAssumption
<1>2. CASE m.phase = "live" /\ RunAt(p) = m.run /\ p \in Terminal
  <2>1. STREAM_EVENT(m, p) = [phase |-> "idle", run |-> 0, settled |-> TRUE]
    BY <1>2 DEF STREAM_EVENT
  <2> QED
    BY <1>1, <2>1 DEF Hearing
<1>3. CASE m.phase = "idle" /\ Starts(p)
  <2>1. STREAM_EVENT(m, p) = [m EXCEPT !.phase = "live", !.run = RunAt(p)]
    BY <1>3 DEF STREAM_EVENT
  <2>2. RunAt(p) \in 0..MaxRuns /\ RunAt(p) # 0
    BY <1>1
  <2> QED
    BY <2>1, <2>2 DEF Hearing
<1>4. CASE ~(m.phase = "live" /\ RunAt(p) = m.run /\ p \in Terminal) /\ ~(m.phase = "idle" /\ Starts(p))
  BY <1>4 DEF STREAM_EVENT
<1> QED
  BY <1>2, <1>3, <1>4

\* And so does a batch, of any length.
LEMMA HeardType ==
    ASSUME TypeOK, RunsAreAdmitted, NEW events \in Seq(1..ledger)
    PROVE  Heard(events) \in Hearing
<1> DEFINE start == [phase |-> phase, run |-> run, settled |-> FALSE]
           Def(g) == [n \in 0..Len(events) |-> IF n = 0 THEN start ELSE STREAM_EVENT(g[n - 1], events[n])]
           step == [n \in 1..Len(events) |-> [m \in Hearing |-> STREAM_EVENT(m, events[n])]]
           after == CHOOSE g : g = Def(g)
<1>1. Len(events) \in Nat /\ \A n \in 1..Len(events) : events[n] \in 1..ledger
  BY SeqFacts
<1>2. start \in Hearing
  BY DEF TypeOK, Hearing
<1> HIDE DEF start
<1>3. step \in Steps(Len(events), Hearing)
  BY <1>1, EventHeard DEF Steps
<1>4. PICK f : Runs(f, Hearing, start, Len(events), step)
  <2> HIDE DEF step, after, Def
  <2> QED
    BY <1>1, <1>2, <1>3, Iteration
<1>5. /\ f \in [0..Len(events) -> Hearing] /\ f[0] = start
      /\ \A n \in 1..Len(events) : f[n] = step[n][f[n - 1]]
  BY <1>4 DEF Runs
<1>6. ASSUME NEW n \in 0..Len(events)
      PROVE  f[n] = IF n = 0 THEN start ELSE STREAM_EVENT(f[n - 1], events[n])
  <2>1. CASE n = 0
    BY <1>5, <2>1
  <2>2. CASE n # 0
    <3>1. n \in 1..Len(events) /\ n - 1 \in 0..Len(events)
      BY <1>1, <2>2
    <3>2. f[n - 1] \in Hearing
      BY <1>5, <3>1
    <3> QED
      BY <1>5, <3>1, <3>2, <2>2
  <2> QED
    BY <2>1, <2>2
<1>7. f = Def(f)
  BY <1>5, <1>6
<1>8. after = Def(after)
  <2> HIDE DEF Def
  <2> QED
    BY <1>7
<1>9. Heard(events) = after[Len(events)]
  BY DEF Heard, start
<1> HIDE DEF after
<1>10. ASSUME NEW n \in 0..Len(events)
       PROVE  after[n] = IF n = 0 THEN start ELSE STREAM_EVENT(after[n - 1], events[n])
  <2>1. Def(after)[n] = IF n = 0 THEN start ELSE STREAM_EVENT(after[n - 1], events[n])
    OBVIOUS
  <2> HIDE DEF Def
  <2> QED
    BY <1>8, <2>1
<1> DEFINE T == {n \in Nat : n <= Len(events) => after[n] \in Hearing}
<1>11. 0 \in T
  BY <1>1, <1>2, <1>10
<1>12. ASSUME NEW n \in Nat, n \in T PROVE n + 1 \in T
  <2>1. SUFFICES ASSUME n + 1 <= Len(events) PROVE after[n + 1] \in Hearing
    OBVIOUS
  <2>2. n + 1 \in 0..Len(events) /\ n + 1 \in 1..Len(events) /\ n + 1 # 0 /\ n + 1 - 1 = n
        /\ after[n] \in Hearing
    BY <1>1, <1>12, <2>1
  <2>3. after[n + 1] = STREAM_EVENT(after[n], events[n + 1]) /\ events[n + 1] \in 1..ledger
    BY <1>1, <1>10, <2>2
  <2> QED
    BY <2>2, <2>3, EventHeard
<1>13. Nat \subseteq T
  <2> HIDE DEF T
  <2> QED
    BY <1>11, <1>12, Induction
<1> QED
  BY <1>1, <1>9, <1>13

-----------------------------------------------------------------------------
(* The types of the records *)

StreamType == [pc : {"none", "fetching", "open", "waiting"}, start : 0..Length,
               next : 0..(Length + 1), seen : SUBSET Positions]
ReadType == [kind : {"none", "recover", "settle"}, mark : -1..Length, head : 0..MaxRuns, start : 0..Length]
PostType == [kind : {"none", "submit", "steer", "ghost"}, run : 0..MaxRuns]

\* The types of what is written in more than one place.
LEMMA RecordTypes ==
    ASSUME TypeOK
    PROVE  /\ stream \in StreamType /\ read \in ReadType /\ post \in PostType
           /\ NoStream \in StreamType
           /\ \A c \in 0..Length : [NoStream EXCEPT !.pc = "fetching", !.start = c] \in StreamType
           /\ \A s \in StreamType, pc \in {"none", "fetching", "open", "waiting"} :
                 [s EXCEPT !.pc = pc] \in StreamType
           /\ NoRead \in ReadType /\ [NoRead EXCEPT !.kind = "recover"] \in ReadType
           /\ \A c \in 0..Length : [NoRead EXCEPT !.kind = "settle", !.start = c] \in ReadType
           /\ NoPost \in PostType
           /\ \A kind \in {"submit", "steer"} : [NoPost EXCEPT !.kind = kind] \in PostType
           /\ Steerless \in PostType /\ Steerless.kind # "steer"
<1>1. Length \in Nat \ {0} /\ MaxRuns \in Nat \ {0}
  BY StreamAssumption
<1>2. stream \in StreamType /\ read \in ReadType /\ post \in PostType
  BY DEF TypeOK, StreamType, ReadType, PostType
<1>3. NoStream \in StreamType
  BY <1>1 DEF NoStream, StreamType
<1>4. ASSUME NEW c \in 0..Length
      PROVE  [NoStream EXCEPT !.pc = "fetching", !.start = c] \in StreamType
  <2>1. \A s \in StreamType : [s EXCEPT !.pc = "fetching", !.start = c] \in StreamType
    BY DEF StreamType
  <2> QED
    BY <1>3, <2>1
<1>5. \A s \in StreamType, pc \in {"none", "fetching", "open", "waiting"} :
          [s EXCEPT !.pc = pc] \in StreamType
  BY DEF StreamType
<1>6. NoRead \in ReadType /\ [NoRead EXCEPT !.kind = "recover"] \in ReadType
  BY <1>1 DEF NoRead, ReadType
<1>7. ASSUME NEW c \in 0..Length
      PROVE  [NoRead EXCEPT !.kind = "settle", !.start = c] \in ReadType
  <2>1. \A r \in ReadType : [r EXCEPT !.kind = "settle", !.start = c] \in ReadType
    BY DEF ReadType
  <2> QED
    BY <1>6, <2>1
<1>8. NoPost \in PostType /\ \A kind \in {"submit", "steer"} : [NoPost EXCEPT !.kind = kind] \in PostType
  BY <1>1 DEF NoPost, PostType
<1>9. Steerless \in PostType /\ Steerless.kind # "steer"
  BY <1>2 DEF Steerless, PostType
<1> QED
  BY <1>2, <1>3, <1>4, <1>5, <1>6, <1>7, <1>8, <1>9

\* The types by those names.
LEMMA TypesNamed ==
    TypeOK <=>
        /\ ledger \in 0..Length /\ admitted \in 1..MaxRuns /\ floor \in 0..Length
        /\ bad \subseteq Positions
        /\ stream \in StreamType /\ late \in BOOLEAN
        /\ thread \in Seq(Positions) /\ cursor \in 0..Length
        /\ phase \in {"live", "idle", "submitting"}
        /\ run \in 0..MaxRuns /\ (phase = "live" <=> run # 0)
        /\ observed \subseteq 1..MaxRuns
        /\ connection \in {"connected", "reconnecting", "unavailable"}
        /\ timer \in BOOLEAN /\ recovering \in BOOLEAN /\ resets \in 0..2
        /\ read \in ReadType /\ post \in PostType /\ deferred \in 0..MaxRuns
        /\ faults \in 0..MaxFaults /\ dropped \in BOOLEAN
  BY DEF TypeOK, StreamType, ReadType, PostType

\* The same of the next state.
LEMMA TypesNextNamed ==
    ASSUME /\ ledger' \in 0..Length /\ admitted' \in 1..MaxRuns /\ floor' \in 0..Length
           /\ bad' \subseteq Positions
           /\ stream' \in StreamType /\ late' \in BOOLEAN
           /\ thread' \in Seq(Positions) /\ cursor' \in 0..Length
           /\ phase' \in {"live", "idle", "submitting"}
           /\ run' \in 0..MaxRuns /\ (phase' = "live" <=> run' # 0)
           /\ observed' \subseteq 1..MaxRuns
           /\ connection' \in {"connected", "reconnecting", "unavailable"}
           /\ timer' \in BOOLEAN /\ recovering' \in BOOLEAN /\ resets' \in 0..2
           /\ read' \in ReadType /\ post' \in PostType /\ deferred' \in 0..MaxRuns
           /\ faults' \in 0..MaxFaults /\ dropped' \in BOOLEAN
    PROVE  TypeOK'
  BY DEF TypeOK, StreamType, ReadType, PostType

\* The numbers of the ledger and of the read.
LEMMA Numbers ==
    ASSUME TypeOK
    PROVE  ledger \in Nat /\ admitted \in Nat /\ cursor \in Nat /\ read.mark \in Int
<1>1. ledger \in 0..Length /\ admitted \in 1..MaxRuns /\ cursor \in 0..Length /\ read \in ReadType
  BY TypesNamed
<1>2. read.mark \in -1..Length
  BY <1>1 DEF ReadType
<1> QED
  BY <1>1, <1>2

\* A fault is one of the bound.
LEMMA FaultType ==
    ASSUME TypeOK, Fault
    PROVE  faults' \in 0..MaxFaults
<1>1. faults \in 0..MaxFaults /\ faults < MaxFaults /\ faults' = faults + 1 /\ MaxFaults \in Nat
  BY StreamAssumption DEF TypeOK, Fault
<1> QED
  BY <1>1

\* A stream is closed.
LEMMA CloseType ==
    ASSUME TypeOK, Close
    PROVE  stream' \in StreamType /\ late' \in BOOLEAN /\ stream'.pc = "none"
<1>1. stream' = NoStream /\ late' = (late \/ stream.pc = "fetching")
  BY DEF Close
<1> QED
  BY <1>1, RecordTypes DEF TypeOK, NoStream

\* A stream is opened at the cursor c.
LEMMA OpenType ==
    ASSUME TypeOK, NEW c \in 0..Length, Open(c)
    PROVE  /\ stream' \in StreamType /\ late' \in BOOLEAN
           /\ stream'.pc = "fetching" /\ stream'.start = c /\ stream'.seen = {}
<1>1. stream' = [NoStream EXCEPT !.pc = "fetching", !.start = c]
      /\ late' = (late \/ stream.pc = "fetching")
  BY DEF Open
<1>2. stream' \in StreamType
  BY <1>1, RecordTypes
<1> QED
  BY <1>1, <1>2 DEF NoStream

-----------------------------------------------------------------------------
(* The service *)

\* A run writes an event.
LEMMA WriteKeeps == ASSUME IInv, WriteEvent PROVE IInv'
<1>1. /\ TypeOK /\ ledger < Length /\ Ended(1..ledger) < admitted /\ ledger' = ledger + 1
      /\ UNCHANGED <<admitted, floor, bad, stream, late, thread, cursor, phase, run, observed, connection,
                     timer, recovering, resets, read, post, deferred, faults, dropped>>
  BY DEF IInv, WriteEvent, engine, machine, history
<1>2. ledger \in Nat /\ Length \in Nat /\ ledger' \in 0..Length
  BY <1>1, StreamAssumption DEF TypeOK
<1>3. TypeOK'
  BY <1>1, <1>2, TypesNamed, TypesNextNamed
<1>4. RunsAreAdmitted'
  <2>1. Ended(1..(ledger + 1)) <= Ended(1..ledger) + 1 /\ Ended(1..ledger) \in Nat
        /\ Ended(1..(ledger + 1)) \in Nat
    BY <1>2, EndedNext, EndedGrows
  <2>4. admitted \in Nat
    BY <1>1, TypesNamed
  <2>2. Ended(1..(ledger + 1)) <= admitted
    BY <1>1, <2>1, <2>4
  <2>3. ASSUME NEW n \in 0..ledger' PROVE Ended(1..n) <= admitted /\ (n < ledger' => Ended(1..n) < admitted)
    <3>1. CASE n = ledger + 1
      BY <1>1, <1>2, <2>2, <3>1
    <3>2. CASE n = ledger
      BY <1>1, <2>1, <3>2, Numbers DEF IInv, RunsAreAdmitted
    <3>3. CASE n \in 0..ledger /\ n < ledger
      BY <3>3 DEF IInv, RunsAreAdmitted
    <3> QED
      BY <1>1, <1>2, <3>1, <3>2, <3>3
  <2> QED
    BY <1>1, <2>3 DEF RunsAreAdmitted, Ended
<1>5. ReadIsBehind'
  <2>1. read.mark \in Int /\ read.mark <= ledger
    BY <1>1, Numbers DEF IInv, ReadIsBehind
  <2>2. read.mark <= ledger + 1
    BY <1>2, <2>1
  <2> QED
    BY <1>1, <2>2 DEF ReadIsBehind
<1>6. /\ NothingLost' /\ LiveIsFollowed' /\ RecoveryIsAlone' /\ CursorIsNewest' /\ HandleIsAtCursor'
      /\ RecoveryOwnsRead'
  BY <1>1 DEF IInv, NothingLost, LiveIsFollowed, RecoveryIsAlone, CursorIsNewest, HandleIsAtCursor,
              RecoveryOwnsRead
<1> QED
  BY <1>3, <1>4, <1>5, <1>6 DEF IInv

\* A step that leaves the ledger and the runs alone.
LEMMA ServerKept ==
    ASSUME IInv, UNCHANGED <<ledger, admitted>>
    PROVE  RunsAreAdmitted'
  BY DEF IInv, RunsAreAdmitted, Ended

\* A step that leaves the thread and its cursor alone.
LEMMA ThreadKept ==
    ASSUME IInv, UNCHANGED <<thread, cursor, dropped>>
    PROVE  NothingLost' /\ CursorIsNewest'
  BY DEF IInv, NothingLost, CursorIsNewest

\* A message is admitted, or an event is collected.
LEMMA ServiceKeeps == ASSUME IInv, AdmitElsewhere \/ AdmitPost \/ Collect PROVE IInv'
<1>1. /\ TypeOK
      /\ UNCHANGED <<ledger, bad, stream, late, thread, cursor, phase, run, observed, connection, timer,
                     recovering, resets, read, deferred, faults, dropped>>
  BY DEF IInv, AdmitElsewhere, AdmitPost, Collect, engine, machine, history
<1>2. admitted' \in 1..MaxRuns /\ admitted <= admitted'
  <2>1. admitted \in 1..MaxRuns /\ MaxRuns \in Nat
    BY <1>1, StreamAssumption DEF TypeOK
  <2>2. admitted' = admitted \/ (admitted < MaxRuns /\ admitted' = admitted + 1)
    BY DEF AdmitElsewhere, AdmitPost, Collect
  <2> QED
    BY <2>1, <2>2
<1>3. floor' \in 0..Length
  <2>1. floor \in 0..Length /\ ledger \in 0..Length /\ Length \in Nat
    BY <1>1, StreamAssumption DEF TypeOK
  <2>2. floor' = floor \/ (floor < ledger /\ floor' = floor + 1)
    BY DEF AdmitElsewhere, AdmitPost, Collect
  <2> QED
    BY <2>1, <2>2
<1>4. post' \in PostType /\ post'.kind = post.kind
  <2>1. post \in PostType
    BY <1>1, RecordTypes
  <2>2. CASE AdmitPost
    <3>1. admitted < MaxRuns /\ admitted + 1 \in 0..MaxRuns /\ post' = [post EXCEPT !.run = admitted + 1]
      <4>1. admitted \in 1..MaxRuns /\ MaxRuns \in Nat
        BY <1>1, StreamAssumption DEF TypeOK
      <4>2. admitted < MaxRuns /\ post' = [post EXCEPT !.run = admitted + 1]
        BY <2>2 DEF AdmitPost
      <4> QED
        BY <4>1, <4>2
    <3> QED
      BY <2>1, <3>1 DEF PostType
  <2>3. CASE AdmitElsewhere \/ Collect
    BY <2>1, <2>3 DEF AdmitElsewhere, Collect
  <2> QED
    BY <2>2, <2>3
<1>5. TypeOK'
  BY <1>1, <1>2, <1>3, <1>4, TypesNamed, TypesNextNamed
<1>6. RunsAreAdmitted'
  <2>1. admitted \in Nat /\ admitted' \in Nat /\ \A n \in 0..ledger : Ended(1..n) \in Nat
    BY <1>1, <1>2, EndedGrows, Numbers
  <2>2. \A n \in 0..ledger : Ended(1..n) <= admitted' /\ (n < ledger => Ended(1..n) < admitted')
    BY <1>2, <2>1 DEF IInv, RunsAreAdmitted
  <2> QED
    BY <1>1, <2>2 DEF RunsAreAdmitted, Ended
<1>7. /\ ReadIsBehind' /\ LiveIsFollowed' /\ RecoveryIsAlone' /\ HandleIsAtCursor' /\ RecoveryOwnsRead'
  BY <1>1, <1>4 DEF IInv, ReadIsBehind, LiveIsFollowed, RecoveryIsAlone, HandleIsAtCursor, RecoveryOwnsRead
<1> QED
  BY <1>1, <1>5, <1>6, <1>7, ThreadKept DEF IInv

-----------------------------------------------------------------------------
(* The loop of the handle *)

\* The stream is connected: it goes on, or repeats frames that the handle has seen.
LEMMA ConnectedKeeps == ASSUME IInv, Connected PROVE IInv'
<1>1. /\ TypeOK /\ stream.pc = "fetching" /\ connection' = "connected"
      /\ UNCHANGED <<ledger, admitted, floor, bad, late, thread, cursor, phase, run, observed, timer,
                     recovering, resets, read, post, deferred, faults, dropped>>
  BY DEF IInv, Connected, server, machine, history
<1>2. stream \in StreamType /\ stream.start = cursor /\ cursor \in 0..Length /\ Length \in Nat
      /\ \A p \in stream.seen : p <= cursor
  BY <1>1, RecordTypes, StreamAssumption DEF IInv, HandleIsAtCursor, TypeOK
<1>3. PICK next \in 1..(stream.start + 1) :
          /\ \A p \in next..stream.start : p \in stream.seen
          /\ stream' = [stream EXCEPT !.pc = "open", !.next = next]
  BY DEF Connected
<1>4. next \in 0..(Length + 1)
  BY <1>2, <1>3
<1>5. /\ stream' \in StreamType /\ stream'.pc = "open" /\ stream'.start = stream.start
      /\ stream'.seen = stream.seen /\ stream'.next = next
  BY <1>2, <1>3, <1>4 DEF StreamType
<1>6. TypeOK'
  BY <1>1, <1>5, TypesNamed, TypesNextNamed
<1>7. HandleIsAtCursor'
  BY <1>1, <1>2, <1>3, <1>5 DEF HandleIsAtCursor
<1>8. ReadIsBehind' /\ LiveIsFollowed' /\ RecoveryIsAlone' /\ RecoveryOwnsRead'
  BY <1>1, <1>5 DEF IInv, ReadIsBehind, LiveIsFollowed, RecoveryIsAlone, RecoveryOwnsRead
<1> QED
  BY <1>1, <1>6, <1>7, <1>8, ServerKept, ThreadKept DEF IInv

\* The stream is lost for a while, and asked for again.
LEMMA RetriesKeep == ASSUME IInv, Disconnected \/ RetryDelay PROVE IInv'
<1>1. /\ TypeOK /\ stream.pc \in {"fetching", "open", "waiting"} /\ connection' \in {connection, "reconnecting"}
      /\ \/ stream' = [stream EXCEPT !.pc = "waiting"]
         \/ stream' = [stream EXCEPT !.pc = "fetching"]
      /\ UNCHANGED <<ledger, admitted, floor, bad, late, thread, cursor, phase, run, observed, timer,
                     recovering, resets, read, post, deferred, dropped>>
      /\ faults' = faults \/ Fault
  BY DEF IInv, Disconnected, RetryDelay, server, engine, machine, history
<1>2. stream \in StreamType
  BY <1>1, RecordTypes
<1>3. /\ stream' \in StreamType /\ stream'.pc \in {"fetching", "waiting"} /\ stream'.start = stream.start
      /\ stream'.seen = stream.seen
  BY <1>1, <1>2 DEF StreamType
<1>4. faults' \in 0..MaxFaults
  BY <1>1, FaultType DEF TypeOK
<1>5. TypeOK'
  BY <1>1, <1>3, <1>4, TypesNamed, TypesNextNamed
<1>6. HandleIsAtCursor'
  BY <1>1, <1>3 DEF IInv, HandleIsAtCursor
<1>7. ReadIsBehind' /\ LiveIsFollowed' /\ RecoveryIsAlone' /\ RecoveryOwnsRead'
  BY <1>1, <1>3 DEF IInv, ReadIsBehind, LiveIsFollowed, RecoveryIsAlone, RecoveryOwnsRead
<1> QED
  BY <1>1, <1>5, <1>6, <1>7, ServerKept, ThreadKept DEF IInv

\* The stream is refused: it is closed and the page says so.
LEMMA RefusedKeeps == ASSUME IInv, Refused PROVE IInv'
<1>1. /\ TypeOK /\ stream.pc = "fetching" /\ Close /\ Fault /\ connection' = "unavailable" /\ timer' = FALSE
      /\ UNCHANGED <<ledger, admitted, floor, bad, thread, cursor, phase, run, observed,
                     recovering, resets, read, post, deferred, dropped>>
  BY DEF IInv, Refused, Lost, server, machine
<1>2. stream' \in StreamType /\ late' \in BOOLEAN /\ stream'.pc = "none" /\ faults' \in 0..MaxFaults
  BY <1>1, CloseType, FaultType
<1>3. TypeOK'
  BY <1>1, <1>2, TypesNamed, TypesNextNamed
<1>4. HandleIsAtCursor' /\ ReadIsBehind' /\ LiveIsFollowed' /\ RecoveryIsAlone' /\ RecoveryOwnsRead'
  BY <1>1, <1>2 DEF IInv, HandleIsAtCursor, ReadIsBehind, LiveIsFollowed, RecoveryIsAlone, RecoveryOwnsRead
<1> QED
  BY <1>1, <1>3, <1>4, ServerKept, ThreadKept DEF IInv

\* The cursor has expired: a recovery begins, or the stream is lost.
LEMMA ExpiredKeeps == ASSUME IInv, Expired PROVE IInv'
<1>1. /\ TypeOK /\ stream.pc = "fetching" /\ stream' = NoStream /\ timer' = FALSE
      /\ UNCHANGED <<ledger, admitted, floor, bad, late, thread, cursor, phase, run, observed, deferred,
                     faults, dropped>>
      /\ \/ /\ resets < 2 /\ resets' = resets + 1 /\ recovering' = TRUE /\ connection' = "reconnecting"
            /\ read' = [NoRead EXCEPT !.kind = "recover"] /\ post' = Steerless
         \/ connection' = "unavailable" /\ UNCHANGED <<resets, recovering, read, post>>
  BY DEF IInv, Expired, Lost, server, machine, history
<1>2. stream' \in StreamType /\ stream'.pc = "none"
  BY <1>1, RecordTypes DEF NoStream
<1>3. resets' \in 0..2 /\ read' \in ReadType /\ post' \in PostType
  <2>1. resets \in 0..2 /\ (resets' = resets \/ (resets < 2 /\ resets' = resets + 1))
    BY <1>1 DEF TypeOK
  <2>2. read' = read \/ read' = [NoRead EXCEPT !.kind = "recover"]
    BY <1>1
  <2>3. post' = post \/ post' = Steerless
    BY <1>1
  <2>4. resets' \in 0..2
    BY <2>1
  <2>5. read' \in ReadType
    BY <1>1, <2>2, RecordTypes
  <2>6. post' \in PostType
    BY <1>1, <2>3, RecordTypes
  <2> QED
    BY <2>4, <2>5, <2>6
<1>4. TypeOK'
  BY <1>1, <1>2, <1>3, TypesNamed, TypesNextNamed
<1>5. read'.mark <= ledger
  <2>1. ledger \in Nat /\ read.mark <= ledger
    BY <1>1, Numbers DEF IInv, ReadIsBehind
  <2>2. read'.mark \in {read.mark, -1}
    BY <1>1 DEF NoRead
  <2> QED
    BY <2>1, <2>2
<1>6. HandleIsAtCursor' /\ ReadIsBehind' /\ LiveIsFollowed'
  BY <1>1, <1>2, <1>5 DEF IInv, HandleIsAtCursor, ReadIsBehind, LiveIsFollowed
<1>7. ~recovering /\ read.kind # "recover"
  BY <1>1 DEF IInv, RecoveryIsAlone, RecoveryOwnsRead
<1>8. RecoveryIsAlone' /\ RecoveryOwnsRead'
  <2>1. CASE recovering' = TRUE /\ connection' = "reconnecting"
             /\ read' = [NoRead EXCEPT !.kind = "recover"] /\ post' = Steerless
    BY <1>1, <1>2, <2>1, RecordTypes DEF RecoveryIsAlone, RecoveryOwnsRead, NoRead
  <2>2. CASE UNCHANGED <<recovering, read>>
    BY <1>7, <2>2 DEF RecoveryIsAlone, RecoveryOwnsRead
  <2> QED
    BY <1>1, <2>1, <2>2
<1> QED
  BY <1>1, <1>4, <1>6, <1>8, ServerKept, ThreadKept DEF IInv

-----------------------------------------------------------------------------
(* The frames of a chunk *)

\* What two sequences are, one after the other.
LEMMA ConcatFacts ==
    ASSUME NEW S, NEW s \in Seq(S), NEW t \in Seq(S)
    PROVE  /\ s \o t \in Seq(S) /\ Len(s \o t) = Len(s) + Len(t)
           /\ \A i \in 1..Len(s) : (s \o t)[i] = s[i]
           /\ \A i \in 1..Len(t) : (s \o t)[Len(s) + i] = t[i]
  OBVIOUS

\* A sequence over a set is one over a larger set.
LEMMA SeqWidens ==
    ASSUME NEW S, NEW T, S \subseteq T, NEW s \in Seq(S)
    PROVE  s \in Seq(T)
  OBVIOUS

\* The ledger up to a position.
LEMMA PrefixType ==
    ASSUME NEW n \in 0..Length
    PROVE  /\ Prefix(n) \in Seq(Positions) /\ Len(Prefix(n)) = n
           /\ \A i \in 1..n : Prefix(n)[i] = i
<1>1. n \in Nat /\ Length \in Nat /\ 1..n \subseteq Positions
  BY StreamAssumption DEF Positions
<1>2. Prefix(n) \in [1..n -> Positions]
  BY <1>1 DEF Prefix
<1> QED
  BY <1>1, <1>2 DEF Prefix

\* The frames of a chunk that are new to the handle are those that follow the cursor.
LEMMA ChunkIsNext ==
    ASSUME IInv, stream.pc = "open", NEW last \in stream.next..ledger
    PROVE  /\ last \in Nat /\ last <= ledger /\ ledger \in 0..Length /\ cursor \in 0..Length
           /\ last <= cursor => Fresh(last) = {} /\ InOrder(Fresh(last)) = <<>>
           /\ cursor < last => /\ Fresh(last) = (cursor + 1)..last
                               /\ InOrder(Fresh(last)) = Following(cursor, last)
<1>1. /\ TypeOK /\ stream.next \in 1..(cursor + 1) /\ \A p \in stream.next..cursor : p \in stream.seen
      /\ \A p \in stream.seen : p <= cursor
  BY DEF IInv, HandleIsAtCursor
<1>2. cursor \in 0..Length /\ ledger \in 0..Length /\ Length \in Nat
  BY <1>1, StreamAssumption DEF TypeOK
<1>3. stream.next \in Nat /\ last \in Nat /\ last <= ledger /\ stream.next <= last
  BY <1>1, <1>2
<1>4. ASSUME NEW p \in stream.next..last PROVE p \notin stream.seen <=> cursor < p
  <2>1. CASE p <= cursor
    <3>1. p \in stream.next..cursor
      BY <1>2, <1>3, <2>1
    <3> QED
      BY <1>1, <1>2, <1>3, <2>1, <3>1
  <2>2. CASE cursor < p
    <3>1. ~(p <= cursor)
      BY <1>2, <1>3, <2>2
    <3> QED
      BY <1>1, <2>2, <3>1
  <2> QED
    BY <1>2, <1>3, <2>1, <2>2
<1>5. Fresh(last) = (cursor + 1)..last
  <2>1. ASSUME NEW p \in Fresh(last) PROVE p \in (cursor + 1)..last
    BY <1>2, <1>3, <1>4, <2>1 DEF Fresh
  <2>2. ASSUME NEW p \in (cursor + 1)..last PROVE p \in Fresh(last)
    <3>1. p \in stream.next..last /\ cursor < p
      BY <1>1, <1>2, <1>3
    <3> QED
      BY <1>4, <3>1 DEF Fresh
  <2> QED
    BY <2>1, <2>2
<1>6. ASSUME last <= cursor PROVE Fresh(last) = {} /\ InOrder(Fresh(last)) = <<>>
  <2>1. (cursor + 1)..last = {} /\ (cursor + 1)..cursor = {}
    BY <1>2, <1>3, <1>6
  <2>2. cursor \in cursor..Length /\ cursor \in Nat /\ cursor <= cursor
    BY <1>2
  <2>3. InOrder((cursor + 1)..cursor) = Following(cursor, cursor)
    BY <1>2, <2>2, InOrderInterval
  <2>4. Following(cursor, cursor) = <<>>
    BY <2>2, FollowingType
  <2> QED
    BY <1>5, <2>1, <2>3, <2>4
<1>7. ASSUME cursor < last PROVE InOrder(Fresh(last)) = Following(cursor, last)
  <2>1. last \in cursor..Length
    BY <1>2, <1>3, <1>7
  <2> QED
    BY <1>2, <1>5, <2>1, InOrderInterval
<1> QED
  BY <1>2, <1>3, <1>5, <1>6, <1>7

\* What follows the cursor is added to the thread, and the thread is as it should be.
LEMMA ThreadGrows ==
    ASSUME IInv, NEW last \in Positions, cursor < last, dropped' = dropped,
           thread' = thread \o Following(cursor, last), cursor' = last
    PROVE  NothingLost' /\ CursorIsNewest' /\ thread' \in Seq(Positions)
<1>1. thread \in Seq(Positions) /\ cursor \in 0..Length /\ Length \in Nat /\ cursor \in Nat /\ last \in Nat
      /\ last \in 0..Length
  BY StreamAssumption DEF IInv, TypeOK, Positions
<1> DEFINE t == Following(cursor, last)
<1>2. /\ t \in Seq((cursor + 1)..last) /\ Len(t) = last - cursor
      /\ \A i \in 1..(last - cursor) : t[i] = cursor + i
  BY <1>1, FollowingType
<1>3. (cursor + 1)..last \subseteq Positions
  BY <1>1 DEF Positions
<1> HIDE DEF t
<1>4. t \in Seq(Positions)
  BY <1>2, <1>3, SeqWidens
<1>5. thread' = thread \o t
  BY DEF t
<1>6. /\ thread' \in Seq(Positions) /\ Len(thread') = Len(thread) + Len(t) /\ Len(thread) \in Nat
      /\ DOMAIN thread = 1..Len(thread) /\ DOMAIN thread' = 1..Len(thread')
      /\ \A i \in 1..Len(thread) : thread'[i] = thread[i] /\ thread[i] \in Positions
      /\ \A i \in 1..Len(t) : thread'[Len(thread) + i] = t[i]
  BY <1>1, <1>4, <1>5, ConcatFacts, SeqFacts
<1>7. ASSUME NEW i \in DOMAIN thread'
      PROVE  \/ i \in DOMAIN thread /\ thread'[i] = thread[i] /\ thread'[i] <= cursor
             \/ i \notin DOMAIN thread /\ thread'[i] = cursor + (i - Len(thread)) /\ i - Len(thread) \in 1..(last - cursor)
  <2>1. CASE i \in 1..Len(thread)
    <3>1. i \in DOMAIN thread /\ thread'[i] = thread[i]
      BY <1>6, <2>1
    <3>2. thread[i] <= cursor
      BY <3>1 DEF IInv, CursorIsNewest
    <3> QED
      BY <3>1, <3>2
  <2>2. CASE i \notin 1..Len(thread)
    <3>3. /\ Len(t) = last - cursor /\ Len(thread') = Len(thread) + Len(t) /\ Len(thread) \in Nat
          /\ i \in 1..Len(thread') /\ last \in Nat /\ cursor \in Nat
      BY <1>1, <1>2, <1>6
    <3>1. i - Len(thread) \in 1..Len(t) /\ i = Len(thread) + (i - Len(thread))
      BY <2>2, <3>3
    <3>2. thread'[i] = t[i - Len(thread)]
      BY <1>6, <3>1
    <3> QED
      BY <1>2, <1>6, <2>2, <3>1, <3>2
  <2> QED
    BY <2>1, <2>2
<1>8. CursorIsNewest'
  <2>1. ASSUME NEW i \in DOMAIN thread' PROVE thread'[i] <= last
    <3>1. CASE i \in DOMAIN thread
      <4>1. thread'[i] <= cursor /\ thread'[i] \in Nat
        BY <1>6, <1>7, <3>1 DEF Positions
      <4> QED
        BY <1>1, <4>1
    <3>2. CASE i \notin DOMAIN thread
      BY <1>1, <1>7, <3>2
    <3> QED
      BY <3>1, <3>2
  <2> QED
    BY <2>1 DEF CursorIsNewest
<1>9. NothingLost'
  <2>1. CASE dropped
    <3>1. \A i, j \in DOMAIN thread : i < j => thread[i] < thread[j]
      BY <2>1 DEF IInv, NothingLost
    <3>2. ASSUME NEW i \in DOMAIN thread', NEW j \in DOMAIN thread', i < j
          PROVE  thread'[i] < thread'[j]
      <4>1. i \in Nat /\ j \in Nat
        BY <1>6
      <4>2. CASE j \in DOMAIN thread
        <5>1. i \in DOMAIN thread
          BY <1>6, <3>2, <4>2
        <5> QED
          BY <1>6, <3>1, <3>2, <4>2, <5>1
      <4>3. CASE j \notin DOMAIN thread /\ i \in DOMAIN thread
        <5>1. thread'[i] <= cursor /\ thread'[i] \in Nat
          BY <1>6, <1>7, <4>3 DEF Positions
        <5>2. thread'[j] = cursor + (j - Len(thread)) /\ j - Len(thread) \in 1..(last - cursor)
          BY <1>7, <4>3
        <5> QED
          BY <1>1, <5>1, <5>2, SMTT(30)
      <4>4. CASE j \notin DOMAIN thread /\ i \notin DOMAIN thread
        <5>1. thread'[i] = cursor + (i - Len(thread)) /\ thread'[j] = cursor + (j - Len(thread))
          BY <1>7, <4>4
        <5> QED
          BY <1>1, <1>6, <3>2, <4>1, <5>1
      <4> QED
        BY <4>2, <4>3, <4>4
    <3> QED
      BY <2>1, <3>2 DEF NothingLost
  <2>2. CASE ~dropped
    <3>1. thread = Prefix(cursor) /\ Len(thread) = cursor /\ \A i \in 1..cursor : thread[i] = i
      BY <1>1, <2>2, PrefixType DEF IInv, NothingLost
    <3>2. Prefix(last) \in Seq(Positions) /\ Len(Prefix(last)) = last /\ \A i \in 1..last : Prefix(last)[i] = i
      BY <1>1, PrefixType
    <3>3. Len(thread') = last
      BY <1>1, <1>2, <1>6, <3>1
    <3>4. ASSUME NEW i \in 1..last PROVE thread'[i] = i
      <4>1. CASE i \in 1..cursor
        BY <1>6, <3>1, <4>1
      <4>2. CASE i \notin 1..cursor
        <5>1. i \in DOMAIN thread' /\ i \notin DOMAIN thread
          BY <1>6, <3>1, <3>3, <4>2
        <5>2. thread'[i] = cursor + (i - Len(thread))
          BY <1>7, <5>1
        <5>3. i \in Nat /\ Len(thread) = cursor
          BY <3>1
        <5> QED
          BY <1>1, <5>2, <5>3
      <4> QED
        BY <4>1, <4>2
    <3>5. thread' = Prefix(last)
      BY <1>6, <3>2, <3>3, <3>4, SameSeq
    <3> QED
      BY <2>2, <3>5 DEF NothingLost, Prefix
  <2> QED
    BY <2>1, <2>2 DEF IInv, TypeOK
<1> QED
  BY <1>6, <1>8, <1>9

\* A chunk that brings nothing new moves only the place in the response.
LEMMA RepeatKeeps ==
    ASSUME IInv, stream.pc = "open", NEW last \in stream.next..ledger, Chunk(last), last <= cursor
    PROVE  IInv'
<1>1. /\ TypeOK /\ Fresh(last) = {} /\ InOrder(Fresh(last)) = <<>> /\ last \in Nat /\ last <= ledger
      /\ ledger \in 0..Length /\ cursor \in 0..Length /\ Length \in Nat
  BY ChunkIsNext, StreamAssumption DEF IInv
<1>2. /\ stream' = [stream EXCEPT !.next = last + 1, !.seen = @ \cup {}, !.start = @]
      /\ UNCHANGED <<ledger, admitted, floor, bad, late, thread, cursor, phase, run, observed, connection,
                     timer, recovering, resets, read, post, deferred, faults, dropped>>
  BY <1>1 DEF Chunk, server, engine, machine, history
<1>10. last + 1 \in 0..(Length + 1)
  BY <1>1
<1>3. stream \in StreamType
  BY <1>1, RecordTypes
<1>4. /\ stream' \in StreamType /\ stream'.pc = "open" /\ stream'.start = stream.start
      /\ stream'.next = last + 1 /\ stream'.seen = stream.seen
  BY <1>2, <1>3, <1>10 DEF StreamType
<1>5. TypeOK'
  BY <1>1, <1>2, <1>4, TypesNamed, TypesNextNamed
<1>6. /\ stream.start = cursor /\ stream.next \in 1..(cursor + 1)
      /\ \A p \in stream.next..cursor : p \in stream.seen
      /\ \A p \in stream.seen : p <= cursor
  BY DEF IInv, HandleIsAtCursor
<1>7. last + 1 \in 1..(cursor + 1) /\ \A p \in (last + 1)..cursor : p \in stream.seen
  <2>1. stream.next \in Nat /\ stream.next <= last
    BY <1>1, <1>6
  <2>2. \A p \in (last + 1)..cursor : p \in stream.next..cursor
    BY <1>1, <2>1
  <2> QED
    BY <1>1, <1>6, <2>2
<1>8. HandleIsAtCursor'
  BY <1>2, <1>4, <1>6, <1>7 DEF HandleIsAtCursor
<1>9. ReadIsBehind' /\ LiveIsFollowed' /\ RecoveryIsAlone' /\ RecoveryOwnsRead'
  BY <1>2, <1>4 DEF IInv, ReadIsBehind, LiveIsFollowed, RecoveryIsAlone, RecoveryOwnsRead
<1> QED
  BY <1>2, <1>5, <1>8, <1>9, ServerKept, ThreadKept DEF IInv

\* A chunk with new frames: they are those that follow the cursor.
LEMMA ChunkKeeps ==
    ASSUME IInv, stream.pc = "open", NEW last \in stream.next..ledger, Chunk(last), cursor < last
    PROVE  IInv'
<1> DEFINE events == Following(cursor, last)
           after == Heard(events)
<1>1. /\ TypeOK /\ Fresh(last) = (cursor + 1)..last /\ InOrder(Fresh(last)) = events
      /\ last \in Nat /\ last <= ledger /\ ledger \in 0..Length /\ cursor \in 0..Length /\ Length \in Nat
      /\ cursor \in Nat
  BY ChunkIsNext, StreamAssumption DEF IInv
<1>2. /\ events \in Seq((cursor + 1)..last) /\ Len(events) = last - cursor /\ Last(events) = last
      /\ events # <<>>
  <2>1. /\ events \in Seq((cursor + 1)..last) /\ Len(events) = last - cursor
        /\ \A i \in 1..(last - cursor) : events[i] = cursor + i
    BY <1>1, FollowingType
  <2>2. last - cursor \in 1..(last - cursor) /\ last - cursor # 0 /\ cursor + (last - cursor) = last
    BY <1>1
  <2> HIDE DEF events
  <2>3. events[Len(events)] = last
    BY <2>1, <2>2
  <2> QED
    BY <2>1, <2>2, <2>3 DEF Last
<1>3. events \in Seq(1..ledger)
  <2>1. (cursor + 1)..last \subseteq 1..ledger
    BY <1>1
  <2> HIDE DEF events
  <2> QED
    BY <1>2, <2>1, SeqWidens
<1>4. /\ stream' = [stream EXCEPT !.next = last + 1, !.seen = @ \cup ((cursor + 1)..last), !.start = last]
      /\ cursor' = last /\ resets' = 0 /\ HandleStreamEvents(events)
      /\ UNCHANGED <<ledger, admitted, floor, bad, late, connection, recovering, post, deferred, faults,
                     dropped>>
  <2> HIDE DEF events
  <2> QED
    BY <1>1, <1>2 DEF Chunk, server, history
<1>5. after \in Hearing
  BY <1>1, <1>3, HeardType DEF IInv
<1>6. /\ thread' = thread \o events /\ phase' = after.phase /\ run' = after.run /\ timer' \in BOOLEAN
      /\ timer' => timer
      /\ observed' \subseteq observed \cup {RunAt(p) : p \in Terminal \cap ToSet(events)}
      /\ \/ read' = [NoRead EXCEPT !.kind = "settle", !.start = last]
         \/ read' = read
  <2> HIDE DEF events
  <2> QED
    BY <1>1, <1>4 DEF HandleStreamEvents, TypeOK
<1>7. observed' \subseteq 1..MaxRuns
  <2>1. \A p \in ToSet(events) : p \in 1..ledger
    <3> HIDE DEF events
    <3>1. DOMAIN events = 1..Len(events) /\ \A i \in 1..Len(events) : events[i] \in 1..ledger
      BY <1>3, SeqFacts
    <3> QED
      BY <3>1 DEF ToSet
  <2>2. \A p \in ToSet(events) : RunAt(p) \in 1..MaxRuns
    BY <1>1, <2>1, RunAtType DEF IInv
  <2>3. observed \subseteq 1..MaxRuns
    BY <1>1 DEF TypeOK
  <2> DEFINE runs == {RunAt(p) : p \in Terminal \cap ToSet(events)}
  <2>4. runs \subseteq 1..MaxRuns
    BY <2>2
  <2>5. observed' \subseteq observed \cup runs
    BY <1>6
  <2> HIDE DEF events, runs
  <2> QED
    BY <2>3, <2>4, <2>5
<1> HIDE DEF events, after
<1>8. phase' \in {"live", "idle", "submitting"} /\ run' \in 0..MaxRuns /\ (phase' = "live" <=> run' # 0)
  BY <1>5, <1>6 DEF Hearing
<1>9. stream \in StreamType /\ read \in ReadType /\ last \in Positions /\ last \in 0..Length
      /\ last + 1 \in 0..(Length + 1) /\ (cursor + 1)..last \subseteq Positions
  <2>1. last \in 1..Length /\ last \in 0..Length /\ last + 1 \in 0..(Length + 1)
        /\ (cursor + 1)..last \subseteq 1..Length
    BY <1>1
  <2>2. stream \in StreamType /\ read \in ReadType
    BY <1>1, RecordTypes
  <2> QED
    BY <2>1, <2>2 DEF Positions
<1>10. /\ stream' \in StreamType /\ stream'.pc = stream.pc /\ stream'.start = last
       /\ stream'.next = last + 1 /\ stream'.seen = stream.seen \cup ((cursor + 1)..last)
  BY <1>4, <1>9 DEF StreamType
<1>11. read' \in ReadType /\ read'.kind \in {read.kind, "settle"} /\ read'.mark \in {read.mark, -1}
  BY <1>1, <1>6, <1>9, RecordTypes DEF NoRead
<1>12. NothingLost' /\ CursorIsNewest' /\ thread' \in Seq(Positions)
  BY <1>4, <1>6, <1>9, ThreadGrows DEF events
<1>13. TypeOK'
  <2>1. cursor' \in 0..Length /\ resets' \in 0..2
    BY <1>4, <1>9
  <2>2. TypeOK
    BY <1>1
  <2>3. post \in PostType
    BY <2>2, RecordTypes
  <2>4. /\ ledger \in 0..Length /\ admitted \in 1..MaxRuns /\ floor \in 0..Length /\ bad \subseteq Positions
        /\ late \in BOOLEAN /\ connection \in {"connected", "reconnecting", "unavailable"}
        /\ recovering \in BOOLEAN /\ deferred \in 0..MaxRuns /\ faults \in 0..MaxFaults
        /\ dropped \in BOOLEAN
    BY <2>2 DEF TypeOK
  <2>5. timer' \in BOOLEAN
    BY <1>6
  <2> QED
    BY <1>4, <1>7, <1>8, <1>10, <1>11, <1>12, <2>1, <2>3, <2>4, <2>5, TypesNextNamed
<1>14. HandleIsAtCursor'
  <2>1. \A p \in stream'.seen : p <= last
    <3>1. \A p \in stream.seen : p <= cursor /\ p \in Nat
      BY <1>9 DEF IInv, HandleIsAtCursor, StreamType, Positions
    <3> QED
      BY <1>1, <1>10, <3>1
  <2>2. last + 1 \in 1..(last + 1) /\ (last + 1)..last = {}
    BY <1>1
  <2> QED
    BY <1>4, <1>10, <2>1, <2>2 DEF HandleIsAtCursor
<1>15. ReadIsBehind'
  BY <1>1, <1>4, <1>11 DEF IInv, ReadIsBehind
<1>16. ~recovering /\ read.kind # "recover"
  BY DEF IInv, RecoveryIsAlone, RecoveryOwnsRead
<1>17. LiveIsFollowed' /\ RecoveryIsAlone' /\ RecoveryOwnsRead'
  BY <1>4, <1>10, <1>11, <1>16 DEF LiveIsFollowed, RecoveryIsAlone, RecoveryOwnsRead
<1> QED
  BY <1>4, <1>12, <1>13, <1>14, <1>15, <1>17, ServerKept DEF IInv

\* A chunk up to a frame that does not parse: the cursor may move, the thread does not.
LEMMA BadChunkKeeps ==
    ASSUME IInv, stream.pc = "open", NEW last \in stream.next..ledger, BadChunk(last)
    PROVE  IInv'
<1> DEFINE S == Fresh(last) \ {last}
           before == InOrder(S)
<1>1. /\ TypeOK /\ last \in Nat /\ last <= ledger /\ ledger \in 0..Length /\ cursor \in 0..Length
      /\ Length \in Nat /\ S \subseteq (cursor + 1)..last
  BY ChunkIsNext, StreamAssumption DEF IInv
<1>2. (cursor + 1)..last \subseteq Positions
  BY <1>1 DEF Positions
<1> HIDE DEF S
<1>3. before \in Seq(S)
  BY <1>1, <1>2, InOrderType
<1>4. before # <<>> => Last(before) \in S
  <2> HIDE DEF before
  <2>1. Len(before) \in Nat /\ (before # <<>> => Len(before) \in 1..Len(before))
    BY <1>3
  <2> QED
    BY <1>3, <2>1, SeqFacts DEF Last
<1>5. /\ stream' = NoStream /\ connection' = "unavailable" /\ timer' = FALSE
      /\ \/ UNCHANGED <<cursor, resets, dropped>>
         \/ before # <<>> /\ cursor' = Last(before) /\ resets' = 0 /\ dropped' = TRUE
      /\ UNCHANGED <<ledger, admitted, floor, bad, late, thread, phase, run, observed, recovering, read,
                     post, deferred, faults>>
  BY DEF BadChunk, Lost, server, machine, S, before
<1>6. cursor' \in 0..Length /\ cursor <= cursor' /\ resets' \in 0..2 /\ dropped' \in BOOLEAN
  <2>1. CASE UNCHANGED <<cursor, resets, dropped>>
    BY <1>1, <2>1 DEF TypeOK
  <2>2. CASE before # <<>> /\ cursor' = Last(before) /\ resets' = 0 /\ dropped' = TRUE
    <3>1. cursor' \in (cursor + 1)..last
      BY <1>1, <1>4, <2>2
    <3> QED
      BY <1>1, <2>2, <3>1
  <2> HIDE DEF before
  <2> QED
    BY <1>5, <2>1, <2>2
<1>7. stream' \in StreamType /\ stream'.pc = "none"
  BY <1>1, <1>5, RecordTypes DEF NoStream
<1>8. TypeOK'
  BY <1>1, <1>5, <1>6, <1>7, TypesNamed, TypesNextNamed
<1>9. CursorIsNewest'
  <2>3. thread \in Seq(Positions)
    BY <1>1 DEF TypeOK
  <2>4. \A i \in DOMAIN thread : thread[i] \in Positions
    BY <2>3, SeqFacts
  <2>1. \A i \in DOMAIN thread : thread[i] <= cursor /\ thread[i] \in Nat
    BY <2>4 DEF IInv, CursorIsNewest, Positions
  <2>2. \A i \in DOMAIN thread : thread[i] <= cursor'
    BY <1>1, <1>6, <2>1
  <2> QED
    BY <1>5, <2>2 DEF CursorIsNewest
<1>10. NothingLost'
  <2>1. CASE UNCHANGED <<cursor, resets, dropped>>
    BY <1>5, <2>1 DEF IInv, NothingLost
  <2>2. CASE dropped' = TRUE
    <3>1. \A i, j \in DOMAIN thread : i < j => thread[i] < thread[j]
      <4>1. CASE dropped
        BY <4>1 DEF IInv, NothingLost
      <4>2. CASE ~dropped
        <5>1. thread = Prefix(cursor) /\ DOMAIN thread = 1..cursor /\ \A i \in 1..cursor : thread[i] = i
          BY <1>1, <4>2, PrefixType, SeqFacts DEF IInv, NothingLost
        <5> QED
          BY <5>1
      <4> QED
        BY <4>1, <4>2
    <3> QED
      BY <1>5, <2>2, <3>1 DEF NothingLost
  <2> QED
    BY <1>5, <2>1, <2>2
<1>11. HandleIsAtCursor' /\ ReadIsBehind' /\ LiveIsFollowed'
  BY <1>5, <1>7 DEF IInv, HandleIsAtCursor, ReadIsBehind, LiveIsFollowed
<1>12. ~recovering /\ read.kind # "recover"
  BY DEF IInv, RecoveryIsAlone, RecoveryOwnsRead
<1>13. RecoveryIsAlone' /\ RecoveryOwnsRead'
  BY <1>5, <1>12 DEF RecoveryIsAlone, RecoveryOwnsRead
<1> QED
  BY <1>5, <1>8, <1>9, <1>10, <1>11, <1>13, ServerKept DEF IInv

\* A chunk of the response.
LEMMA ReceiveKeeps == ASSUME IInv, Receive PROVE IInv'
<1>1. PICK last \in stream.next..ledger : stream.pc = "open" /\ (Chunk(last) \/ BadChunk(last))
  BY DEF Receive
<1>2. last \in Nat /\ cursor \in Nat
  BY <1>1, ChunkIsNext
<1>3. CASE Chunk(last) /\ last <= cursor
  BY <1>1, <1>3, RepeatKeeps
<1>4. CASE Chunk(last) /\ cursor < last
  BY <1>1, <1>4, ChunkKeeps
<1>5. CASE BadChunk(last)
  BY <1>1, <1>5, BadChunkKeeps
<1> QED
  BY <1>1, <1>2, <1>3, <1>4, <1>5

-----------------------------------------------------------------------------
(* What a closed handle and the reattach timer may still do *)

\* The answer to a closed handle is ignored.
LEMMA LateKeeps == ASSUME IInv, LateAnswer PROVE IInv'
<1>1. /\ TypeOK /\ late' = FALSE
      /\ UNCHANGED <<ledger, admitted, floor, bad, stream, thread, cursor, phase, run, observed, connection,
                     timer, recovering, resets, read, post, deferred, faults, dropped>>
  BY DEF IInv, LateAnswer, server, engine, machine, history
<1>2. TypeOK'
  <2>1. late' \in BOOLEAN
    BY <1>1
  <2> QED
    BY <1>1, <2>1, TypesNamed, TypesNextNamed
<1>3. HandleIsAtCursor' /\ ReadIsBehind' /\ LiveIsFollowed' /\ RecoveryIsAlone' /\ RecoveryOwnsRead'
  BY <1>1 DEF IInv, HandleIsAtCursor, ReadIsBehind, LiveIsFollowed, RecoveryIsAlone, RecoveryOwnsRead
<1> QED
  BY <1>1, <1>2, <1>3, ServerKept, ThreadKept DEF IInv

\* The timeout of a run that was not heard of: no recovery is under way, and its read is dropped
\* with the stream.
LEMMA TimeoutKeeps == ASSUME IInv, ReattachTimeout PROVE IInv'
<1>1. /\ TypeOK /\ timer /\ timer' = FALSE /\ Fault
      /\ \/ Close /\ connection' = "unavailable" /\ read' = NoRead
         \/ UNCHANGED <<stream, late, connection, read>>
      /\ UNCHANGED <<ledger, admitted, floor, bad, thread, cursor, phase, run, observed, recovering, resets,
                     post, deferred, dropped>>
  BY DEF IInv, ReattachTimeout, server, machine
<1>2. /\ stream' \in StreamType /\ late' \in BOOLEAN /\ read' \in ReadType /\ faults' \in 0..MaxFaults
      /\ connection' \in {"connected", "reconnecting", "unavailable"}
  <2>1. faults' \in 0..MaxFaults
    BY <1>1, FaultType
  <2>2. CASE Close /\ connection' = "unavailable" /\ read' = NoRead
    BY <1>1, <2>1, <2>2, CloseType, RecordTypes
  <2>3. CASE UNCHANGED <<stream, late, connection, read>>
    BY <1>1, <2>1, <2>3, TypesNamed
  <2> QED
    BY <1>1, <2>2, <2>3
<1>3. TypeOK'
  <2>1. /\ ledger' \in 0..Length /\ admitted' \in 1..MaxRuns /\ floor' \in 0..Length /\ bad' \subseteq Positions
        /\ thread' \in Seq(Positions) /\ cursor' \in 0..Length
        /\ phase' \in {"live", "idle", "submitting"} /\ run' \in 0..MaxRuns /\ (phase' = "live" <=> run' # 0)
        /\ observed' \subseteq 1..MaxRuns /\ recovering' \in BOOLEAN /\ resets' \in 0..2
        /\ post' \in PostType /\ deferred' \in 0..MaxRuns /\ dropped' \in BOOLEAN
    BY <1>1, TypesNamed
  <2> QED
    BY <1>1, <1>2, <2>1, TypesNextNamed
<1>4. ~recovering /\ read.kind # "recover"
  BY <1>1 DEF IInv, RecoveryIsAlone, RecoveryOwnsRead
<1>5. HandleIsAtCursor' /\ ReadIsBehind' /\ LiveIsFollowed' /\ RecoveryIsAlone' /\ RecoveryOwnsRead'
  <2>1. CASE Close /\ connection' = "unavailable" /\ read' = NoRead
    <3>1. stream'.pc = "none" /\ read'.mark = -1 /\ read'.kind = "none" /\ ledger \in Nat
      BY <1>1, <2>1, CloseType, Numbers DEF NoRead
    <3>2. read'.mark <= ledger
      BY <3>1
    <3> QED
      BY <1>1, <1>4, <2>1, <3>1, <3>2
         DEF HandleIsAtCursor, ReadIsBehind, LiveIsFollowed, RecoveryIsAlone, RecoveryOwnsRead
  <2>2. CASE UNCHANGED <<stream, late, connection, read>>
    BY <1>1, <1>4, <2>2
       DEF IInv, HandleIsAtCursor, ReadIsBehind, LiveIsFollowed, RecoveryIsAlone, RecoveryOwnsRead
  <2> QED
    BY <1>1, <2>1, <2>2
<1> QED
  BY <1>1, <1>3, <1>5, ServerKept, ThreadKept DEF IInv

-----------------------------------------------------------------------------
(* The snapshot reads *)

\* The oldest watermark a snapshot may have.
LEMMA OldestMark ==
    ASSUME NEW d \in Int
    PROVE  Max({0, d}) \in Nat
<1>1. \E m \in {0, d} : \A y \in {0, d} : y <= m
  BY 0 <= d \/ d <= 0
<1> QED
  BY <1>1 DEF Max

\* A snapshot is behind the ledger, and the run at its head was admitted.
LEMMA ServeKeeps == ASSUME IInv, ServeSnapshot PROVE IInv'
<1>1. /\ TypeOK /\ RunsAreAdmitted
      /\ UNCHANGED <<ledger, admitted, floor, bad, stream, late, thread, cursor, phase, run, observed,
                     connection, timer, recovering, resets, post, deferred, faults, dropped>>
  BY DEF IInv, ServeSnapshot, server, engine, machine, history
<1>2. PICK mark \in Max({0, ledger - Lag})..ledger :
          read' = [read EXCEPT !.mark = mark,
                               !.head = IF Ended(1..mark) < admitted THEN Ended(1..mark) + 1 ELSE 0]
  BY DEF ServeSnapshot
<1>3. ledger \in 0..Length /\ Lag \in Nat /\ Length \in Nat
  BY <1>1, StreamAssumption DEF TypeOK
<1>4. Max({0, ledger - Lag}) \in Nat
  BY <1>3, OldestMark
<1> HIDE DEF Max
<1>5. mark \in 0..ledger /\ mark \in -1..Length /\ mark <= ledger
  BY <1>2, <1>3, <1>4
<1>6. admitted \in 1..MaxRuns /\ MaxRuns \in Nat
  BY <1>1, StreamAssumption DEF TypeOK
<1>7. Ended(1..mark) \in 0..admitted
  BY <1>1, <1>5, EndedType
<1> DEFINE head == IF Ended(1..mark) < admitted THEN Ended(1..mark) + 1 ELSE 0
<1>8. head \in 0..MaxRuns
  BY <1>6, <1>7
<1>9. read \in ReadType
  BY <1>1, RecordTypes
<1>10. read' \in ReadType /\ read'.kind = read.kind /\ read'.mark = mark
  <2>1. read' = [read EXCEPT !.mark = mark, !.head = head]
    BY <1>2
  <2> HIDE DEF head
  <2> QED
    BY <1>5, <1>8, <1>9, <2>1 DEF ReadType
<1>11. TypeOK'
  BY <1>1, <1>10, TypesNamed, TypesNextNamed
<1>12. HandleIsAtCursor' /\ ReadIsBehind' /\ LiveIsFollowed' /\ RecoveryIsAlone' /\ RecoveryOwnsRead'
  BY <1>1, <1>5, <1>10
     DEF IInv, HandleIsAtCursor, ReadIsBehind, LiveIsFollowed, RecoveryIsAlone, RecoveryOwnsRead
<1> QED
  BY <1>1, <1>11, <1>12, ServerKept, ThreadKept DEF IInv

\* The thread of a snapshot is the ledger up to its watermark.
LEMMA AdoptedThread ==
    ASSUME NEW mark \in 0..Length, thread' = Prefix(mark), cursor' = mark, dropped' = FALSE
    PROVE  NothingLost' /\ CursorIsNewest' /\ thread' \in Seq(Positions)
<1>1. thread' \in Seq(Positions) /\ Len(thread') = mark /\ \A i \in 1..mark : thread'[i] = i
  BY PrefixType
<1>2. DOMAIN thread' = 1..mark
  BY <1>1, SeqFacts
<1>3. CursorIsNewest'
  BY <1>1, <1>2 DEF CursorIsNewest
<1>4. NothingLost'
  BY DEF NothingLost, Prefix
<1> QED
  BY <1>1, <1>3, <1>4

\* The stream closed, or opened at the thread's cursor.
LEMMA HandleFollows ==
    ASSUME TypeOK, NEW c \in 0..Length, cursor' = c, Close \/ Open(c)
    PROVE  stream' \in StreamType /\ late' \in BOOLEAN /\ HandleIsAtCursor'
<1>1. CASE Close
  <2>1. stream' \in StreamType /\ late' \in BOOLEAN /\ stream'.pc = "none"
    BY <1>1, CloseType
  <2> QED
    BY <2>1 DEF HandleIsAtCursor
<1>2. CASE Open(c)
  <2>1. /\ stream' \in StreamType /\ late' \in BOOLEAN
        /\ stream'.pc = "fetching" /\ stream'.start = c /\ stream'.seen = {}
    BY <1>2, OpenType
  <2> QED
    BY <2>1 DEF HandleIsAtCursor
<1> QED
  BY <1>1, <1>2

\* The answer of a recovery is adopted: the stream is opened exactly when a run is shown.
LEMMA AdoptKeeps == ASSUME IInv, AdoptRecovery PROVE IInv'
<1> DEFINE settled == Ended(1..read.mark)
<1>1. PICK c : c = read.mark
  OBVIOUS
<1>2. /\ TypeOK /\ RunsAreAdmitted /\ read.kind = "recover" /\ c >= 0
      /\ thread' = Prefix(c) /\ cursor' = c /\ dropped' = FALSE
      /\ resets' \in {0, resets} /\ recovering' = FALSE /\ read' = NoRead /\ deferred' = 0
      /\ observed' \in {1..settled, {}}
      /\ timer' = (read.head # 0)
      /\ \/ read.head # 0 /\ phase' = "live" /\ run' = read.head
         \/ read.head = 0 /\ deferred > settled /\ phase' = "live" /\ run' = deferred
         \/ read.head = 0 /\ deferred <= settled /\ phase' = "idle" /\ run' = 0
      /\ \/ phase' = "live" /\ Open(c) /\ connection' = connection
         \/ phase' # "live" /\ Close /\ connection' = "connected"
      /\ UNCHANGED <<ledger, admitted, floor, bad, post, faults>>
  BY <1>1 DEF IInv, AdoptRecovery, Adopt, Reattach, Open, server, machine
<1>3. read \in ReadType /\ read.head \in 0..MaxRuns /\ read.mark \in -1..Length
  BY <1>2, RecordTypes DEF ReadType
<1>4. ledger \in 0..Length /\ Length \in Nat /\ MaxRuns \in Nat
  BY <1>2, StreamAssumption DEF TypeOK
<1>5. c \in 0..ledger /\ c \in 0..Length
  <2>1. c <= ledger
    BY <1>1 DEF IInv, ReadIsBehind
  <2> QED
    BY <1>1, <1>2, <1>3, <1>4, <2>1
<1>6. settled \in Nat /\ 1..settled \subseteq 1..MaxRuns
  <2>1. settled = Ended(1..c)
    BY <1>1
  <2> QED
    BY <1>2, <1>5, <2>1, EndedType, EndedGrows
<1> HIDE DEF settled
<1>7. phase' \in {"live", "idle"} /\ run' \in 0..MaxRuns /\ (phase' = "live" <=> run' # 0)
  <2>1. deferred \in 0..MaxRuns
    BY <1>2 DEF TypeOK
  <2>2. deferred > settled => deferred # 0
    BY <1>4, <1>6, <2>1
  <2> QED
    BY <1>2, <1>3, <1>4, <2>1, <2>2
<1>8. observed' \subseteq 1..MaxRuns
  BY <1>2, <1>6
<1>9. stream' \in StreamType /\ late' \in BOOLEAN /\ HandleIsAtCursor'
  BY <1>2, <1>5, HandleFollows
<1>10. NothingLost' /\ CursorIsNewest' /\ thread' \in Seq(Positions)
  BY <1>2, <1>5, AdoptedThread
<1>11. read' \in ReadType /\ read'.kind = "none" /\ read'.mark = -1
  BY <1>2, RecordTypes DEF NoRead
<1>12. connection' \in {"connected", "reconnecting", "unavailable"} /\ resets' \in 0..2
       /\ deferred' \in 0..MaxRuns
  <2>1. connection \in {"connected", "reconnecting", "unavailable"} /\ resets \in 0..2
    BY <1>2 DEF TypeOK
  <2> QED
    BY <1>2, <1>4, <2>1
<1>13. TypeOK'
  <2>1. cursor' \in 0..Length /\ timer' \in BOOLEAN /\ recovering' \in BOOLEAN /\ dropped' \in BOOLEAN
    BY <1>2, <1>5
  <2> QED
    BY <1>2, <1>7, <1>8, <1>9, <1>10, <1>11, <1>12, <2>1, TypesNamed, TypesNextNamed
<1>14. LiveIsFollowed'
  <2>1. CASE phase' = "live" /\ Open(c)
    BY <1>2, <1>5, <2>1, OpenType DEF LiveIsFollowed
  <2>2. CASE phase' # "live"
    BY <2>2 DEF LiveIsFollowed
  <2> QED
    BY <1>2, <2>1, <2>2
<1>15. ReadIsBehind'
  <2>1. read'.mark <= ledger
    BY <1>4, <1>11
  <2> QED
    BY <1>2, <2>1 DEF ReadIsBehind
<1>16. RecoveryIsAlone' /\ RecoveryOwnsRead'
  BY <1>2, <1>11 DEF RecoveryIsAlone, RecoveryOwnsRead
<1> QED
  BY <1>2, <1>9, <1>10, <1>13, <1>14, <1>15, <1>16, ServerKept DEF IInv

\* The read of a recovery fails.
LEMMA RecoveryFailsKeeps == ASSUME IInv, RecoveryFails PROVE IInv'
<1>1. /\ TypeOK /\ read.kind = "recover" /\ Fault /\ recovering' = FALSE /\ read' = NoRead
      /\ connection' = "unavailable"
      /\ UNCHANGED <<ledger, admitted, floor, bad, stream, late, thread, cursor, phase, run, observed, timer,
                     resets, post, deferred, dropped>>
  BY DEF IInv, RecoveryFails, server, machine
<1>2. read' \in ReadType /\ read'.kind = "none" /\ read'.mark = -1 /\ faults' \in 0..MaxFaults
      /\ ledger \in Nat
  <2>1. ledger \in Nat
    BY <1>1 DEF TypeOK
  <2>2. faults' \in 0..MaxFaults
    BY <1>1, FaultType
  <2>3. read' \in ReadType
    BY <1>1, RecordTypes
  <2> QED
    BY <1>1, <2>1, <2>2, <2>3 DEF NoRead
<1>3. TypeOK'
  BY <1>1, <1>2, TypesNamed, TypesNextNamed
<1>4. read'.mark <= ledger
  BY <1>2
<1>5. HandleIsAtCursor' /\ ReadIsBehind' /\ LiveIsFollowed' /\ RecoveryIsAlone' /\ RecoveryOwnsRead'
  BY <1>1, <1>2, <1>4
     DEF IInv, HandleIsAtCursor, ReadIsBehind, LiveIsFollowed, RecoveryIsAlone, RecoveryOwnsRead
<1> QED
  BY <1>1, <1>3, <1>5, ServerKept, ThreadKept DEF IInv

\* The answer of a read of the owner: it is stale, the stream is closed, or the run of a successor
\* is shown and followed.
LEMMA SettleKeeps == ASSUME IInv, SettleRead PROVE IInv'
<1>1. PICK c : c = read.mark
  OBVIOUS
<1>2. /\ TypeOK /\ RunsAreAdmitted /\ read.kind = "settle" /\ c >= 0 /\ read' = NoRead
      /\ observed' \subseteq observed \cup 1..Ended(1..c)
      /\ UNCHANGED <<ledger, admitted, floor, bad, post, deferred, faults, recovering, resets>>
      /\ \/ UNCHANGED <<stream, late, thread, cursor, phase, run, connection, timer, dropped>>
         \/ /\ phase = "idle"
            /\ \/ UNCHANGED <<stream, late, connection>>
               \/ Close /\ connection' \in {"connected", connection}
            /\ UNCHANGED <<thread, cursor, phase, run, timer, dropped>>
         \/ /\ read.head > Ended(Applied)
            /\ thread' = Prefix(c) /\ cursor' = c /\ dropped' = FALSE
            /\ phase' = "live" /\ run' = read.head /\ Open(c)
            /\ timer' = TRUE /\ connection' = connection
  BY <1>1 DEF IInv, SettleRead, SettleWhileLive, SettleQuiet, SettleStale, SettleSuccessor, Adopt, Reattach,
              Open, server
<1>3. read \in ReadType /\ read.head \in 0..MaxRuns /\ read.mark \in -1..Length
  BY <1>2, RecordTypes DEF ReadType
<1>4. ledger \in 0..Length /\ Length \in Nat /\ MaxRuns \in Nat
  BY <1>2, StreamAssumption DEF TypeOK
<1>5. c \in 0..ledger /\ c \in 0..Length
  <2>1. c <= ledger
    BY <1>1 DEF IInv, ReadIsBehind
  <2> QED
    BY <1>1, <1>2, <1>3, <1>4, <2>1
<1>6. observed' \subseteq 1..MaxRuns
  <2>1. 1..Ended(1..c) \subseteq 1..MaxRuns
    BY <1>2, <1>5, EndedType
  <2>2. observed \subseteq 1..MaxRuns
    BY <1>2 DEF TypeOK
  <2> QED
    BY <1>2, <2>1, <2>2
<1>7. ~recovering /\ read.kind # "recover"
  BY <1>2 DEF IInv, RecoveryIsAlone, RecoveryOwnsRead
<1>8. read' \in ReadType /\ read'.kind = "none" /\ read'.mark <= ledger
  <2>1. read' \in ReadType
    BY <1>2, RecordTypes
  <2>2. read'.kind = "none" /\ read'.mark = -1
    BY <1>2 DEF NoRead
  <2> QED
    BY <1>4, <2>1, <2>2
<1>9. ReadIsBehind' /\ RecoveryIsAlone' /\ RecoveryOwnsRead'
  BY <1>2, <1>7, <1>8 DEF ReadIsBehind, RecoveryIsAlone, RecoveryOwnsRead
<1>10. /\ stream' \in StreamType /\ late' \in BOOLEAN /\ thread' \in Seq(Positions) /\ cursor' \in 0..Length
       /\ phase' \in {"live", "idle", "submitting"} /\ run' \in 0..MaxRuns /\ (phase' = "live" <=> run' # 0)
       /\ connection' \in {"connected", "reconnecting", "unavailable"}
       /\ timer' \in BOOLEAN /\ dropped' \in BOOLEAN
       /\ NothingLost' /\ CursorIsNewest' /\ HandleIsAtCursor' /\ LiveIsFollowed'
  <2>1. CASE UNCHANGED <<stream, late, thread, cursor, phase, run, connection, timer, dropped>>
    <3>1. HandleIsAtCursor' /\ LiveIsFollowed'
      BY <1>2, <2>1 DEF IInv, HandleIsAtCursor, LiveIsFollowed
    <3> QED
      BY <1>2, <2>1, <3>1, TypesNamed, ThreadKept
  <2>2. CASE /\ phase = "idle"
             /\ \/ UNCHANGED <<stream, late, connection>>
                \/ Close /\ connection' \in {"connected", connection}
             /\ UNCHANGED <<thread, cursor, phase, run, timer, dropped>>
    <3>1. CASE UNCHANGED <<stream, late, connection>>
      BY <2>1, <2>2, <3>1
    <3>2. CASE Close /\ connection' \in {"connected", connection}
      <4>1. stream' \in StreamType /\ late' \in BOOLEAN /\ stream'.pc = "none"
        BY <1>2, <3>2, CloseType
      <4>2. HandleIsAtCursor' /\ LiveIsFollowed'
        BY <2>2, <4>1 DEF HandleIsAtCursor, LiveIsFollowed
      <4>3. connection' \in {"connected", "reconnecting", "unavailable"}
        BY <1>2, <3>2, TypesNamed
      <4>4. NothingLost' /\ CursorIsNewest'
        BY <2>2, ThreadKept
      <4> QED
        BY <1>2, <2>2, <4>1, <4>2, <4>3, <4>4, TypesNamed
    <3> QED
      BY <2>2, <3>1, <3>2
  <2>3. CASE /\ read.head > Ended(Applied)
             /\ thread' = Prefix(c) /\ cursor' = c /\ dropped' = FALSE
             /\ phase' = "live" /\ run' = read.head /\ Open(c)
             /\ timer' = TRUE /\ connection' = connection
    <3>1. Ended(Applied) \in Nat
      BY EndedGrows
    <3>2. run' \in 0..MaxRuns /\ run' # 0
      BY <1>3, <1>4, <2>3, <3>1
    <3>3. stream' \in StreamType /\ late' \in BOOLEAN /\ HandleIsAtCursor' /\ stream'.pc = "fetching"
      BY <1>2, <1>5, <2>3, HandleFollows, OpenType
    <3>4. NothingLost' /\ CursorIsNewest' /\ thread' \in Seq(Positions)
      BY <1>5, <2>3, AdoptedThread
    <3>5. LiveIsFollowed'
      BY <3>3 DEF LiveIsFollowed
    <3>6. connection' \in {"connected", "reconnecting", "unavailable"}
      BY <1>2, <2>3, TypesNamed
    <3> QED
      BY <1>5, <2>3, <3>2, <3>3, <3>4, <3>5, <3>6
  <2> QED
    BY <1>2, <2>1, <2>2, <2>3
<1>11. TypeOK'
  <2>1. /\ ledger' \in 0..Length /\ admitted' \in 1..MaxRuns /\ floor' \in 0..Length /\ bad' \subseteq Positions
        /\ recovering' \in BOOLEAN /\ resets' \in 0..2 /\ post' \in PostType /\ deferred' \in 0..MaxRuns
        /\ faults' \in 0..MaxFaults
    BY <1>2, TypesNamed
  <2> QED
    BY <1>6, <1>8, <1>10, <2>1, TypesNextNamed
<1> QED
  BY <1>2, <1>9, <1>10, <1>11, ServerKept DEF IInv

\* The read of the owner fails.
LEMMA SettleFailsKeeps == ASSUME IInv, SettleReadFails PROVE IInv'
<1>1. /\ TypeOK /\ read.kind = "settle" /\ Fault /\ read' = NoRead
      /\ UNCHANGED <<ledger, admitted, floor, bad, stream, late, thread, cursor, phase, run, observed,
                     connection, timer, recovering, resets, post, deferred, dropped>>
  BY DEF IInv, SettleReadFails, server, engine, machine
<1>2. read' \in ReadType /\ read'.kind = "none" /\ read'.mark <= ledger /\ faults' \in 0..MaxFaults
  <2>1. ledger \in Nat
    BY <1>1 DEF TypeOK
  <2>2. faults' \in 0..MaxFaults
    BY <1>1, FaultType
  <2>3. read' \in ReadType
    BY <1>1, RecordTypes
  <2>4. read'.kind = "none" /\ read'.mark = -1
    BY <1>1 DEF NoRead
  <2> QED
    BY <2>1, <2>2, <2>3, <2>4
<1>3. TypeOK'
  BY <1>1, <1>2, TypesNamed, TypesNextNamed
<1>4. ~recovering
  BY <1>1 DEF IInv, RecoveryIsAlone
<1>5. HandleIsAtCursor' /\ ReadIsBehind' /\ LiveIsFollowed' /\ RecoveryIsAlone' /\ RecoveryOwnsRead'
  BY <1>1, <1>2, <1>4
     DEF IInv, HandleIsAtCursor, ReadIsBehind, LiveIsFollowed, RecoveryIsAlone, RecoveryOwnsRead
<1> QED
  BY <1>1, <1>3, <1>5, ServerKept, ThreadKept DEF IInv

-----------------------------------------------------------------------------
(* The user and the receipts *)

\* The user reconnects: a recovery begins.
LEMMA ReconnectKeeps == ASSUME IInv, Reconnect PROVE IInv'
<1>1. /\ TypeOK /\ recovering' = TRUE /\ connection' = "reconnecting" /\ timer' = FALSE /\ Close
      /\ read' = [NoRead EXCEPT !.kind = "recover"] /\ post' = Steerless
      /\ UNCHANGED <<ledger, admitted, floor, bad, thread, cursor, phase, run, observed, resets, deferred,
                     faults, dropped>>
  BY DEF IInv, Reconnect, server, machine, history
<1>2. stream' \in StreamType /\ late' \in BOOLEAN /\ stream'.pc = "none"
  BY <1>1, CloseType
<1>3. read' \in ReadType /\ read'.kind = "recover" /\ read'.mark <= ledger
  <2>1. ledger \in Nat
    BY <1>1 DEF TypeOK
  <2>2. read' \in ReadType
    BY <1>1, RecordTypes
  <2>3. read'.kind = "recover" /\ read'.mark = -1
    BY <1>1 DEF NoRead
  <2> QED
    BY <2>1, <2>2, <2>3
<1>4. post' \in PostType /\ post'.kind # "steer"
  BY <1>1, RecordTypes
<1>5. TypeOK'
  <2>1. timer' \in BOOLEAN /\ recovering' \in BOOLEAN
        /\ connection' \in {"connected", "reconnecting", "unavailable"}
    BY <1>1
  <2> QED
    BY <1>1, <1>2, <1>3, <1>4, <2>1, TypesNamed, TypesNextNamed
<1>6. HandleIsAtCursor' /\ ReadIsBehind' /\ LiveIsFollowed' /\ RecoveryIsAlone' /\ RecoveryOwnsRead'
  BY <1>1, <1>2, <1>3, <1>4
     DEF HandleIsAtCursor, ReadIsBehind, LiveIsFollowed, RecoveryIsAlone, RecoveryOwnsRead
<1> QED
  BY <1>1, <1>5, <1>6, ServerKept, ThreadKept DEF IInv

\* A message is sent, at rest or to the run that is shown; never while a recovery is under way.
LEMMA SubmitKeeps == ASSUME IInv, Submit \/ Steer PROVE IInv'
<1>1. /\ TypeOK /\ ~recovering
      /\ \/ phase = "idle" /\ phase' = "submitting"
         \/ phase' = phase
      /\ \E kind \in {"submit", "steer"} : post' = [NoPost EXCEPT !.kind = kind]
      /\ UNCHANGED <<ledger, admitted, floor, bad, stream, late, thread, cursor, run, observed, connection,
                     timer, recovering, resets, read, deferred, faults, dropped>>
  BY DEF IInv, Submit, Steer, CanSubmitMessage, server, engine, machine, history
<1>2. post' \in PostType
  BY <1>1, RecordTypes
<1>3. phase' \in {"live", "idle", "submitting"} /\ (phase' = "live" <=> run # 0)
  BY <1>1, TypesNamed
<1>4. TypeOK'
  BY <1>1, <1>2, <1>3, TypesNamed, TypesNextNamed
<1>5. HandleIsAtCursor' /\ ReadIsBehind' /\ LiveIsFollowed' /\ RecoveryIsAlone' /\ RecoveryOwnsRead'
  BY <1>1
     DEF IInv, HandleIsAtCursor, ReadIsBehind, LiveIsFollowed, RecoveryIsAlone, RecoveryOwnsRead
<1> QED
  BY <1>1, <1>4, <1>5, ServerKept, ThreadKept DEF IInv

\* A receipt: the run that it names is shown and followed from the thread's cursor, unless it
\* was seen to end or waits for the answer of a recovery.
LEMMA ReceiptKeeps == ASSUME IInv, SubmitReceipt \/ SteerReceipt PROVE IInv'
<1>1. PICK c : c = cursor
  OBVIOUS
<1>2. PICK r : r = post.run
  OBVIOUS
<1>3. /\ TypeOK /\ r # 0 /\ post' = NoPost /\ observed' = {}
      /\ deferred' \in {deferred, r}
      /\ read' \in {read, NoRead}
      /\ \/ /\ ~recovering /\ phase' = "live" /\ run' = r /\ Open(c)
         \/ /\ \/ phase' = phase
               \/ phase # "live" /\ phase' = "idle"
            /\ UNCHANGED <<run, stream, late, read>>
      /\ UNCHANGED <<ledger, admitted, floor, bad, thread, cursor, connection, timer, recovering, resets,
                     faults, dropped>>
  BY <1>1, <1>2 DEF IInv, RecoveryOwnsRead, SubmitReceipt, SteerReceipt, Follow, Open, server, history
<1>4. c \in 0..Length /\ cursor' = c
  BY <1>1, <1>3, TypesNamed
<1>5. r \in 0..MaxRuns
  BY <1>2, <1>3, RecordTypes DEF PostType
<1>6. post' \in PostType /\ post'.kind # "steer" /\ read' \in ReadType /\ deferred' \in 0..MaxRuns
  <2>1. post' \in PostType /\ read' \in ReadType
    BY <1>3, RecordTypes
  <2>2. post'.kind # "steer"
    BY <1>3 DEF NoPost
  <2> QED
    BY <1>3, <1>5, <2>1, <2>2, TypesNamed
<1>7. ReadIsBehind'
  <2>1. ledger \in Nat /\ read.mark <= ledger
    BY <1>3 DEF TypeOK, IInv, ReadIsBehind
  <2>2. read'.mark \in {read.mark, -1}
    BY <1>3 DEF NoRead
  <2> QED
    BY <1>3, <2>1, <2>2 DEF ReadIsBehind
<1>8. /\ stream' \in StreamType /\ late' \in BOOLEAN
      /\ phase' \in {"live", "idle", "submitting"} /\ run' \in 0..MaxRuns /\ (phase' = "live" <=> run' # 0)
      /\ HandleIsAtCursor' /\ LiveIsFollowed' /\ RecoveryIsAlone' /\ RecoveryOwnsRead'
  <2>1. CASE ~recovering /\ phase' = "live" /\ run' = r /\ Open(c)
    <3>1. stream' \in StreamType /\ late' \in BOOLEAN /\ HandleIsAtCursor' /\ stream'.pc = "fetching"
      BY <1>3, <1>4, <2>1, HandleFollows, OpenType
    <3>2. read'.kind # "recover"
      BY <1>3, <2>1 DEF IInv, RecoveryOwnsRead, NoRead
    <3>3. LiveIsFollowed' /\ RecoveryIsAlone' /\ RecoveryOwnsRead'
      BY <1>3, <2>1, <3>1, <3>2 DEF LiveIsFollowed, RecoveryIsAlone, RecoveryOwnsRead
    <3> QED
      BY <1>3, <1>5, <2>1, <3>1, <3>3
  <2>2. CASE /\ \/ phase' = phase
                \/ phase # "live" /\ phase' = "idle"
             /\ UNCHANGED <<run, stream, late, read>>
    <3>1. HandleIsAtCursor' /\ LiveIsFollowed' /\ RecoveryIsAlone' /\ RecoveryOwnsRead'
      BY <1>3, <1>6, <2>2
         DEF IInv, HandleIsAtCursor, LiveIsFollowed, RecoveryIsAlone, RecoveryOwnsRead
    <3> QED
      BY <1>3, <2>2, <3>1, TypesNamed
  <2> QED
    BY <1>3, <2>1, <2>2
<1>9. TypeOK'
  <2>1. observed' \subseteq 1..MaxRuns
    BY <1>3
  <2>2. /\ ledger' \in 0..Length /\ admitted' \in 1..MaxRuns /\ floor' \in 0..Length /\ bad' \subseteq Positions
        /\ thread' \in Seq(Positions) /\ cursor' \in 0..Length
        /\ connection' \in {"connected", "reconnecting", "unavailable"}
        /\ timer' \in BOOLEAN /\ recovering' \in BOOLEAN /\ resets' \in 0..2
        /\ faults' \in 0..MaxFaults /\ dropped' \in BOOLEAN
    BY <1>3, TypesNamed
  <2> QED
    BY <1>6, <1>8, <2>1, <2>2, TypesNextNamed
<1> QED
  BY <1>3, <1>7, <1>8, <1>9, ServerKept, ThreadKept DEF IInv

-----------------------------------------------------------------------------
(* The theorems *)

\* The page opens on an empty ledger.
LEMMA InitHolds == ASSUME Init PROVE IInv
<1>1. /\ ledger = 0 /\ admitted = 1 /\ floor = 0 /\ bad \subseteq Positions
      /\ stream = [NoStream EXCEPT !.pc = "fetching"]
      /\ late = FALSE /\ thread = <<>> /\ cursor = 0 /\ phase = "live" /\ run = 1 /\ observed = {}
      /\ connection = "connected" /\ timer = TRUE /\ recovering = FALSE /\ resets = 0
      /\ read = NoRead /\ post = NoPost /\ deferred = 0 /\ faults = 0 /\ dropped = FALSE
  BY DEF Init
<1>2. Length \in Nat \ {0} /\ MaxRuns \in Nat \ {0} /\ MaxFaults \in Nat
  BY StreamAssumption
<1>3. stream \in StreamType /\ stream.pc = "fetching" /\ stream.start = 0 /\ stream.seen = {}
  BY <1>1, <1>2 DEF NoStream, StreamType
<1>4. read \in ReadType /\ read.kind = "none" /\ read.mark = -1 /\ post \in PostType
  BY <1>1, <1>2 DEF NoRead, ReadType, NoPost, PostType
<1>5. TypeOK
  <2>1. /\ ledger \in 0..Length /\ admitted \in 1..MaxRuns /\ floor \in 0..Length /\ cursor \in 0..Length
        /\ run \in 0..MaxRuns /\ deferred \in 0..MaxRuns /\ faults \in 0..MaxFaults /\ resets \in 0..2
    BY <1>1, <1>2
  <2>2. thread \in Seq(Positions)
    BY <1>1
  <2>3. /\ phase \in {"live", "idle", "submitting"} /\ (phase = "live" <=> run # 0)
        /\ connection \in {"connected", "reconnecting", "unavailable"}
        /\ observed \subseteq 1..MaxRuns /\ bad \subseteq Positions
    BY <1>1
  <2>4. late \in BOOLEAN /\ timer \in BOOLEAN /\ recovering \in BOOLEAN /\ dropped \in BOOLEAN
    BY <1>1
  <2> QED
    BY <1>3, <1>4, <2>1, <2>2, <2>3, <2>4, TypesNamed
<1>6. thread = Prefix(0)
  <2>1. Prefix(0) \in Seq(Positions) /\ Len(Prefix(0)) = 0
    BY <1>2, PrefixType
  <2> QED
    BY <1>1, <2>1
<1>7. RunsAreAdmitted
  <2>1. Terminal \cap (1..0) = {}
    OBVIOUS
  <2>2. Ended(1..0) = 0
    BY <2>1, FS_EmptySet DEF Ended
  <2>3. \A n \in 0..ledger : n = 0
    BY <1>1
  <2> QED
    BY <1>1, <2>2, <2>3 DEF RunsAreAdmitted
<1>8. NothingLost /\ CursorIsNewest
  BY <1>1, <1>6 DEF NothingLost, CursorIsNewest
<1>9. HandleIsAtCursor /\ ReadIsBehind /\ LiveIsFollowed /\ RecoveryIsAlone /\ RecoveryOwnsRead
  BY <1>1, <1>3, <1>4 DEF HandleIsAtCursor, ReadIsBehind, LiveIsFollowed, RecoveryIsAlone, RecoveryOwnsRead
<1> QED
  BY <1>5, <1>7, <1>8, <1>9 DEF IInv

\* Every step keeps the invariant.
LEMMA NextKeeps == ASSUME IInv, Next PROVE IInv'
<1>1. CASE WriteEvent \/ AdmitElsewhere \/ AdmitPost \/ Collect
  BY <1>1, WriteKeeps, ServiceKeeps
<1>2. CASE Connected \/ Disconnected \/ RetryDelay \/ Refused \/ Expired \/ Receive
  BY <1>2, ConnectedKeeps, RetriesKeep, RefusedKeeps, ExpiredKeeps, ReceiveKeeps
<1>3. CASE LateAnswer \/ ReattachTimeout
  BY <1>3, LateKeeps, TimeoutKeeps
<1>4. CASE ServeSnapshot \/ AdoptRecovery \/ RecoveryFails \/ SettleRead \/ SettleReadFails
  BY <1>4, ServeKeeps, AdoptKeeps, RecoveryFailsKeeps, SettleKeeps, SettleFailsKeeps
<1>5. CASE Reconnect \/ Submit \/ Steer \/ SubmitReceipt \/ SteerReceipt
  BY <1>5, ReconnectKeeps, SubmitKeeps, ReceiptKeeps
<1> QED
  BY <1>1, <1>2, <1>3, <1>4, <1>5 DEF Next

\* A step that changes nothing keeps it too.
LEMMA StutterKeeps == ASSUME IInv, UNCHANGED vars PROVE IInv'
<1>1. UNCHANGED <<ledger, admitted, floor, bad, stream, late, thread, cursor, phase, run, observed,
                  connection, timer, recovering, resets, read, post, deferred, faults, dropped>>
  BY DEF vars, server, engine, machine, history
<1>2. TypeOK'
  BY <1>1, TypesNamed, TypesNextNamed DEF IInv
<1>3. HandleIsAtCursor' /\ ReadIsBehind' /\ LiveIsFollowed' /\ RecoveryIsAlone' /\ RecoveryOwnsRead'
  BY <1>1 DEF IInv, HandleIsAtCursor, ReadIsBehind, LiveIsFollowed, RecoveryIsAlone, RecoveryOwnsRead
<1> QED
  BY <1>1, <1>2, <1>3, ServerKept, ThreadKept DEF IInv

\* The inductive invariant holds in every state of every behaviour.
THEOREM Invariance == Spec => []IInv
<1>1. Init => IInv
  BY InitHolds
<1>2. IInv /\ [Next]_vars => IInv'
  BY NextKeeps, StutterKeeps
<1> QED
  BY <1>1, <1>2, PTL DEF Spec

\* Every variable keeps its type, and the machine names a run exactly while it shows one.
THEOREM TypeCorrect == Spec => []TypeOK
<1>1. IInv => TypeOK
  BY DEF IInv
<1> QED
  BY <1>1, Invariance, PTL

\* handleStreamEvents and the snapshots: the thread is the ledger up to its cursor, every event
\* once and in order, however often the stream is cut, repeated or replaced; after a frame that
\* did not parse, events may be missing but none is shown twice.
THEOREM ThreadIsLedger == Spec => []NothingLost
<1>1. IInv => NothingLost
  BY DEF IInv
<1> QED
  BY <1>1, Invariance, PTL

\* openStream, closeStream: no path leaves a run that is shown behind a closed stream, unless the
\* page says that it is not connected or is recovering.
THEOREM LiveRunIsFollowed == Spec => []LiveIsFollowed
<1>1. IInv => LiveIsFollowed
  BY DEF IInv
<1> QED
  BY <1>1, Invariance, PTL

\* recoverExpiredCursor and reconnect: a recovery has its read in flight, and no stream, timeout
\* or late callback beside it.
THEOREM RecoveryHasNoCompany == Spec => []RecoveryIsAlone
<1>1. IInv => RecoveryIsAlone
  BY DEF IInv
<1> QED
  BY <1>1, Invariance, PTL

=============================================================================
