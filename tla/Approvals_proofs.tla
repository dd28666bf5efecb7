-------------------------- MODULE Approvals_proofs --------------------------
(***************************************************************************)
(* The human in the loop, for every set of items and answers and for all   *)
(* bounds: a decision travels only to the pause it was made for, a pause   *)
(* is answered by one command in one reading of the conversation, and the  *)
(* failure that is shown is about the pause that is shown.                 *)
(*                                                                         *)
(* The invariants hold because the owner's log is ordered by pause, a      *)
(* pause waits only when it begins, and what is staged or frozen lives     *)
(* exactly as long as the page shows the pause it was made for.            *)
(***************************************************************************)
EXTENDS Approvals, TLAPS

\* The owner's log: pauses follow each other, and a pause waits only when it begins.
OwnerLog ==
    \A i, j \in DOMAIN log : i < j =>
        /\ log[i].pause <= log[j].pause
        /\ log[j].phase = "waiting" => log[i].pause < log[j].pause

\* What is staged was decided for the pause that is shown.
StagedForShown == \A item \in DOMAIN staging : staging[item].pause = Shown.pause

\* A fresh reading of the conversation starts with no decision and no command; a recovery starts
\* with no command, and keeps the decisions until its snapshot is here.
ReadingsStartClean ==
    /\ hydrating = "fresh" => staging = <<>> /\ frozen = 0
    /\ hydrating # "none" => \A c \in DOMAIN sent : sent[c].generation # generation

\* The commands of this reading are for the pause shown or an earlier one; the pause shown is
\* answered by the frozen command, or waits no more.
Answered ==
    \A c \in DOMAIN sent :
        /\ sent[c].generation <= generation
        /\ sent[c].generation = generation =>
              /\ sent[c].pause <= Shown.pause
              /\ sent[c].pause = Shown.pause => frozen = c \/ Shown.phase # "waiting"

\* The inductive invariant.
IInv == /\ TypeOK /\ Len(sent) <= MaxCommands
        /\ OwnerLog /\ StagedForShown /\ ReadingsStartClean /\ Answered
        /\ SentForItsPause /\ OneCommandPerPause /\ ErrorIsCurrent

-----------------------------------------------------------------------------
(* The log *)

\* What the page shows, and the owner's last word, are states of the log.
LEMMA LogFacts ==
    ASSUME TypeOK
    PROVE  /\ Len(log) \in Nat \ {0} /\ DOMAIN log = 1..Len(log) /\ cursor \in 1..Len(log)
           /\ \A i \in 1..Len(log) : log[i] \in OwnerState
           /\ Now = log[Len(log)] /\ Now \in OwnerState /\ Shown \in OwnerState
<1>1. log \in Seq(OwnerState) /\ cursor \in DOMAIN log
  BY DEF TypeOK
<1>2. Len(log) \in Nat /\ DOMAIN log = 1..Len(log) /\ \A i \in 1..Len(log) : log[i] \in OwnerState
  BY <1>1
<1>3. Len(log) \in 1..Len(log)
  BY <1>1, <1>2
<1> QED
  BY <1>1, <1>2, <1>3 DEF Last, Now, Shown

\* The commands sent.
LEMMA SentFacts ==
    ASSUME TypeOK
    PROVE  /\ Len(sent) \in Nat /\ DOMAIN sent = 1..Len(sent)
           /\ \A c \in DOMAIN sent : sent[c].pause \in 1..MaxPauses /\ sent[c].generation \in 1..MaxReads
<1> DEFINE C == [pause : 1..MaxPauses, body : [Items -> Staged], generation : 1..MaxReads]
<1>1. sent \in Seq(C)
  BY DEF TypeOK
<1>2. \A c \in C : c.pause \in 1..MaxPauses /\ c.generation \in 1..MaxReads
  OBVIOUS
<1> HIDE DEF C
<1>3. Len(sent) \in Nat /\ DOMAIN sent = 1..Len(sent) /\ \A c \in DOMAIN sent : sent[c] \in C
  BY <1>1
<1> QED
  BY <1>2, <1>3

\* The owner's states only move forward in the log.
LEMMA LogForward ==
    ASSUME TypeOK, OwnerLog, NEW i \in DOMAIN log, NEW j \in DOMAIN log, i <= j
    PROVE  /\ log[i].pause <= log[j].pause
           /\ (i # j /\ log[j].phase = "waiting") => log[i].pause < log[j].pause
<1>1. log[i].pause \in Nat
  BY LogFacts DEF OwnerState
<1>2. i \in Nat /\ j \in Nat
  BY LogFacts
<1> QED
  BY <1>1, <1>2 DEF OwnerLog

\* A state appended to the log.
LEMMA SaySays ==
    ASSUME TypeOK, NEW s \in OwnerState, Say(s)
    PROVE  /\ log' \in Seq(OwnerState) /\ DOMAIN log' = 1..(Len(log) + 1)
           /\ log'[Len(log) + 1] = s /\ \A i \in DOMAIN log : log'[i] = log[i]
<1>1. log \in Seq(OwnerState)
  BY DEF TypeOK
<1> QED
  BY <1>1 DEF Say

\* The owner's next state belongs to the same pause or to a new one, which begins by waiting.
Follows(s) == Now.pause <= s.pause /\ (s.phase = "waiting" => Now.pause < s.pause)

\* A step of the owner that appends such a state keeps the invariant.
LEMMA SayKeeps ==
    ASSUME IInv, NEW s \in OwnerState, Say(s), Follows(s), OwnerOnly,
           receipts' \in [Commands -> {"none", "pending", "failed", "stale"}]
    PROVE  IInv'
<1> USE DEF OwnerOnly, view, decision, session, bounds
<1>1. TypeOK
  BY DEF IInv
<1>2. /\ log' \in Seq(OwnerState) /\ DOMAIN log' = 1..(Len(log) + 1)
      /\ log'[Len(log) + 1] = s /\ \A i \in DOMAIN log : log'[i] = log[i]
  BY <1>1, SaySays
<1>3. DOMAIN log \subseteq DOMAIN log' /\ Shown' = Shown
  BY <1>1, <1>2, LogFacts DEF Shown
<1>4. TypeOK'
  BY <1>1, <1>2, <1>3 DEF TypeOK, Call
<1>5. OwnerLog'
  <2>1. ASSUME NEW i \in DOMAIN log', NEW j \in DOMAIN log', i < j
        PROVE  /\ log'[i].pause <= log'[j].pause
               /\ log'[j].phase = "waiting" => log'[i].pause < log'[j].pause
    <3>1. CASE j \in DOMAIN log
      <4>1. i \in DOMAIN log
        BY <1>1, <1>2, <2>1, <3>1, LogFacts
      <4> QED
        BY <1>2, <2>1, <3>1, <4>1 DEF IInv, OwnerLog
    <3>2. CASE j \notin DOMAIN log
      <4>1. j = Len(log) + 1 /\ i \in DOMAIN log /\ i <= Len(log) /\ Len(log) \in DOMAIN log
        BY <1>1, <1>2, <2>1, <3>2, LogFacts
      <4>2. log[i].pause <= Now.pause
        BY <1>1, <4>1, LogForward, LogFacts DEF IInv
      <4>3. log[i].pause \in Nat /\ Now.pause \in Nat /\ s.pause \in Nat
        <5>1. log[i] \in OwnerState /\ Now \in OwnerState
          BY <1>1, <4>1, LogFacts
        <5>2. \A o \in OwnerState : o.pause \in Nat
          BY ApprovalsAssumption DEF OwnerState
        <5> QED
          BY <5>1, <5>2
      <4>4. /\ log'[i] = log[i] /\ log'[j] = s /\ Now.pause <= s.pause
            /\ s.phase = "waiting" => Now.pause < s.pause
        BY <1>2, <4>1 DEF Follows
      <4> QED
        BY <4>2, <4>3, <4>4
    <3> QED
      BY <3>1, <3>2
  <2> QED
    BY <2>1 DEF OwnerLog
<1>6. StagedForShown' /\ ReadingsStartClean' /\ Answered'
  BY <1>3 DEF IInv, StagedForShown, ReadingsStartClean, Answered
<1>7. SentForItsPause' /\ OneCommandPerPause' /\ ErrorIsCurrent'
  BY <1>3 DEF IInv, SentForItsPause, OneCommandPerPause, ErrorIsCurrent
<1>8. Len(sent') <= MaxCommands
  BY DEF IInv
<1> QED
  BY <1>4, <1>5, <1>6, <1>7, <1>8 DEF IInv

-----------------------------------------------------------------------------
(* Steps that leave what is shown, staged and frozen alone *)

\* Such a step keeps the invariant when it keeps the types and the failure shown.
LEMMA PageKeeps ==
    ASSUME IInv, TypeOK', ErrorIsCurrent',
           UNCHANGED <<log, sent, cursor, staging, frozen, generation>>,
           hydrating' \in {hydrating, "none"}
    PROVE  IInv'
<1>1. Shown' = Shown
  BY DEF Shown
<1>2. OwnerLog'
  BY DEF IInv, OwnerLog
<1>3. StagedForShown' /\ ReadingsStartClean' /\ Answered'
  BY <1>1 DEF IInv, StagedForShown, ReadingsStartClean, Answered
<1>4. SentForItsPause' /\ OneCommandPerPause' /\ Len(sent') <= MaxCommands
  BY DEF IInv, SentForItsPause, OneCommandPerPause
<1> QED
  BY <1>2, <1>3, <1>4 DEF IInv

\* The service decides a command.
LEMMA DecideKeeps == ASSUME IInv, NEW c \in Commands, DecideCommand(c) PROVE IInv'
<1>1. /\ TypeOK /\ Now \in OwnerState /\ OwnerOnly
      /\ receipts' \in [Commands -> {"none", "pending", "failed", "stale"}]
  BY LogFacts DEF IInv, TypeOK, DecideCommand
<1>2. CASE Say(State(Now.pause, "resuming", [cmd |-> c, kind |-> "accepted"]))
  <2>1. PICK s : s = State(Now.pause, "resuming", [cmd |-> c, kind |-> "accepted"])
    OBVIOUS
  <2>2. s \in OwnerState /\ Follows(s)
    BY <1>1, <2>1 DEF State, OwnerState, Follows, Commands
  <2>3. Say(s)
    BY <1>2, <2>1
  <2> QED
    BY <1>1, <2>2, <2>3, SayKeeps
<1>3. CASE UNCHANGED log
  <2>1. UNCHANGED <<log, sent, view, decision, calls, ownerRead, session, bounds>>
    BY <1>1, <1>3 DEF OwnerOnly
  <2>2. TypeOK'
    BY <1>1, <2>1 DEF TypeOK, view, decision, session, bounds
  <2>3. ErrorIsCurrent'
    BY <2>1 DEF IInv, ErrorIsCurrent, Shown, view
  <2> QED
    BY <2>1, <2>2, <2>3, PageKeeps DEF view, decision, session
<1> QED
  BY <1>2, <1>3 DEF DecideCommand

\* A command of unknown outcome, and the agent's answers to one.
LEMMA AgentKeeps ==
    ASSUME IInv, Redispatch \/ AgentUnknown \/ AgentConsumes \/ AgentPauses \/ RunEnds
    PROVE  IInv'
<1>1. /\ TypeOK /\ Now \in OwnerState
      /\ receipts \in [Commands -> {"none", "pending", "failed", "stale"}]
  BY LogFacts DEF IInv, TypeOK
<1>2. \E s \in OwnerState : Say(s) /\ Follows(s)
  <2>1. CASE Redispatch
    <3>1. PICK s : s = [Now EXCEPT !.action.kind = "accepted"]
      OBVIOUS
    <3>2. s \in OwnerState /\ Follows(s)
      BY <1>1, <2>1, <3>1 DEF Redispatch, OwnerState, Follows
    <3> QED
      BY <2>1, <3>1, <3>2 DEF Redispatch
  <2>2. CASE AgentUnknown
    <3>1. PICK s : s = [Now EXCEPT !.action.kind = "unknown"]
      OBVIOUS
    <3>2. s \in OwnerState /\ Follows(s)
      BY <1>1, <2>2, <3>1 DEF AgentUnknown, OwnerState, Follows
    <3> QED
      BY <2>2, <3>1, <3>2 DEF AgentUnknown
  <2>3. CASE AgentConsumes
    <3>1. PICK s : s = State(Now.pause, "active", [Now.action EXCEPT !.kind = "native_consumed"])
      OBVIOUS
    <3>2. s \in OwnerState /\ Follows(s)
      BY <1>1, <3>1 DEF OwnerState, Follows, State
    <3> QED
      BY <2>3, <3>1, <3>2 DEF AgentConsumes
  <2>4. CASE AgentPauses
    <3>1. PICK s : s = State(Now.pause + 1, "waiting", NoAction)
      OBVIOUS
    <3>2. s \in OwnerState /\ Follows(s)
      BY <1>1, <2>4, <3>1, ApprovalsAssumption DEF AgentPauses, OwnerState, Follows, State, NoAction
    <3> QED
      BY <2>4, <3>1, <3>2 DEF AgentPauses
  <2>5. CASE RunEnds
    <3>1. PICK s : s = State(Now.pause, "ended", NoAction)
      OBVIOUS
    <3>2. s \in OwnerState /\ Follows(s)
      BY <1>1, <3>1, ApprovalsAssumption DEF OwnerState, Follows, State, NoAction
    <3> QED
      BY <2>5, <3>1, <3>2 DEF RunEnds
  <2> QED
    BY <2>1, <2>2, <2>3, <2>4, <2>5
<1>3. OwnerOnly /\ receipts' = receipts
  BY DEF Redispatch, AgentUnknown, AgentConsumes, AgentPauses, RunEnds
<1> QED
  BY <1>1, <1>2, <1>3, SayKeeps

-----------------------------------------------------------------------------
(* Sending *)

\* sendResumeIntent counts one attempt more, and has a well-formed call on its way.
LEMMA SendTypes ==
    ASSUME TypeOK, NEW c \in Commands, SendResumeIntent(c)
    PROVE  /\ calls' \subseteq Call /\ locked' = TRUE /\ error' = 0
           /\ attempts' \in 0..MaxAttempts /\ attempt' \in 0..attempts'
<1>1. attempts + 1 \in 1..MaxAttempts /\ generation \in 1..MaxReads
  BY ApprovalsAssumption DEF TypeOK, SendResumeIntent
<1>2. [id |-> attempts + 1, cmd |-> c, generation |-> generation] \in Call
  BY <1>1 DEF Call
<1>3. calls' \subseteq Call
  BY <1>2 DEF SendResumeIntent, TypeOK
<1> QED
  BY <1>1, <1>3 DEF SendResumeIntent, TypeOK

\* The frozen command is sent again.
LEMMA ResendKeeps ==
    ASSUME IInv, frozen # 0, SendResumeIntent(frozen),
           UNCHANGED <<owner, sent, cursor, phase, staging, frozen, ownerRead, session, faults>>
    PROVE  IInv'
<1>1. TypeOK /\ frozen \in Commands
  <2>1. frozen \in 0..Len(sent) /\ Len(sent) \in Nat /\ Len(sent) <= MaxCommands
    BY DEF IInv, TypeOK
  <2> QED
    BY <2>1, ApprovalsAssumption DEF IInv, Commands
<1>2. /\ calls' \subseteq Call /\ locked' = TRUE /\ error' = 0
      /\ attempts' \in 0..MaxAttempts /\ attempt' \in 0..attempts'
  BY <1>1, SendTypes
<1>3. error' \in 0..MaxPauses
  BY <1>2, ApprovalsAssumption
<1>4. TypeOK'
  BY <1>1, <1>2, <1>3 DEF TypeOK, owner, session
<1>5. ErrorIsCurrent'
  BY <1>2 DEF ErrorIsCurrent
<1> QED
  BY <1>4, <1>5, PageKeeps DEF owner, session

\* A decision staged, and with the last one the intent frozen and sent.
LEMMA StageKeeps ==
    ASSUME IInv, NEW item \in Items, NEW choice \in Answers, StageDecision(item, choice)
    PROVE  IInv'
<1> DEFINE staged == Decided(item, choice)
<1>1. /\ TypeOK /\ hydrating = "none" /\ Shown.phase = "waiting" /\ frozen = 0
      /\ staging' = staged
      /\ UNCHANGED <<owner, cursor, phase, ownerRead, session, faults>>
  BY DEF IInv, StageDecision, Decidable
<1>2. Shown.pause \in 1..MaxPauses
  BY <1>1, LogFacts DEF OwnerState
<1>3. /\ DOMAIN staged \subseteq Items
      /\ \A x \in DOMAIN staged : staged[x] \in Staged /\ staged[x].pause = Shown.pause
  <2>1. DOMAIN staged = {item} \cup DOMAIN staging
    BY DEF Decided
  <2>2. staged[item] = [choice |-> choice, pause |-> Shown.pause]
    BY DEF Decided
  <2>3. \A x \in DOMAIN staged : x # item => x \in DOMAIN staging /\ staged[x] = staging[x]
    BY DEF Decided
  <2>4. [choice |-> choice, pause |-> Shown.pause] \in Staged
    BY <1>2 DEF Staged
  <2> HIDE DEF staged
  <2>5. DOMAIN staged \subseteq Items
    BY <1>1, <2>1 DEF TypeOK
  <2> QED
    BY <1>1, <2>1, <2>2, <2>3, <2>4, <2>5 DEF TypeOK, IInv, StagedForShown
<1>4. Shown' = Shown /\ OwnerLog'
  BY <1>1 DEF Shown, owner, IInv, OwnerLog
<1>5. CASE DOMAIN staged # Items
  <2>1. UNCHANGED <<sent, error, frozen, locked, attempt, calls, attempts>>
    BY <1>5 DEF StageDecision
  <2> HIDE DEF staged
  <2>2. TypeOK'
    BY <1>1, <1>3, <2>1 DEF TypeOK, owner, session
  <2>3. StagedForShown' /\ ReadingsStartClean' /\ Answered'
    BY <1>1, <1>3, <1>4, <2>1 DEF IInv, StagedForShown, ReadingsStartClean, Answered, session
  <2>4. SentForItsPause' /\ OneCommandPerPause' /\ ErrorIsCurrent' /\ Len(sent') <= MaxCommands
    BY <1>1, <1>4, <2>1 DEF IInv, SentForItsPause, OneCommandPerPause, ErrorIsCurrent
  <2> QED
    BY <1>4, <2>2, <2>3, <2>4 DEF IInv
<1>6. CASE DOMAIN staged = Items
  <2> DEFINE n == Len(sent) + 1
             new == [pause |-> Shown.pause, body |-> staged, generation |-> generation]
  <2>1. /\ Len(sent) < MaxCommands /\ frozen' = n /\ SendResumeIntent(frozen')
        /\ sent' = Append(sent, new)
    BY <1>6 DEF StageDecision
  <2>2. staged \in [Items -> Staged]
    <3>1. staged = [x \in DOMAIN staged |-> staged[x]]
      BY DEF Decided
    <3> HIDE DEF staged
    <3> QED
      BY <1>3, <1>6, <3>1
  <2>3. generation \in 1..MaxReads /\ Len(sent) \in Nat
    BY <1>1 DEF TypeOK
  <2>4. /\ new.pause = Shown.pause /\ new.generation = generation
        /\ \A x \in Items : new.body[x].pause = Shown.pause
        /\ new \in [pause : 1..MaxPauses, body : [Items -> Staged], generation : 1..MaxReads]
    <3> HIDE DEF staged
    <3> QED
      BY <1>2, <1>3, <1>6, <2>2, <2>3
  <2> HIDE DEF staged, new
  <2>5. /\ sent' \in Seq([pause : 1..MaxPauses, body : [Items -> Staged], generation : 1..MaxReads])
        /\ Len(sent') = n /\ DOMAIN sent' = 1..n /\ DOMAIN sent = 1..Len(sent)
        /\ sent'[n] = new /\ \A c \in DOMAIN sent : sent'[c] = sent[c]
    BY <1>1, <2>1, <2>4, SMTT(30) DEF TypeOK
  <2>6. n \in Commands /\ n <= MaxCommands
    BY <2>1, <2>3, ApprovalsAssumption DEF Commands
  <2>7. SendResumeIntent(n)
    BY <2>1 DEF SendResumeIntent
  <2>8. /\ calls' \subseteq Call /\ locked' = TRUE /\ error' = 0
        /\ attempts' \in 0..MaxAttempts /\ attempt' \in 0..attempts'
    BY <1>1, <2>6, <2>7, SendTypes
  <2>9. TypeOK'
    <3>1. frozen' \in 0..Len(sent') /\ error' \in 0..MaxPauses
      BY <2>1, <2>3, <2>5, <2>8, ApprovalsAssumption
    <3> QED
      BY <1>1, <1>3, <2>5, <2>8, <3>1 DEF TypeOK, owner, session
  <2>10. \A c \in DOMAIN sent : ~(sent[c].pause = Shown.pause /\ sent[c].generation = generation)
    BY <1>1, <2>3, <2>5 DEF IInv, Answered
  <2>11. \A c \in DOMAIN sent' : c = n \/ (c \in DOMAIN sent /\ sent'[c] = sent[c])
    BY <2>3, <2>5
  <2>12. StagedForShown' /\ ReadingsStartClean' /\ ErrorIsCurrent' /\ Len(sent') <= MaxCommands
    BY <1>1, <1>3, <1>4, <2>5, <2>6, <2>8
       DEF StagedForShown, ReadingsStartClean, ErrorIsCurrent, session
  <2>13. Answered'
    <3>1. \A c \in DOMAIN sent : sent[c].generation = generation => sent[c].pause # Shown.pause
      BY <2>10
    <3>2. Shown.pause <= Shown.pause /\ generation <= generation
      BY <1>2, <2>3
    <3> QED
      BY <1>1, <1>4, <2>1, <2>4, <2>5, <2>11, <3>1, <3>2 DEF IInv, Answered, session
  <2>14. SentForItsPause'
    BY <2>4, <2>5, <2>11 DEF IInv, SentForItsPause
  <2>15. OneCommandPerPause'
    <3>1. ASSUME NEW c \in DOMAIN sent
          PROVE  ~(sent'[c].pause = sent'[n].pause /\ sent'[c].generation = sent'[n].generation)
      BY <2>4, <2>5, <2>10, <3>1
    <3>2. ASSUME NEW c \in DOMAIN sent, NEW d \in DOMAIN sent,
                 sent'[c].pause = sent'[d].pause, sent'[c].generation = sent'[d].generation
          PROVE  c = d
      BY <2>5, <3>2 DEF IInv, OneCommandPerPause
    <3> QED
      BY <2>11, <3>1, <3>2 DEF OneCommandPerPause
  <2> QED
    BY <1>4, <2>9, <2>12, <2>13, <2>14, <2>15 DEF IInv
<1> QED
  BY <1>5, <1>6

-----------------------------------------------------------------------------
(* The answers of resumeRun *)

\* The answer to a call that is current is about the pause that is shown.
LEMMA CurrentIsShown ==
    ASSUME TypeOK, NEW call, Current(call)
    PROVE  /\ sent[call.cmd].pause = Shown.pause /\ Shown.pause \in 1..MaxPauses
           /\ phase # "cancelling"
  BY LogFacts DEF Current, OwnerState

\* machine.phase for a state of the owner
LEMMA PhaseOfType ==
    ASSUME NEW s \in OwnerState
    PROVE  PhaseOf(s) \in {"waiting", "resuming", "streaming", "idle"}
  BY DEF PhaseOf, OwnerState

\* The types after decisions are dropped.
LEMMA ClearTypes ==
    ASSUME TypeOK, Clear, sent' = sent, attempts' = attempts
    PROVE  /\ DOMAIN staging' \subseteq Items /\ \A x \in DOMAIN staging' : staging'[x] \in Staged
           /\ frozen' \in 0..Len(sent') /\ locked' \in BOOLEAN /\ attempt' \in 0..attempts'
<1>1. 0 \in 0..Len(sent) /\ 0 \in 0..attempts
  BY ApprovalsAssumption, SentFacts DEF TypeOK
<1>2. staging' = <<>> /\ DOMAIN staging' = {}
  BY DEF Clear
<1> QED
  BY <1>1, <1>2 DEF Clear

\* A fresh reading of the conversation begins.
LEMMA FreshKeeps ==
    ASSUME IInv, TypeOK', ErrorIsCurrent', HydrateFresh, Clear, UNCHANGED <<log, sent, cursor>>
    PROVE  IInv'
<1>1. /\ TypeOK /\ generation \in Nat /\ generation' = generation + 1 /\ hydrating' = "fresh"
      /\ staging' = <<>> /\ frozen' = 0
  BY DEF IInv, TypeOK, HydrateFresh, Clear
<1>2. \A c \in DOMAIN sent : sent[c].generation \in Nat /\ sent[c].generation <= generation
  BY <1>1, SentFacts DEF IInv, Answered
<1>3. \A c \in DOMAIN sent : sent[c].generation <= generation' /\ sent[c].generation # generation'
  BY <1>1, <1>2
<1>4. StagedForShown' /\ ReadingsStartClean' /\ Answered'
  BY <1>1, <1>3 DEF StagedForShown, ReadingsStartClean, Answered
<1>5. OwnerLog' /\ SentForItsPause' /\ OneCommandPerPause' /\ Len(sent') <= MaxCommands
  BY DEF IInv, OwnerLog, SentForItsPause, OneCommandPerPause
<1> QED
  BY <1>4, <1>5 DEF IInv

\* An answer.
LEMMA AnswerKeeps == ASSUME IInv, Answer PROVE IInv'
<1>1. PICK call \in calls :
         /\ AnswerIgnored(call) \/ AnswerFailed(call) \/ AnswerStale(call)
         /\ Forget(call)
         /\ UNCHANGED <<owner, sent, bounds>>
  BY DEF Answer
<1>2. TypeOK /\ calls' \subseteq calls
  BY <1>1 DEF IInv, Forget
<1>3. CASE AnswerIgnored(call)
  <2>1. UNCHANGED <<log, receipts, sent, cursor, phase, error, staging, frozen, locked, attempt, ownerRead,
                    generation, hydrating, connection, attempts, faults>>
    BY <1>1, <1>3 DEF AnswerIgnored, view, decision, session, owner, bounds
  <2>2. TypeOK'
    BY <1>2, <2>1 DEF TypeOK
  <2>3. ErrorIsCurrent'
    BY <2>1 DEF IInv, ErrorIsCurrent, Shown
  <2> QED
    BY <2>1, <2>2, <2>3, PageKeeps
<1>4. CASE AnswerFailed(call)
  <2>1. /\ Current(call) /\ locked' = FALSE /\ error' = sent[call.cmd].pause
        /\ ownerRead' = {[call |-> call, at |-> cursor]}
        /\ UNCHANGED <<log, receipts, sent, cursor, phase, staging, frozen, attempt,
                       generation, hydrating, connection, attempts, faults>>
    BY <1>1, <1>4 DEF AnswerFailed, session, owner, bounds
  <2>2. error' = Shown.pause /\ error' \in 0..MaxPauses /\ phase # "cancelling"
    BY <1>2, <2>1, CurrentIsShown, ApprovalsAssumption
  <2>3. call \in Call /\ cursor \in DOMAIN log
    BY <1>2 DEF TypeOK
  <2>4. ownerRead' \subseteq [call : Call, at : DOMAIN log]
    BY <2>1, <2>3
  <2>5. TypeOK'
    BY <1>2, <2>1, <2>2, <2>4 DEF TypeOK
  <2>6. ErrorIsCurrent'
    BY <2>1, <2>2 DEF ErrorIsCurrent, Shown
  <2> QED
    BY <2>1, <2>5, <2>6, PageKeeps
<1>5. CASE AnswerStale(call)
  <2>1. /\ phase' = "idle" /\ error' = 0 /\ Clear /\ HydrateFresh
        /\ UNCHANGED <<log, receipts, sent, cursor, connection, attempts, faults>>
    BY <1>1, <1>5 DEF AnswerStale, owner, bounds
  <2>2. /\ generation' \in 1..MaxReads /\ error' \in 0..MaxPauses
        /\ hydrating' = "fresh" /\ ownerRead' = {}
    BY <1>2, <2>1, ApprovalsAssumption, SMTT(30) DEF HydrateFresh, TypeOK
  <2>3. TypeOK'
    BY <1>2, <2>1, <2>2, ClearTypes DEF TypeOK
  <2>4. ErrorIsCurrent'
    BY <2>1 DEF ErrorIsCurrent
  <2> QED
    BY <2>1, <2>3, <2>4, FreshKeeps
<1> QED
  BY <1>1, <1>3, <1>4, <1>5

\* An answer that is lost.
LEMMA AnswerLostKeeps == ASSUME IInv, AnswerLost PROVE IInv'
<1>1. PICK call \in calls :
         /\ Forget(call)
         /\ IF Current(call) THEN locked' = FALSE /\ error' = sent[call.cmd].pause
            ELSE UNCHANGED <<locked, error>>
  BY DEF AnswerLost
<1>2. /\ TypeOK /\ calls' \subseteq calls /\ Fault
      /\ UNCHANGED <<log, receipts, sent, cursor, phase, staging, frozen, attempt, ownerRead,
                     generation, hydrating, connection, attempts>>
  BY <1>1 DEF IInv, Forget, AnswerLost, owner, session
<1>3. \/ locked' = locked /\ error' = error
      \/ /\ locked' = FALSE /\ error' = Shown.pause /\ error' \in 0..MaxPauses
         /\ phase # "cancelling"
  BY <1>1, <1>2, CurrentIsShown, ApprovalsAssumption
<1>4. faults' \in 0..MaxFaults
  BY <1>2, ApprovalsAssumption, SMTT(30) DEF Fault, TypeOK
<1>5. TypeOK'
  BY <1>2, <1>3, <1>4 DEF TypeOK
<1>6. ErrorIsCurrent'
  BY <1>2, <1>3 DEF IInv, ErrorIsCurrent, Shown
<1> QED
  BY <1>2, <1>5, <1>6, PageKeeps

-----------------------------------------------------------------------------
(* The page moves along the log *)

\* What was staged is dropped, or the pause is still the one it was staged for; and the frozen
\* command of a pause that waits is dropped only by a reading that has no command of its own.
LEMMA MoveKeeps ==
    ASSUME IInv, TypeOK', ErrorIsCurrent',
           UNCHANGED <<log, sent, generation>>, cursor' \in DOMAIN log, cursor <= cursor',
           hydrating' = hydrating \/ hydrating' = "none",
           \/ staging' = <<>> /\ frozen' = 0
           \/ staging' = staging /\ frozen' = frozen /\ (staging = <<>> \/ Shown'.pause = Shown.pause),
           \/ frozen' = frozen \/ hydrating # "none"
           \/ Shown'.phase # "waiting" \/ Shown'.pause # Shown.pause
    PROVE  IInv'
<1>1. TypeOK /\ cursor \in DOMAIN log /\ OwnerLog
  BY DEF IInv, TypeOK
<1>2. /\ Shown.pause \in Nat /\ Shown'.pause \in Nat /\ Shown.pause <= Shown'.pause
      /\ cursor' # cursor => (Shown'.phase = "waiting" => Shown.pause < Shown'.pause)
      /\ cursor' = cursor => Shown' = Shown
  BY <1>1, LogFacts, LogForward DEF Shown, OwnerState
<1>3. StagedForShown'
  BY DEF IInv, StagedForShown
<1>4. ReadingsStartClean'
  BY DEF IInv, ReadingsStartClean
<1>5. Answered'
  <2>1. ASSUME NEW c \in DOMAIN sent, sent[c].generation = generation
        PROVE  /\ sent[c].pause <= Shown'.pause
               /\ sent[c].pause = Shown'.pause => frozen' = c \/ Shown'.phase # "waiting"
    <3>1. hydrating = "none" /\ sent[c].pause \in Nat /\ sent[c].pause <= Shown.pause
      BY <1>1, <2>1, SentFacts DEF IInv, ReadingsStartClean, Answered
    <3>2. ASSUME sent[c].pause = Shown'.pause, Shown'.phase = "waiting" PROVE frozen' = c
      <4>1. sent[c].pause = Shown.pause /\ Shown'.pause = Shown.pause
        BY <1>2, <3>1, <3>2
      <4>2. cursor' = cursor
        BY <1>2, <3>2, <4>1
      <4>3. frozen = c
        BY <1>2, <2>1, <3>2, <4>1, <4>2 DEF IInv, Answered
      <4> QED
        BY <3>1, <3>2, <4>1, <4>3
    <3> QED
      BY <1>2, <3>1, <3>2
  <2> QED
    BY <2>1 DEF IInv, Answered
<1>6. OwnerLog' /\ SentForItsPause' /\ OneCommandPerPause' /\ Len(sent') <= MaxCommands
  BY DEF IInv, OwnerLog, SentForItsPause, OneCommandPerPause
<1> QED
  BY <1>3, <1>4, <1>5, <1>6 DEF IInv

\* The next state of the owner reaches the page.
LEMMA StreamEventHolds == ASSUME IInv, StreamEvent PROVE IInv'
<1>1. /\ TypeOK /\ cursor' = cursor + 1 /\ cursor' \in DOMAIN log /\ cursor <= cursor'
      /\ hydrating = "none"
      /\ UNCHANGED <<log, receipts, sent, calls, ownerRead, generation, hydrating, connection, attempts,
                     faults>>
  <2>1. cursor < Len(log) /\ cursor' = cursor + 1 /\ TypeOK /\ hydrating = "none"
    BY DEF IInv, StreamEvent
  <2>2. cursor + 1 \in DOMAIN log /\ cursor <= cursor + 1
    BY <2>1, LogFacts
  <2> QED
    BY <2>1, <2>2 DEF StreamEvent, owner, session, bounds
<1>2. log[cursor + 1] \in OwnerState /\ Shown' = log[cursor + 1]
  BY <1>1, LogFacts DEF Shown
<1>3. PICK n \in OwnerState : n = log[cursor + 1]
  BY <1>2
<1>4. /\ IF n.pause # Shown.pause \/ n.phase \in {"active", "ended"}
         THEN Clear
         ELSE /\ locked' = (locked /\ n.action.kind # "unknown")
              /\ UNCHANGED <<staging, frozen, attempt>>
      /\ IF phase = "cancelling" /\ n.phase # "ended"
         THEN UNCHANGED <<phase, error>>
         ELSE phase' = PhaseOf(n) /\ error' = 0
  BY <1>3 DEF StreamEvent
<1>5. /\ DOMAIN staging' \subseteq Items /\ \A x \in DOMAIN staging' : staging'[x] \in Staged
      /\ frozen' \in 0..Len(sent') /\ locked' \in BOOLEAN /\ attempt' \in 0..attempts'
  BY <1>1, <1>4, ClearTypes DEF TypeOK
<1>6. phase' \in {"waiting", "resuming", "streaming", "cancelling", "idle", "error"} /\ error' = 0
  BY <1>1, <1>4, PhaseOfType DEF TypeOK, IInv, ErrorIsCurrent
<1>7. error' \in 0..MaxPauses
  BY <1>6, ApprovalsAssumption
<1>8. TypeOK'
  BY <1>1, <1>5, <1>6, <1>7 DEF TypeOK
<1>9. ErrorIsCurrent'
  BY <1>6 DEF ErrorIsCurrent
<1>10. \/ staging' = <<>> /\ frozen' = 0 /\ (n.pause # Shown.pause \/ n.phase # "waiting")
       \/ staging' = staging /\ frozen' = frozen /\ n.pause = Shown.pause
  BY <1>4 DEF Clear
<1>11. Shown' = n
  BY <1>2, <1>3
<1>12. IInv'
  BY <1>1, <1>8, <1>9, <1>10, <1>11, MoveKeeps
<1> QED
  BY <1>12

\* The read after a failed receipt: adoptOwnerSnapshot.
LEMMA OwnerReadKeeps == ASSUME IInv, OwnerRead PROVE IInv'
<1>1. PICK r \in ownerRead :
          IF Current(r.call) /\ cursor = r.at
          THEN /\ cursor' = Len(log) /\ phase' = PhaseOf(Now)
               /\ IF Now.pause # Shown.pause \/ Now.phase \in {"active", "ended"}
                  THEN Clear /\ error' = 0
                  ELSE error' = sent[frozen].pause /\ UNCHANGED decision
          ELSE UNCHANGED <<view, decision>>
  BY DEF OwnerRead
<1>2. /\ TypeOK /\ ownerRead' = {} /\ ownerRead' \subseteq [call : Call, at : DOMAIN log]
      /\ UNCHANGED <<log, receipts, sent, calls, generation, hydrating, connection, attempts, faults>>
  BY DEF IInv, OwnerRead, owner, session, bounds
<1>3. CASE Current(r.call) /\ cursor = r.at
  <2>1. /\ cursor' = Len(log) /\ cursor' \in DOMAIN log /\ cursor <= cursor'
        /\ Now \in OwnerState /\ Shown' = Now /\ phase' = PhaseOf(Now)
    BY <1>1, <1>2, <1>3, LogFacts DEF Shown
  <2>2. \/ Clear /\ error' = 0 /\ (Now.pause # Shown.pause \/ Now.phase # "waiting")
        \/ /\ error' = sent[frozen].pause /\ Now.pause = Shown.pause
           /\ UNCHANGED <<staging, frozen, locked, attempt>>
    BY <1>1, <1>3 DEF decision
  <2>3. sent[frozen].pause = Shown.pause /\ Shown.pause \in 1..MaxPauses
    BY <1>2, <1>3, CurrentIsShown DEF Current
  <2>4. error' \in 0..MaxPauses /\ (error' # 0 => error' = Now.pause)
    BY <2>2, <2>3, ApprovalsAssumption
  <2>5. phase' \in {"waiting", "resuming", "streaming", "idle"}
    BY <2>1, PhaseOfType
  <2>6. /\ DOMAIN staging' \subseteq Items /\ \A x \in DOMAIN staging' : staging'[x] \in Staged
        /\ frozen' \in 0..Len(sent') /\ locked' \in BOOLEAN /\ attempt' \in 0..attempts'
    BY <1>2, <2>2, ClearTypes DEF TypeOK
  <2>7. TypeOK'
    BY <1>2, <2>1, <2>4, <2>5, <2>6 DEF TypeOK
  <2>8. ErrorIsCurrent'
    BY <2>1, <2>4, <2>5 DEF ErrorIsCurrent
  <2>9. \/ staging' = <<>> /\ frozen' = 0 /\ (Now.pause # Shown.pause \/ Now.phase # "waiting")
        \/ staging' = staging /\ frozen' = frozen /\ Now.pause = Shown.pause
    BY <2>2 DEF Clear
  <2> QED
    BY <1>2, <2>1, <2>7, <2>8, <2>9, MoveKeeps
<1>4. CASE ~(Current(r.call) /\ cursor = r.at)
  <2>1. UNCHANGED <<cursor, phase, error, staging, frozen, locked, attempt>>
    BY <1>1, <1>4 DEF view, decision
  <2>2. TypeOK'
    BY <1>2, <2>1 DEF TypeOK
  <2>3. ErrorIsCurrent'
    BY <1>2, <2>1 DEF IInv, ErrorIsCurrent, Shown
  <2> QED
    BY <1>2, <2>1, <2>2, <2>3, PageKeeps
<1> QED
  BY <1>3, <1>4

\* hydrate: the snapshot is here.
LEMMA HydratedKeeps == ASSUME IInv, Hydrated PROVE IInv'
<1>1. /\ TypeOK /\ hydrating \in {"fresh", "recover"} /\ hydrating' = "none"
      /\ cursor' = Len(log) /\ phase' = PhaseOf(Now) /\ error' = 0
      /\ connection' \in {connection, "connected"}
      /\ UNCHANGED <<log, receipts, sent, calls, ownerRead, generation, attempts, faults>>
  BY DEF IInv, TypeOK, Hydrated, owner, bounds
<1>2. cursor' \in DOMAIN log /\ cursor <= cursor' /\ Now \in OwnerState
  BY <1>1, LogFacts
<1>3. \/ Clear
      \/ staging = <<>> /\ frozen = 0 /\ UNCHANGED <<staging, frozen, locked, attempt>>
  BY <1>1 DEF Hydrated, decision, IInv, ReadingsStartClean
<1>4. /\ DOMAIN staging' \subseteq Items /\ \A x \in DOMAIN staging' : staging'[x] \in Staged
      /\ frozen' \in 0..Len(sent') /\ locked' \in BOOLEAN /\ attempt' \in 0..attempts'
  BY <1>1, <1>3, ClearTypes DEF TypeOK
<1>5. phase' \in {"waiting", "resuming", "streaming", "idle"} /\ error' \in 0..MaxPauses
  BY <1>1, <1>2, PhaseOfType, ApprovalsAssumption
<1>6. TypeOK'
  BY <1>1, <1>2, <1>4, <1>5 DEF TypeOK
<1>7. ErrorIsCurrent'
  BY <1>1 DEF ErrorIsCurrent
<1>8. staging' = <<>> /\ frozen' = 0
  BY <1>3 DEF Clear
<1> QED
  BY <1>1, <1>2, <1>6, <1>7, <1>8, MoveKeeps

-----------------------------------------------------------------------------
(* The reads that fail, the connection, and the user's other moves *)

\* Reads that fail, a connection lost and found, and a cancellation leave what is shown and staged.
LEMMA LeavesKeep ==
    ASSUME IInv, OwnerReadFails \/ HydrateFails \/ Disconnected \/ Reconnected \/ CancelRun
    PROVE  IInv'
<1>1. TypeOK /\ ErrorIsCurrent
  BY DEF IInv
<1>2. /\ UNCHANGED <<log, receipts, sent, cursor, staging, frozen, locked, attempt, calls, generation,
                     attempts>>
      /\ ownerRead' \in {ownerRead, {}} /\ hydrating' \in {hydrating, "none"}
      /\ connection' \in {"connected", "reconnecting", "unavailable"}
      /\ \/ faults' = faults
         \/ faults < MaxFaults /\ faults' = faults + 1
      /\ \/ error' = error /\ phase' \in {phase, "error"}
         \/ error' = 0 /\ phase' = "cancelling"
  BY <1>1 DEF OwnerReadFails, HydrateFails, Disconnected, Reconnected, CancelRun, Fault, TypeOK,
              owner, view, decision, session, bounds
<1>3. faults' \in 0..MaxFaults
  <2>1. faults \in 0..MaxFaults /\ MaxFaults \in Nat
    BY <1>1, ApprovalsAssumption DEF TypeOK
  <2>2. faults' = faults \/ (faults < MaxFaults /\ faults' = faults + 1)
    BY <1>2
  <2> QED
    BY <2>1, <2>2
<1>4. error' \in 0..MaxPauses
  BY <1>1, <1>2, ApprovalsAssumption DEF TypeOK
<1>5. TypeOK'
  BY <1>1, <1>2, <1>3, <1>4 DEF TypeOK
<1>6. ErrorIsCurrent'
  BY <1>1, <1>2 DEF ErrorIsCurrent, Shown
<1> QED
  BY <1>2, <1>5, <1>6, PageKeeps

\* A recovery begins: no command has its generation yet.
LEMMA RecoverKeeps == ASSUME IInv, Recover PROVE IInv'
<1>1. /\ TypeOK /\ hydrating = "none" /\ generation < MaxReads /\ generation' = generation + 1
      /\ hydrating' = "recover" /\ ownerRead' = {} /\ connection' = "reconnecting"
      /\ UNCHANGED <<log, receipts, sent, cursor, phase, error, staging, frozen, locked, attempt, calls,
                     attempts, faults>>
  BY DEF IInv, Recover, owner, view, decision, bounds
<1>2. generation \in 1..MaxReads /\ generation' \in 1..MaxReads
  BY <1>1, ApprovalsAssumption DEF TypeOK
<1>3. TypeOK'
  BY <1>1, <1>2 DEF TypeOK
<1>4. \A c \in DOMAIN sent : sent[c].generation \in Nat /\ sent[c].generation <= generation
  BY <1>1, SentFacts DEF IInv, Answered
<1>5. \A c \in DOMAIN sent : sent[c].generation <= generation' /\ sent[c].generation # generation'
  BY <1>1, <1>2, <1>4
<1>6. StagedForShown' /\ ReadingsStartClean' /\ Answered'
  BY <1>1, <1>5 DEF IInv, StagedForShown, ReadingsStartClean, Answered, Shown
<1>7. OwnerLog' /\ SentForItsPause' /\ OneCommandPerPause' /\ ErrorIsCurrent' /\ Len(sent') <= MaxCommands
  BY <1>1 DEF IInv, OwnerLog, SentForItsPause, OneCommandPerPause, ErrorIsCurrent, Shown
<1> QED
  BY <1>3, <1>6, <1>7 DEF IInv

\* The user leaves the conversation and is back.
LEMMA ActivateKeeps == ASSUME IInv, ActivateConversation PROVE IInv'
<1>1. /\ TypeOK /\ generation < MaxReads /\ generation' = generation + 1 /\ hydrating' = "fresh"
      /\ ownerRead' = {} /\ connection' = "connected" /\ phase' = "idle" /\ error' = 0
      /\ Clear /\ HydrateFresh
      /\ UNCHANGED <<log, receipts, sent, cursor, calls, attempts, faults>>
  BY DEF IInv, ActivateConversation, HydrateFresh, owner, bounds
<1>2. generation' \in 1..MaxReads /\ error' \in 0..MaxPauses
  BY <1>1, ApprovalsAssumption DEF TypeOK
<1>3. /\ DOMAIN staging' \subseteq Items /\ \A x \in DOMAIN staging' : staging'[x] \in Staged
      /\ frozen' \in 0..Len(sent') /\ locked' \in BOOLEAN /\ attempt' \in 0..attempts'
  BY <1>1, ClearTypes
<1>4. TypeOK'
  BY <1>1, <1>2, <1>3 DEF TypeOK
<1>5. ErrorIsCurrent'
  BY <1>1 DEF ErrorIsCurrent
<1> QED
  BY <1>1, <1>4, <1>5, FreshKeeps

\* stageToolDecision and retryResume.
LEMMA DecisionsKeep == ASSUME IInv, StageToolDecision \/ RetryResume PROVE IInv'
<1>1. CASE StageToolDecision
  <2>1. PICK item \in Items, choice \in Answers : StageDecision(item, choice) \/ StageAgain(item, choice)
    BY <1>1 DEF StageToolDecision
  <2>2. CASE StageDecision(item, choice)
    BY <2>2, StageKeeps
  <2>3. CASE StageAgain(item, choice)
    BY <2>3, ResendKeeps DEF StageAgain
  <2> QED
    BY <2>1, <2>2, <2>3
<1>2. CASE RetryResume
  BY <1>2, ResendKeeps DEF RetryResume
<1> QED
  BY <1>1, <1>2

-----------------------------------------------------------------------------
(* The theorems *)

\* The page that opens on the first pause.
LEMMA InitHolds == ASSUME Init PROVE IInv
<1>1. /\ log = <<State(1, "waiting", NoAction)>> /\ receipts = [c \in Commands |-> "none"]
      /\ sent = <<>> /\ cursor = 1 /\ phase = "waiting" /\ error = 0
      /\ staging = <<>> /\ frozen = 0 /\ locked = FALSE /\ attempt = 0
      /\ calls = {} /\ ownerRead = {}
      /\ generation = 1 /\ hydrating = "none" /\ connection = "connected"
      /\ attempts = 0 /\ faults = 0
  BY DEF Init
<1>2. Len(sent) = 0 /\ DOMAIN sent = {} /\ DOMAIN staging = {} /\ 0 <= MaxCommands
  BY <1>1, ApprovalsAssumption
<1>3. State(1, "waiting", NoAction) \in OwnerState
  BY ApprovalsAssumption DEF State, NoAction, OwnerState
<1>4. log \in Seq(OwnerState) /\ Len(log) = 1 /\ DOMAIN log = {1}
  BY <1>1, <1>3
<1>5. sent \in Seq([pause : 1..MaxPauses, body : [Items -> Staged], generation : 1..MaxReads])
  BY <1>1
<1>6. /\ error \in 0..MaxPauses /\ frozen \in 0..Len(sent) /\ attempt \in 0..attempts
      /\ generation \in 1..MaxReads /\ attempts \in 0..MaxAttempts /\ faults \in 0..MaxFaults
  BY <1>1, <1>2, ApprovalsAssumption
<1>7. receipts \in [Commands -> {"none", "pending", "failed", "stale"}]
  BY <1>1
<1>8. TypeOK
  BY <1>1, <1>2, <1>4, <1>5, <1>6, <1>7 DEF TypeOK
<1>9. OwnerLog
  BY <1>4 DEF OwnerLog
<1>10. StagedForShown /\ ReadingsStartClean /\ Answered /\ SentForItsPause /\ OneCommandPerPause
       /\ ErrorIsCurrent
  BY <1>1, <1>2 DEF StagedForShown, ReadingsStartClean, Answered, SentForItsPause, OneCommandPerPause,
                    ErrorIsCurrent
<1> QED
  BY <1>2, <1>8, <1>9, <1>10 DEF IInv

\* Every step of the owner, the page, the calls and the user.
LEMMA NextKeeps == ASSUME IInv, [Next]_vars PROVE IInv'
<1>1. CASE \E c \in Commands : DecideCommand(c)
  BY <1>1, DecideKeeps
<1>2. CASE Redispatch \/ AgentUnknown \/ AgentConsumes \/ AgentPauses \/ RunEnds
  BY <1>2, AgentKeeps
<1>3. CASE StageToolDecision \/ RetryResume
  BY <1>3, DecisionsKeep
<1>4. CASE Answer
  BY <1>4, AnswerKeeps
<1>5. CASE AnswerLost
  BY <1>5, AnswerLostKeeps
<1>6. CASE StreamEvent
  BY <1>6, StreamEventHolds
<1>7. CASE OwnerRead
  BY <1>7, OwnerReadKeeps
<1>8. CASE OwnerReadFails \/ HydrateFails \/ Disconnected \/ Reconnected \/ CancelRun
  BY <1>8, LeavesKeep
<1>9. CASE Hydrated
  BY <1>9, HydratedKeeps
<1>10. CASE Recover
  BY <1>10, RecoverKeeps
<1>11. CASE ActivateConversation
  BY <1>11, ActivateKeeps
<1>12. CASE UNCHANGED vars
  <2>1. UNCHANGED <<log, receipts, sent, cursor, phase, error, staging, frozen, locked, attempt, calls,
                    ownerRead, generation, hydrating, connection, attempts, faults>>
    BY <1>12 DEF vars, owner, view, decision, session, bounds
  <2>2. TypeOK' /\ ErrorIsCurrent'
    BY <2>1 DEF IInv, TypeOK, ErrorIsCurrent, Shown
  <2> QED
    BY <2>1, <2>2, PageKeeps
<1> QED
  BY <1>1, <1>2, <1>3, <1>4, <1>5, <1>6, <1>7, <1>8, <1>9, <1>10, <1>11, <1>12 DEF Next

\* The inductive invariant holds in every state.
THEOREM Invariance == Spec => []IInv
<1>1. Init => IInv
  BY InitHolds
<1>2. IInv /\ [Next]_vars => IInv'
  BY NextKeeps
<1> QED
  BY <1>1, <1>2, PTL DEF Spec

\* Every variable has its type; in particular a command always carries a decision for every item.
THEOREM TypeCorrect == Spec => []TypeOK
<1>1. IInv => TypeOK
  BY DEF IInv
<1> QED
  BY <1>1, Invariance, PTL

\* stageToolDecision: a decision travels only with a command for the pause it was made for, in
\* whatever order the states of the owner, the answers, the reads and the user's moves come.
THEOREM SentOnlyForItsPause == Spec => []SentForItsPause
<1>1. IInv => SentForItsPause
  BY DEF IInv
<1> QED
  BY <1>1, Invariance, PTL

\* frozenResumes: within one reading of the conversation a pause is answered by one command.
THEOREM OneAnswerPerPause == Spec => []OneCommandPerPause
<1>1. IInv => OneCommandPerPause
  BY DEF IInv
<1> QED
  BY <1>1, Invariance, PTL

\* machine.error: the failure shown is about the pause shown.
THEOREM FailureIsCurrent == Spec => []ErrorIsCurrent
<1>1. IInv => ErrorIsCurrent
  BY DEF IInv
<1> QED
  BY <1>1, Invariance, PTL

=============================================================================
