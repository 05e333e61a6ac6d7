----------------------- MODULE ExecutionCircuit_proofs -----------------------
(***************************************************************************)
(* The execution circuit, for any number of calls and any threshold; that  *)
(* the conversation of AssistantChat uses it by its two halves only; and   *)
(* that the answers a page shows are whole, and those of its questions,    *)
(* for any number of pages, questions and parts; and the same where the    *)
(* conversation runs with the generation slot on a circuit left behind.    *)
(***************************************************************************)
EXTENDS MCSkillGenerationSlot, SkillGenerationSlot_proofs, FiniteSetTheorems,
        SequenceTheorems, TLAPS

\* While half open, one call runs as the probe and nothing else carries the
\* current generation, so that no other end can move the circuit; otherwise
\* no probe runs.  The counter tells whether the circuit is open.
CircuitInv ==
  /\ CircuitTypeOK
  /\ halfOpen => /\ openedAt = "elapsed"
                 /\ generation = probes
                 /\ \E c \in Calls : probes = {c}
  /\ ~halfOpen => probes = {}
  /\ openedAt = "closed" <=> consecutiveFailures < failureThreshold

\* The first half of execute keeps the invariant.
LEMMA ExecuteKeeps ==
  ASSUME CircuitInv, NEW c \in Calls, Execute(c)
  PROVE  CircuitInv'
<1>1. CASE openedAt = "elapsed"
  <2>1. probes' = {c} /\ generation' = {c} /\ halfOpen'
    BY <1>1 DEF Execute, CircuitInv, LetsThrough
  <2> QED  BY <1>1, <2>1 DEF Execute, CircuitInv, CircuitTypeOK
<1>2. CASE openedAt = "closed"
  BY <1>2 DEF Execute, CircuitInv, CircuitTypeOK
<1> QED  BY <1>1, <1>2 DEF Execute, LetsThrough

\* So does the second half, however the operation ends.
LEMMA SettleKeeps ==
  ASSUME CircuitInv, NEW c \in Calls, NEW outcome \in Outcomes, Settle(c, outcome)
  PROVE  CircuitInv'
<1> USE ThresholdAssumption
<1>0. running' = running \ {c} /\ probes' = probes \ {c}
  BY DEF Settle
<1>1. OneMoreFailure \in 1..failureThreshold
  BY DEF OneMoreFailure, CircuitInv, CircuitTypeOK
<1>2. CASE c \notin generation
  <2>1. UNCHANGED <<consecutiveFailures, openedAt, halfOpen, generation>>
    BY <1>2 DEF Settle
  <2>2. c \notin probes
    BY <1>2 DEF CircuitInv
  <2> QED  BY <1>0, <1>2, <2>1, <2>2 DEF CircuitInv, CircuitTypeOK
<1>3. CASE c \in generation /\ c \in probes
  <2>1. halfOpen /\ probes = {c} /\ generation = {c} /\ openedAt = "elapsed"
    BY <1>3 DEF CircuitInv
  <2>2. probes' = {} /\ generation' = {} /\ halfOpen' = FALSE
    BY <1>0, <1>3, <2>1 DEF Settle, Success, CountedFailure, OtherError
  <2>3. /\ consecutiveFailures' \in 0..failureThreshold
        /\ openedAt' \in {"closed", "waiting", "elapsed"}
        /\ openedAt' = "closed" <=> consecutiveFailures' < failureThreshold
    <3>1. consecutiveFailures = failureThreshold /\ OneMoreFailure = failureThreshold
      BY <2>1 DEF OneMoreFailure, CircuitInv, CircuitTypeOK
    <3>2. CASE Success(c)
      BY <3>2 DEF Success
    <3>3. CASE CountedFailure(c)
      BY <1>3, <3>1, <3>3 DEF CountedFailure
    <3>4. CASE OtherError(c)
      BY <2>1, <3>1, <3>4 DEF OtherError
    <3> QED  BY <1>3, <3>2, <3>3, <3>4 DEF Settle
  <2> QED  BY <1>0, <2>2, <2>3 DEF CircuitInv, CircuitTypeOK
<1>4. CASE c \in generation /\ c \notin probes
  <2>1. ~halfOpen /\ probes = {}
    BY <1>4 DEF CircuitInv
  <2>2. probes' = {} /\ halfOpen' = FALSE /\ generation' \subseteq generation \ {c}
    BY <1>0, <1>4, <2>1 DEF Settle, Success, CountedFailure, OtherError, CircuitInv, CircuitTypeOK
  <2>3. /\ consecutiveFailures' \in 0..failureThreshold
        /\ openedAt' \in {"closed", "waiting", "elapsed"}
        /\ openedAt' = "closed" <=> consecutiveFailures' < failureThreshold
    <3>1. CASE Success(c)
      BY <3>1 DEF Success
    <3>2. CASE CountedFailure(c)
      <4>1. CASE OneMoreFailure >= failureThreshold
        BY <1>1, <3>2, <4>1 DEF CountedFailure
      <4>2. CASE ~(OneMoreFailure >= failureThreshold)
        <5>1. openedAt' = openedAt /\ consecutiveFailures' = OneMoreFailure
          BY <1>4, <3>2, <4>2 DEF CountedFailure
        <5>2. consecutiveFailures < failureThreshold /\ OneMoreFailure < failureThreshold
          BY <1>1, <4>2 DEF OneMoreFailure, CircuitInv, CircuitTypeOK
        <5> QED  BY <1>1, <5>1, <5>2 DEF CircuitInv, CircuitTypeOK
      <4> QED  BY <4>1, <4>2
    <3>3. CASE OtherError(c)
      BY <3>3 DEF OtherError, CircuitInv, CircuitTypeOK
    <3> QED  BY <1>4, <3>1, <3>2, <3>3 DEF Settle
  <2> QED  BY <1>0, <2>2, <2>3 DEF CircuitInv, CircuitTypeOK
<1> QED  BY <1>2, <1>3, <1>4

\* Any step of the circuit keeps the invariant.
LEMMA CircuitKept ==
  ASSUME CircuitInv, [CircuitNext]_circuitVars
  PROVE  CircuitInv'
<1>1. CASE ResetElapses
  BY <1>1 DEF ResetElapses, CircuitInv, CircuitTypeOK
<1>2. CASE UNCHANGED circuitVars
  BY <1>2 DEF circuitVars, CircuitInv, CircuitTypeOK
<1>3. CASE \E c \in Calls : Execute(c)
  BY <1>3, ExecuteKeeps
<1>4. CASE \E c \in Calls, outcome \in Outcomes : Settle(c, outcome)
  BY <1>4, SettleKeeps
<1> QED  BY <1>1, <1>2, <1>3, <1>4 DEF CircuitNext

LEMMA CircuitStarts ==
  ASSUME CircuitInit
  PROVE  CircuitInv
<1>1. 0 \in 0..failureThreshold /\ 0 < failureThreshold
  BY ThresholdAssumption
<1>2. CircuitTypeOK
  BY <1>1 DEF CircuitInit, CircuitTypeOK
<1> QED  BY <1>1, <1>2 DEF CircuitInit, CircuitInv

\* Any interleaving of any number of calls keeps the invariant.
THEOREM CircuitInvariant == CircuitSpec => []CircuitInv
<1>1. CircuitInit => CircuitInv
  BY CircuitStarts
<1>2. CircuitInv /\ [CircuitNext]_circuitVars => CircuitInv'
  BY CircuitKept
<1> QED  BY <1>1, <1>2, PTL DEF CircuitSpec

\* The probe of a half open circuit is counted.
LEMMA OneProbe == CircuitInv => OneProbeAtATime
<1> SUFFICES ASSUME CircuitInv PROVE OneProbeAtATime
  OBVIOUS
<1>1. ASSUME halfOpen PROVE Cardinality(probes) = 1
  BY <1>1, FS_Singleton DEF CircuitInv
<1> QED  BY <1>1 DEF CircuitInv, OneProbeAtATime

\* At most one call probes an Agent that failed, and the circuit is half open
\* exactly as long as it runs.
THEOREM ProbesCorrect == CircuitSpec => []OneProbeAtATime
BY CircuitInvariant, OneProbe, PTL

-----------------------------------------------------------------------------

\* The questions form a sequence, and no more are asked than MaxQuestions.
AskedInTurn == \E Q : call \in Seq(Q) /\ Len(call) <= MaxQuestions

\* A question's number is a call, so that the circuit knows it.
LEMMA NumbersAreCalls ==
  ASSUME AskedInTurn, NEW c \in DOMAIN call
  PROVE  c \in Calls
<1>1. PICK Q : call \in Seq(Q) /\ Len(call) <= MaxQuestions
  BY DEF AskedInTurn
<1>2. DOMAIN call = 1..Len(call) /\ Len(call) \in Nat
  BY <1>1
<1>3. c \in 1..MaxQuestions
  BY <1>1, <1>2, CallsAssumption
<1> QED  BY <1>3, CallsAssumption

\* Rewriting the questions one by one leaves a sequence of the same length.
LEMMA RewritingKeepsLength ==
  ASSUME NEW Q, NEW s \in Seq(Q), NEW t,
         t = [i \in DOMAIN s |-> t[i]]
  PROVE  \E R : t \in Seq(R) /\ Len(t) = Len(s)
<1> DEFINE R == {t[i] : i \in DOMAIN s}
<1>1. DOMAIN s = 1..Len(s) /\ Len(s) \in Nat
  OBVIOUS
<1>2. t \in [1..Len(s) -> R]
  BY <1>1
<1>3. t \in Seq(R)
  BY <1>1, <1>2, SeqDef
<1>4. Len(t) = Len(s)
  BY <1>1, <1>2, <1>3, LenProperties
<1> QED  BY <1>3, <1>4

\* Only Send makes a sequence of questions longer.
LEMMA QuestionsKeepTurn ==
  ASSUME AskedInTurn, [ChatNext]_chatVars
  PROVE  AskedInTurn'
<1>1. PICK Q : call \in Seq(Q) /\ Len(call) <= MaxQuestions
  BY DEF AskedInTurn
<1>2. ASSUME NEW p \in Pages, Send(p) PROVE AskedInTurn'
  <2>1. PICK q : call' = Append(call, q)
    BY <1>2 DEF Send
  <2>2. Len(call) + 1 <= MaxQuestions
    BY <1>2 DEF Send
  <2>3. call \in Seq(Q \cup {q}) /\ q \in Q \cup {q}
    BY <1>1, SeqDef
  <2>4. call' \in Seq(Q \cup {q}) /\ Len(call') = Len(call) + 1
    BY <2>1, <2>3, AppendProperties
  <2> QED  BY <2>2, <2>4 DEF AskedInTurn
<1>3. ASSUME call' = [i \in DOMAIN call |-> call'[i]] PROVE AskedInTurn'
  BY <1>1, <1>3, RewritingKeepsLength DEF AskedInTurn
<1>4. CASE UNCHANGED call
  BY <1>1, <1>4 DEF AskedInTurn
<1>5. ASSUME NEW c \in DOMAIN call, Handle(c) PROVE AskedInTurn'
  <2>1. CASE Admit(c)
    BY <1>3, <2>1 DEF Admit, At, Refused
  <2>2. CASE Resolve(c)
    BY <1>3, <2>2 DEF Resolve, At, Refused
  <2>3. CASE Start(c)
    BY <1>3, <2>3 DEF Start, At
  <2>4. CASE RunPart(c) \/ Forward(c)
    BY <1>3, <2>4 DEF RunPart, Forward
  <2>5. CASE \E outcome \in Outcomes : RunEnds(c, outcome)
    BY <1>3, <2>5 DEF RunEnds
  <2>6. CASE CloseStream(c) \/ RejectEvent(c) \/ Cancel(c)
    BY <1>3, <2>6 DEF CloseStream, RejectEvent, Cancel, Closed
  <2> QED  BY <1>5, <2>1, <2>2, <2>3, <2>4, <2>5, <2>6 DEF Handle
<1>6. ASSUME NEW c \in DOMAIN call, Display(c) PROVE AskedInTurn'
  <2>1. CASE Draw(c)
    BY <1>4, <2>1 DEF Draw
  <2>2. CASE ReceivePart(c) \/ ReceiveDone(c)
    BY <1>3, <2>2 DEF ReceivePart, ReceiveDone
  <2>3. CASE ReceiveError(c) \/ LoseStream(c)
    BY <1>3, <2>3 DEF ReceiveError, LoseStream
  <2> QED  BY <1>6, <2>1, <2>2, <2>3 DEF Display
<1>7. ASSUME NEW p \in Pages, Leave(p) PROVE AskedInTurn'
  BY <1>3, <1>7 DEF Leave
<1>8. ASSUME NEW capability, ProbeEnds(capability) PROVE AskedInTurn'
  BY <1>3, <1>8 DEF ProbeEnds
<1>9. CASE ReadStatus \/ (ResetElapses /\ UNCHANGED <<session, call, readiness, attempts>>)
  BY <1>4, <1>9 DEF ReadStatus
<1>10. CASE UNCHANGED chatVars
  BY <1>4, <1>10 DEF chatVars
<1> QED  BY <1>2, <1>5, <1>6, <1>7, <1>8, <1>9, <1>10 DEF ChatNext

\* Whatever a page, the handler and the readiness probe do, the circuit sees
\* nothing but the two halves of execute and the passing of its reset time.
LEMMA ChatStepsCircuit ==
  ASSUME AskedInTurn, [ChatNext]_chatVars
  PROVE  [CircuitNext]_circuitVars
<1>1. ASSUME NEW c \in DOMAIN call, Handle(c) PROVE [CircuitNext]_circuitVars
  <2>0. c \in Calls
    BY NumbersAreCalls
  <2>1. CASE Start(c)
    BY <2>0, <2>1 DEF Start, CircuitNext
  <2>2. CASE \E outcome \in Outcomes : RunEnds(c, outcome)
    BY <2>0, <2>2 DEF RunEnds, CircuitNext
  <2>3. CASE Admit(c) \/ Resolve(c) \/ RunPart(c) \/ Forward(c)
    BY <2>3 DEF Admit, Resolve, RunPart, Forward
  <2>4. CASE CloseStream(c) \/ RejectEvent(c) \/ Cancel(c)
    BY <2>4 DEF CloseStream, RejectEvent, Cancel, Closed
  <2> QED  BY <1>1, <2>1, <2>2, <2>3, <2>4 DEF Handle
<1>2. ASSUME NEW c \in DOMAIN call, Display(c) PROVE UNCHANGED circuitVars
  BY <1>2 DEF Display, ReceivePart, Draw, ReceiveDone, ReceiveError, LoseStream
<1>3. ASSUME NEW p \in Pages, Leave(p) \/ Send(p) PROVE UNCHANGED circuitVars
  BY <1>3 DEF Leave, Send
<1>4. CASE \E capability \in {"available", "degraded"} : ProbeEnds(capability)
  BY <1>4 DEF ProbeEnds
<1>5. CASE ReadStatus
  BY <1>5 DEF ReadStatus
<1>6. CASE ResetElapses
  BY <1>6 DEF CircuitNext
<1>7. CASE UNCHANGED chatVars
  BY <1>7 DEF chatVars
<1> QED  BY <1>1, <1>2, <1>3, <1>4, <1>5, <1>6, <1>7 DEF ChatNext

LEMMA TurnStarts ==
  ASSUME NoQuestionYet
  PROVE  AskedInTurn
<1>1. <<>> \in Seq({}) /\ Len(<<>>) = 0
  OBVIOUS
<1> QED  BY <1>1, CallsAssumption DEF NoQuestionYet, AskedInTurn

\* Every behaviour of the conversation is one of the circuit.
THEOREM ChatUsesCircuit == ChatSpec => CircuitSpec
<1>1. ChatInit => CircuitInit
  BY DEF ChatInit
<1>2. ChatInit => AskedInTurn
  BY TurnStarts DEF ChatInit
<1> QED  BY <1>1, <1>2, QuestionsKeepTurn, ChatStepsCircuit, PTL DEF ChatSpec, CircuitSpec

\* In a conversation, too, the Agent that failed is tried by one call at a time.
THEOREM ChatProbesCorrect == ChatSpec => []OneProbeAtATime
BY ChatUsesCircuit, ProbesCorrect, PTL

-----------------------------------------------------------------------------
(* The conversation: the inductive invariant                                *)

Early == {"sent", "resolving", "probing", "chosen", "refused"}
CallRecords ==
  [server : Early \cup {"streaming", "over"}, client : {"running", "over"},
   page : Pages, visit : Nat, id : Nat, history : SUBSET Nat,
   parts : Nat, out : Nat, end : {"no", "done", "error"},
   closed : {"open", "done", "error", "cancelled"}, got : Nat, gone : BOOLEAN]
TurnRecords == [id : Nat, asked : Nat, answer : Nat \cup {NoCall}, shown : Nat,
                incomplete : BOOLEAN]
SessionRecords ==
  [visit : Nat, turns : SUBSET TurnRecords, nextId : Nat,
   status : {"idle", "sending", "failed"}, active : Nat \cup {NoCall}]

\* What is forwarded is a beginning of what the run gave; a run whose stream
\* has ended gives nothing more, so that an answer closed with "done" is whole.
CallOk(c, q, runs) ==
  /\ q.got <= q.out /\ q.out <= q.parts
  /\ q.server \in Early => c \notin runs /\ q.parts = 0 /\ q.end = "no" /\ q.closed = "open"
  /\ c \in runs => q.end = "no"
  /\ q.closed = "done" => q.end = "done" /\ q.out = q.parts
CallsInv ==
  /\ call \in Seq(CallRecords) /\ Len(call) <= MaxQuestions
  /\ running \subseteq DOMAIN call
  /\ \A c \in DOMAIN call : CallOk(c, call[c], running)

\* No two questions of one conversation have the same id.
IdsInv ==
  /\ session \in [Pages -> SessionRecords]
  /\ \A c \in DOMAIN call :
       LET s == session[call[c].page] IN
       /\ call[c].visit <= s.visit
       /\ call[c].visit = s.visit => call[c].id < s.nextId
  /\ \A c, d \in DOMAIN call :
       call[c].page = call[d].page /\ call[c].visit = call[d].visit /\ call[c].id = call[d].id
         => c = d

\* The turns of a page belong to questions of its present conversation.
Of(p, c) == c \in DOMAIN call /\ call[c].page = p /\ call[c].visit = session[p].visit
TurnOk(p, turn) ==
  /\ Of(p, turn.asked) /\ turn.id = call[turn.asked].id
  /\ turn.answer \in {NoCall, turn.asked}
  /\ turn.shown > 0 => turn.answer = turn.asked
  /\ \/ turn.incomplete
     \/ turn.asked = session[p].active
     \/ Whole(turn.asked) /\ turn.shown = call[turn.asked].parts
SessionOk(p) ==
  /\ session[p].active # NoCall => Of(p, session[p].active)
  /\ session[p].status = "sending" <=> session[p].active # NoCall
  /\ \A turn \in session[p].turns : TurnOk(p, turn)

HistoriesInv ==
  \A c \in DOMAIN call : \A h \in call[c].history :
    /\ h \in DOMAIN call /\ h # NoCall /\ Whole(h)
    /\ call[h].page = call[c].page /\ call[h].visit = call[c].visit

ChatInv == /\ CallsInv /\ IdsInv /\ HistoriesInv
           /\ \A p \in Pages : SessionOk(p)

-----------------------------------------------------------------------------
\* A question keeps who asked it and what it took along, and stays whole.
KeptCall(c) ==
  /\ call'[c].page = call[c].page /\ call'[c].visit = call[c].visit
  /\ call'[c].id = call[c].id /\ call'[c].history = call[c].history
  /\ Whole(c) => Whole(c)' /\ call'[c].parts = call[c].parts
CallsKept ==
  /\ call' \in Seq(CallRecords) /\ Len(call') = Len(call)
  /\ running' \subseteq DOMAIN call
  /\ \A c \in DOMAIN call : KeptCall(c) /\ CallOk(c, call'[c], running')

LEMMA CallDomain ==
  ASSUME ChatInv
  PROVE  /\ DOMAIN call = 1..Len(call) /\ Len(call) \in Nat
         /\ \A c \in DOMAIN call : /\ call[c] \in CallRecords /\ c \in Nat /\ c # NoCall
                                   /\ call[c].page \in Pages
<1>1. call \in Seq(CallRecords) /\ Len(call) <= MaxQuestions
  BY DEF ChatInv, CallsInv
<1>2. DOMAIN call = 1..Len(call) /\ Len(call) \in Nat
  BY <1>1
<1>3. ASSUME NEW c \in DOMAIN call
      PROVE  call[c] \in CallRecords /\ c \in Nat /\ c # NoCall /\ call[c].page \in Pages
  <2>1. call[c] \in CallRecords
    BY <1>1, <1>3, ElementOfSeq, <1>2
  <2>2. c \in 1..MaxQuestions
    BY <1>1, <1>2, CallsAssumption
  <2> QED BY <2>1, <2>2, CallsAssumption DEF CallRecords
<1> QED BY <1>2, <1>3

\* When the questions are kept, so are the sessions that do not change, and the
\* invariant is a matter of those that do.
LEMMA ChatMoves ==
  ASSUME ChatInv, CallsKept,
         session' \in [Pages -> SessionRecords],
         \A p \in Pages :
           \/ session'[p] = session[p]
           \/ /\ session'[p].visit >= session[p].visit
              /\ session'[p].visit = session[p].visit => session'[p].nextId >= session[p].nextId
              /\ SessionOk(p)'
  PROVE  ChatInv'
<1> USE CallDomain
<1>1. DOMAIN call' = DOMAIN call
  BY DEF CallsKept
<1>2. CallsInv'
  BY <1>1 DEF ChatInv, CallsInv, CallsKept
<1>3. IdsInv'
  <2>1. ASSUME NEW c \in DOMAIN call
        PROVE  LET s == session'[call'[c].page] IN
               /\ call'[c].visit <= s.visit
               /\ call'[c].visit = s.visit => call'[c].id < s.nextId
    <3>1. call[c] \in CallRecords /\ call[c].page \in Pages
      OBVIOUS
    <3> PICK p \in Pages : p = call[c].page
      BY <3>1
    <3>2. call'[c].page = p /\ call'[c].visit = call[c].visit /\ call'[c].id = call[c].id
      BY DEF CallsKept, KeptCall
    <3>3. /\ call[c].visit <= session[p].visit
          /\ call[c].visit = session[p].visit => call[c].id < session[p].nextId
      BY DEF ChatInv, IdsInv
    <3>4. /\ call[c].visit \in Nat /\ call[c].id \in Nat
          /\ session[p].visit \in Nat /\ session[p].nextId \in Nat
          /\ session'[p].visit \in Nat /\ session'[p].nextId \in Nat
      BY <3>1 DEF CallRecords, SessionRecords, ChatInv, IdsInv
    <3> QED BY <3>2, <3>3, <3>4
  <2>2. ASSUME NEW c \in DOMAIN call, NEW d \in DOMAIN call, call'[c].page = call'[d].page,
               call'[c].visit = call'[d].visit, call'[c].id = call'[d].id
        PROVE  c = d
    BY <2>2 DEF CallsKept, KeptCall, ChatInv, IdsInv
  <2> QED BY <1>1, <2>1, <2>2 DEF IdsInv
<1>4. HistoriesInv'
  <2> SUFFICES ASSUME NEW c \in DOMAIN call, NEW h \in call'[c].history
               PROVE  /\ h \in DOMAIN call /\ h # NoCall /\ Whole(h)'
                      /\ call'[h].page = call'[c].page /\ call'[h].visit = call'[c].visit
    BY <1>1 DEF HistoriesInv, Whole
  <2>1. h \in call[c].history
    BY DEF CallsKept, KeptCall
  <2>2. /\ h \in DOMAIN call /\ h # NoCall /\ Whole(h)
        /\ call[h].page = call[c].page /\ call[h].visit = call[c].visit
    BY <2>1 DEF ChatInv, HistoriesInv
  <2> QED BY <2>2 DEF CallsKept, KeptCall
<1>5. ASSUME NEW p \in Pages, session'[p] = session[p]
      PROVE  SessionOk(p)'
  <2>1. SessionOk(p)
    BY DEF ChatInv
  <2>2. \A c : Of(p, c) => Of(p, c)'
    BY <1>1, <1>5 DEF Of, CallsKept, KeptCall
  <2>3. ASSUME NEW turn \in session[p].turns
        PROVE  TurnOk(p, turn)'
    <3>1. TurnOk(p, turn)
      BY <2>1 DEF SessionOk
    <3>2. turn.asked \in DOMAIN call
      BY <3>1 DEF TurnOk, Of
    <3>3. KeptCall(turn.asked)
      BY <3>2 DEF CallsKept
    <3> QED BY <1>5, <2>2, <3>1, <3>3 DEF TurnOk, KeptCall, Whole
  <2> QED BY <1>5, <2>1, <2>2, <2>3 DEF SessionOk
<1>6. \A p \in Pages : SessionOk(p)'
  BY <1>5
<1> QED BY <1>2, <1>3, <1>4, <1>6 DEF ChatInv
\* One question is rewritten, and nothing else starts or stops running.
LEMMA OneCallKept ==
  ASSUME ChatInv, NEW c \in DOMAIN call, NEW q \in CallRecords,
         call' = [call EXCEPT ![c] = q],
         running' \subseteq running \cup {c},
         CallOk(c, q, running'),
         q.page = call[c].page, q.visit = call[c].visit, q.id = call[c].id,
         q.history = call[c].history,
         Whole(c) => q.closed = "done" /\ q.got = q.parts /\ q.parts = call[c].parts
  PROVE  CallsKept
<1>1. call \in Seq(CallRecords) /\ DOMAIN call = 1..Len(call) /\ Len(call) \in Nat
  BY CallDomain DEF ChatInv, CallsInv
<1>2. call' \in Seq(CallRecords) /\ Len(call') = Len(call)
  BY <1>1, ExceptSeq
<1>3. running' \subseteq DOMAIN call
  BY DEF ChatInv, CallsInv
<1>4. ASSUME NEW d \in DOMAIN call
      PROVE  KeptCall(d) /\ CallOk(d, call'[d], running')
  <2>1. CASE d = c
    <3>1. call'[c] = q
      OBVIOUS
    <3>2. Whole(c) => Whole(c)' /\ call'[c].parts = call[c].parts
      BY <3>1 DEF Whole
    <3> QED BY <2>1, <3>1, <3>2 DEF KeptCall
  <2>2. CASE d # c
    <3>1. call'[d] = call[d]
      BY <2>2
    <3>2. CallOk(d, call[d], running)
      BY DEF ChatInv, CallsInv
    <3>3. d \in running' => d \in running
      BY <2>2
    <3> QED BY <3>1, <3>2, <3>3 DEF KeptCall, Whole, CallOk
  <2> QED BY <2>1, <2>2
<1> QED BY <1>2, <1>3, <1>4 DEF CallsKept

\* The handler's steps and the run's: the pages do not change.
LEMMA QuestionsKept ==
  ASSUME ChatInv, CallsKept, session' = session
  PROVE  ChatInv'
BY ChatMoves DEF ChatInv, IdsInv

LEMMA HandleKeeps ==
  ASSUME ChatInv, NEW c \in DOMAIN call, Handle(c)
  PROVE  ChatInv'
<1>0. call[c] \in CallRecords
  BY CallDomain
<1>1. CallOk(c, call[c], running)
  BY DEF ChatInv, CallsInv
<1>2. CASE Admit(c) \/ Resolve(c)
  <2>1. PICK stage \in Early : call' = [call EXCEPT ![c].server = stage]
    BY <1>2 DEF Admit, Resolve, At, Refused, Early, Resolved
  <2>2. call[c].server \in Early /\ running' = running /\ session' = session
    BY <1>2 DEF Admit, Resolve, Early, circuitVars
  <2>3. PICK q : q = [call[c] EXCEPT !.server = stage]
    OBVIOUS
  <2>4. q \in CallRecords /\ call' = [call EXCEPT ![c] = q]
    BY <1>0, <2>1, <2>3 DEF CallRecords
  <2>5. CallOk(c, q, running')
    BY <1>0, <1>1, <2>1, <2>2, <2>3 DEF CallOk, CallRecords, Early
  <2>6. CallsKept
    BY <1>0, <2>2, <2>3, <2>4, <2>5, OneCallKept DEF CallRecords, Whole
  <2> QED BY <2>2, <2>6, QuestionsKept
<1>3. CASE Start(c)
  <2>1. PICK q : /\ call' = [call EXCEPT ![c] = q]
                 /\ \/ q = [call[c] EXCEPT !.server = "streaming"]
                    \/ q = [call[c] EXCEPT !.server = "streaming", !.end = "error"] /\ c \notin running'
                    \/ q = [call[c] EXCEPT !.server = "streaming", !.parts = 1, !.end = "done"] /\ c \notin running'
    <3>1. call[c].server = "chosen"
      BY <1>3 DEF Start
    <3>2. c \notin running
      BY <1>1, <3>1 DEF CallOk, Early
    <3> QED BY <1>3, <3>2 DEF Start, At, circuitVars
  <2>2. call[c].server \in Early /\ running' \subseteq running \cup {c} /\ session' = session
    BY <1>3 DEF Start, Execute, Early, circuitVars
  <2>3. q \in CallRecords
    <3>1. CASE q = [call[c] EXCEPT !.server = "streaming"]
      BY <1>0, <3>1 DEF CallRecords
    <3>2. CASE q = [call[c] EXCEPT !.server = "streaming", !.end = "error"]
      BY <1>0, <3>2 DEF CallRecords
    <3>3. CASE q = [call[c] EXCEPT !.server = "streaming", !.parts = 1, !.end = "done"]
      BY <1>0, <3>3 DEF CallRecords
    <3> QED BY <2>1, <3>1, <3>2, <3>3
  <2>4. q.server = "streaming" /\ "streaming" \notin Early
    BY <1>0, <2>1 DEF CallRecords, Early
  <2>5. /\ q.page = call[c].page /\ q.visit = call[c].visit /\ q.id = call[c].id
        /\ q.history = call[c].history /\ q.closed = call[c].closed
        /\ q.got = call[c].got /\ q.out = call[c].out /\ q.parts \in {call[c].parts, 1}
        /\ c \in running' => q.end = call[c].end
    BY <1>0, <2>1 DEF CallRecords
  <2>6. /\ call[c].got <= call[c].out /\ call[c].out <= call[c].parts
        /\ call[c].parts = 0 /\ call[c].end = "no" /\ call[c].closed = "open"
        /\ call[c].got \in Nat /\ call[c].out \in Nat
    BY <1>0, <1>1, <2>2 DEF CallOk, CallRecords
  <2>7. CallOk(c, q, running')
    BY <2>4, <2>5, <2>6 DEF CallOk
  <2>8. ~Whole(c)
    BY <2>6 DEF Whole
  <2>9. CallsKept
    BY <2>1, <2>2, <2>3, <2>5, <2>7, <2>8, OneCallKept
  <2> QED BY <2>2, <2>9, QuestionsKept
<1>4. CASE RunPart(c)
  <2>1. PICK q : q = [call[c] EXCEPT !.parts = call[c].parts + 1]
    OBVIOUS
  <2>2. call' = [call EXCEPT ![c] = q] /\ running' = running /\ session' = session /\ c \in running
    BY <1>4, <2>1 DEF RunPart, circuitVars
  <2>3. q \in CallRecords
    BY <1>0, <2>1 DEF CallRecords
  <2>4. call[c].server \notin Early /\ call[c].closed # "done"
    BY <1>1, <2>2 DEF CallOk
  <2>5. CallOk(c, q, running')
    BY <1>0, <1>1, <2>1, <2>2, <2>4 DEF CallOk, CallRecords
  <2>6. /\ q.page = call[c].page /\ q.visit = call[c].visit /\ q.id = call[c].id
        /\ q.history = call[c].history
        /\ ~Whole(c)
    BY <1>0, <2>1, <2>4 DEF CallRecords, Whole
  <2>7. CallsKept
    BY <2>2, <2>3, <2>5, <2>6, OneCallKept
  <2> QED BY <2>2, <2>7, QuestionsKept
<1>5. CASE \E outcome \in Outcomes : RunEnds(c, outcome)
  <2>1. PICK end \in {"done", "error"} : call' = [call EXCEPT ![c].end = end]
    BY <1>5 DEF RunEnds
  <2>2. running' = running \ {c} /\ session' = session /\ c \in running
    BY <1>5 DEF RunEnds, Settle
  <2>3. PICK q : q = [call[c] EXCEPT !.end = end]
    OBVIOUS
  <2>4. q \in CallRecords /\ call' = [call EXCEPT ![c] = q]
    BY <1>0, <2>1, <2>3 DEF CallRecords
  <2>5. call[c].server \notin Early /\ call[c].closed # "done"
    BY <1>1, <2>2 DEF CallOk
  <2>6. CallOk(c, q, running')
    BY <1>0, <1>1, <2>2, <2>3, <2>5 DEF CallOk, CallRecords
  <2>7. /\ q.page = call[c].page /\ q.visit = call[c].visit /\ q.id = call[c].id
        /\ q.history = call[c].history
        /\ ~Whole(c)
    BY <1>0, <2>3, <2>5 DEF CallRecords, Whole
  <2>8. CallsKept
    BY <2>2, <2>4, <2>6, <2>7, OneCallKept
  <2> QED BY <2>2, <2>8, QuestionsKept
<1>6. CASE Forward(c)
  <2>1. PICK q : q = [call[c] EXCEPT !.out = call[c].out + 1]
    OBVIOUS
  <2>2. /\ call' = [call EXCEPT ![c] = q] /\ running' = running /\ session' = session
        /\ call[c].closed = "open" /\ call[c].out < call[c].parts
    BY <1>6, <2>1 DEF Forward, Streams, circuitVars
  <2>3. q \in CallRecords
    BY <1>0, <2>1 DEF CallRecords
  <2>4. CallOk(c, q, running')
    BY <1>0, <1>1, <2>1, <2>2 DEF CallOk, CallRecords
  <2>5. /\ q.page = call[c].page /\ q.visit = call[c].visit /\ q.id = call[c].id
        /\ q.history = call[c].history
        /\ ~Whole(c)
    BY <1>0, <2>1, <2>2 DEF CallRecords, Whole
  <2>6. CallsKept
    BY <2>2, <2>3, <2>4, <2>5, OneCallKept
  <2> QED BY <2>2, <2>6, QuestionsKept
<1>7. CASE CloseStream(c) \/ RejectEvent(c) \/ Cancel(c)
  <2>1. PICK how \in {"done", "error", "cancelled"} :
          /\ call' = [call EXCEPT ![c].closed = how, ![c].server = "over"]
          /\ how = "done" => call[c].end = "done" /\ call[c].out = call[c].parts
    BY <1>7 DEF CloseStream, RejectEvent, Cancel, Closed
  <2>2. /\ running' = running /\ session' = session
        /\ call[c].closed = "open"
    BY <1>7 DEF CloseStream, RejectEvent, Cancel, Closed, Streams, circuitVars
  <2>3. PICK q : q = [call[c] EXCEPT !.closed = how, !.server = "over"]
    OBVIOUS
  <2>4. q \in CallRecords /\ call' = [call EXCEPT ![c] = q]
    BY <1>0, <2>1, <2>3 DEF CallRecords
  <2>5. CallOk(c, q, running')
    BY <1>0, <1>1, <2>1, <2>2, <2>3 DEF CallOk, CallRecords, Early
  <2>6. /\ q.page = call[c].page /\ q.visit = call[c].visit /\ q.id = call[c].id
        /\ q.history = call[c].history
        /\ ~Whole(c)
    BY <1>0, <2>2, <2>3 DEF CallRecords, Whole
  <2>7. CallsKept
    BY <2>2, <2>4, <2>5, <2>6, OneCallKept
  <2> QED BY <2>2, <2>7, QuestionsKept
<1> QED BY <1>2, <1>3, <1>4, <1>5, <1>6, <1>7 DEF Handle
\* Every question is looked at, and some are rewritten.
LEMMA RewrittenKept ==
  ASSUME ChatInv, call' = [d \in DOMAIN call |-> call'[d]], running' = running,
         \A d \in DOMAIN call :
           call'[d] \in CallRecords /\ CallOk(d, call'[d], running) /\ KeptCall(d)
  PROVE  CallsKept
<1>1. DOMAIN call = 1..Len(call) /\ Len(call) \in Nat
  BY CallDomain
<1>2. call' \in [1..Len(call) -> CallRecords]
  BY <1>1
<1>3. call' \in Seq(CallRecords)
  BY <1>1, <1>2, SeqDef
<1>4. Len(call') = Len(call)
  BY <1>1, <1>2, <1>3, LenProperties
<1> QED BY <1>3, <1>4 DEF CallsKept, ChatInv, CallsInv

\* The readiness probe ends.
LEMMA ProbeEndsKeeps ==
  ASSUME ChatInv, NEW capability, ProbeEnds(capability)
  PROVE  ChatInv'
<1>1. running' = running /\ session' = session /\ call' = [d \in DOMAIN call |-> call'[d]]
  BY DEF ProbeEnds, circuitVars
<1>2. ASSUME NEW d \in DOMAIN call
      PROVE  call'[d] \in CallRecords /\ CallOk(d, call'[d], running) /\ KeptCall(d)
  <2>0. call[d] \in CallRecords /\ CallOk(d, call[d], running)
    BY CallDomain DEF ChatInv, CallsInv
  <2>1. CASE call'[d] = call[d]
    BY <2>0, <2>1 DEF KeptCall, Whole
  <2>2. CASE call'[d] # call[d]
    <3>1. PICK stage : stage = Resolved(capability)
      OBVIOUS
    <3>2. call[d].server = "probing" /\ call'[d] = [call[d] EXCEPT !.server = stage]
      BY <2>2, <3>1 DEF ProbeEnds
    <3>3. stage \in Early /\ call[d].server \in Early
      BY <3>1, <3>2 DEF Resolved, Early
    <3>4. call'[d] \in CallRecords
      BY <2>0, <3>2, <3>3 DEF CallRecords
    <3>5. CallOk(d, call'[d], running)
      BY <2>0, <3>2, <3>3 DEF CallOk, CallRecords
    <3>6. KeptCall(d)
      BY <2>0, <3>2 DEF KeptCall, CallRecords, Whole
    <3> QED BY <3>4, <3>5, <3>6
  <2> QED BY <2>1, <2>2
<1>3. CallsKept
  BY <1>1, <1>2, RewrittenKept
<1> QED BY <1>1, <1>3, QuestionsKept

-----------------------------------------------------------------------------
(* The page                                                                 *)

\* Of the turns a page shows, only the one of its current question has that
\* question's id.
LEMMA CurrentTurn ==
  ASSUME ChatInv, NEW c \in DOMAIN call, NEW p, p = call[c].page,
         session[p].active = c, NEW turn \in session[p].turns
  PROVE  /\ turn \in TurnRecords /\ TurnOk(p, turn)
         /\ turn.id = call[c].id <=> turn.asked = c
<1>1. c # NoCall /\ p \in Pages
  BY CallDomain
<1>2. session[p] \in SessionRecords
  BY <1>1 DEF ChatInv, IdsInv
<1>3. turn \in TurnRecords
  BY <1>2 DEF SessionRecords
<1>4. SessionOk(p)
  BY <1>1 DEF ChatInv
<1>5. Of(p, c) /\ TurnOk(p, turn)
  BY <1>1, <1>4 DEF SessionOk
<1>6. Of(p, turn.asked) /\ turn.id = call[turn.asked].id
  BY <1>5 DEF TurnOk
<1>7. turn.id = call[c].id => turn.asked = c
  BY <1>5, <1>6 DEF Of, ChatInv, IdsInv
<1> QED BY <1>3, <1>5, <1>6, <1>7

\* A write into the message of the current question.
LEMMA WrittenOk ==
  ASSUME ChatInv, CallsKept, NEW c \in DOMAIN call, NEW p, p = call[c].page,
         session[p].active = c, NEW mark \in BOOLEAN,
         session'[p].visit = session[p].visit,
         session'[p].turns = Written(c, session[p].turns, mark),
         mark \/ session'[p].active = c \/ (Whole(c)' /\ call[c].got = call'[c].parts)
  PROVE  /\ session'[p].turns \subseteq TurnRecords
         /\ \A turn \in session'[p].turns : TurnOk(p, turn)'
<1>0. call[c] \in CallRecords /\ c \in Nat /\ DOMAIN call = DOMAIN call'
  BY CallDomain DEF CallsKept
<1>1. SUFFICES ASSUME NEW new \in session'[p].turns
               PROVE  new \in TurnRecords /\ TurnOk(p, new)'
  OBVIOUS
<1>2. PICK turn \in session[p].turns :
        new = IF turn.id = call[c].id
                THEN [turn EXCEPT !.shown = call[c].got, !.incomplete = mark,
                                  !.answer = IF call[c].got > 0 THEN c ELSE turn.answer]
                ELSE turn
  BY DEF Written
<1>3. turn \in TurnRecords /\ TurnOk(p, turn) /\ (turn.id = call[c].id <=> turn.asked = c)
  BY CurrentTurn
<1>4. turn.asked \in DOMAIN call
  BY <1>3 DEF TurnOk, Of
<1>5. KeptCall(turn.asked) /\ Of(p, turn.asked)'
  BY <1>0, <1>3, <1>4 DEF CallsKept, KeptCall, TurnOk, Of
<1>6. CASE turn.asked = c
  <2>1. new = [turn EXCEPT !.shown = call[c].got, !.incomplete = mark,
                           !.answer = IF call[c].got > 0 THEN c ELSE turn.answer]
    BY <1>2, <1>3, <1>6
  <2>2. call[c].got \in Nat
    BY <1>0 DEF CallRecords
  <2>3. /\ new.id = turn.id /\ new.asked = c /\ new.shown = call[c].got /\ new.incomplete = mark
        /\ new.answer = IF call[c].got > 0 THEN c ELSE turn.answer
    BY <1>3, <1>6, <2>1 DEF TurnRecords
  <2>4. new \in TurnRecords
    BY <1>0, <1>3, <2>1, <2>2 DEF TurnRecords
  <2>5. new.answer \in {NoCall, new.asked} /\ (new.shown > 0 => new.answer = new.asked)
    BY <1>3, <1>6, <2>3 DEF TurnOk
  <2>6. new.id = call'[c].id
    BY <1>3, <1>5, <1>6, <2>3 DEF TurnOk, KeptCall
  <2> QED BY <1>5, <1>6, <2>3, <2>4, <2>5, <2>6 DEF TurnOk
<1>7. CASE turn.asked # c
  <2>1. new = turn
    BY <1>2, <1>3, <1>7
  <2>2. turn.incomplete \/ (Whole(turn.asked) /\ turn.shown = call[turn.asked].parts)
    BY <1>3, <1>7 DEF TurnOk
  <2> QED BY <1>3, <1>5, <2>1, <2>2 DEF TurnOk, KeptCall
<1> QED BY <1>6, <1>7

\* A question without an answer is taken back.
LEMMA DiscardedOk ==
  ASSUME ChatInv, CallsKept, NEW c \in DOMAIN call, NEW p, p = call[c].page,
         session[p].active = c,
         session'[p].visit = session[p].visit,
         session'[p].turns = Discarded(c, session[p].turns)
  PROVE  /\ session'[p].turns \subseteq TurnRecords
         /\ \A turn \in session'[p].turns : TurnOk(p, turn)'
<1>0. DOMAIN call = DOMAIN call'
  BY CallDomain DEF CallsKept
<1>1. SUFFICES ASSUME NEW turn \in session[p].turns, turn.id # call[c].id
               PROVE  turn \in TurnRecords /\ TurnOk(p, turn)'
  BY DEF Discarded
<1>2. turn \in TurnRecords /\ TurnOk(p, turn) /\ turn.asked # c
  BY <1>1, CurrentTurn
<1>3. turn.asked \in DOMAIN call
  BY <1>2 DEF TurnOk, Of
<1>4. KeptCall(turn.asked) /\ Of(p, turn.asked)'
  BY <1>0, <1>2, <1>3 DEF CallsKept, KeptCall, TurnOk, Of
<1> QED BY <1>2, <1>4 DEF TurnOk, KeptCall
\* One page changes what it shows, within its conversation.
LEMMA OnePageMoves ==
  ASSUME ChatInv, CallsKept, NEW p \in Pages, NEW s \in SessionRecords,
         session' = [session EXCEPT ![p] = s],
         s.visit = session[p].visit, s.nextId = session[p].nextId,
         SessionOk(p)'
  PROVE  ChatInv'
<1>1. session \in [Pages -> SessionRecords]
  BY DEF ChatInv, IdsInv
<1>2. session' \in [Pages -> SessionRecords] /\ session'[p] = s
  BY <1>1
<1>3. s.visit \in Nat /\ s.nextId \in Nat
  BY DEF SessionRecords
<1>4. \A r \in Pages : r # p => session'[r] = session[r]
  BY <1>1
<1>5. /\ session'[p].visit >= session[p].visit
      /\ session'[p].nextId >= session[p].nextId
  BY <1>2, <1>3
<1> QED BY <1>2, <1>4, <1>5, ChatMoves

\* The current question is over: its message is written or taken back.
LEMMA SettledKeeps ==
  ASSUME ChatInv, CallsKept, NEW c \in DOMAIN call, NEW p, p = call[c].page,
         session[p].active = c, NEW status \in {"idle", "failed"}, NEW turns,
         Settled(p, status, turns),
         \/ turns = Written(c, session[p].turns, TRUE)
         \/ turns = Written(c, session[p].turns, FALSE) /\ Whole(c)' /\ call[c].got = call'[c].parts
         \/ turns = Discarded(c, session[p].turns)
  PROVE  ChatInv'
<1>1. p \in Pages /\ session[p] \in SessionRecords
  BY CallDomain DEF ChatInv, IdsInv
<1>2. PICK s : s = [session[p] EXCEPT !.status = status, !.active = NoCall, !.turns = turns]
  OBVIOUS
<1>3. /\ s.visit = session[p].visit /\ s.nextId = session[p].nextId
      /\ s.status = status /\ s.active = NoCall /\ s.turns = turns
  BY <1>1, <1>2 DEF SessionRecords
<1>4. session' = [session EXCEPT ![p] = s] /\ session'[p] = s
  BY <1>1, <1>2 DEF Settled, ChatInv, IdsInv
<1>5. turns \subseteq TurnRecords /\ \A turn \in turns : TurnOk(p, turn)'
  BY <1>3, <1>4, WrittenOk, DiscardedOk
<1>6. s \in SessionRecords
  BY <1>1, <1>2, <1>5 DEF SessionRecords
<1>7. SessionOk(p)'
  BY <1>3, <1>4, <1>5 DEF SessionOk
<1> QED BY <1>1, <1>3, <1>4, <1>6, <1>7, OnePageMoves

LEMMA DisplayKeeps ==
  ASSUME ChatInv, NEW c \in DOMAIN call, Display(c)
  PROVE  ChatInv'
<1>0. call[c] \in CallRecords /\ c \in Nat /\ c # NoCall /\ CallOk(c, call[c], running)
  BY CallDomain DEF ChatInv, CallsInv
<1>1. PICK p \in Pages : p = call[c].page
  BY CallDomain
<1>2. session[p].active = c /\ running' = running /\ session \in [Pages -> SessionRecords]
  BY <1>1 DEF Display, ReceivePart, Draw, ReceiveDone, ReceiveError, LoseStream, IsCurrent,
              circuitVars, ChatInv, IdsInv
<1>3. ASSUME NEW q \in CallRecords, call' = [call EXCEPT ![c] = q],
             q.page = call[c].page, q.visit = call[c].visit, q.id = call[c].id,
             q.history = call[c].history, q.parts = call[c].parts, q.out = call[c].out,
             q.server = call[c].server, q.end = call[c].end, q.closed = call[c].closed,
             q.got = call[c].got
      PROVE  CallsKept
  <2>1. CallOk(c, q, running')
    BY <1>0, <1>2, <1>3 DEF CallOk
  <2> QED BY <1>2, <1>3, <2>1, OneCallKept DEF Whole
<1>4. CASE ReceivePart(c)
  <2>1. PICK q : q = [call[c] EXCEPT !.got = call[c].got + 1]
    OBVIOUS
  <2>2. /\ call' = [call EXCEPT ![c] = q] /\ session' = session
        /\ call[c].got < call[c].out
    BY <1>4, <2>1 DEF ReceivePart
  <2>3. q \in CallRecords
    BY <1>0, <2>1 DEF CallRecords
  <2>4. CallOk(c, q, running')
    BY <1>0, <1>2, <2>1, <2>2 DEF CallOk, CallRecords, Early
  <2>5. /\ q.page = call[c].page /\ q.visit = call[c].visit /\ q.id = call[c].id
        /\ q.history = call[c].history
        /\ ~Whole(c)
    BY <1>0, <2>1, <2>2 DEF CallRecords, CallOk, Whole
  <2>6. CallsKept
    BY <1>2, <2>2, <2>3, <2>4, <2>5, OneCallKept
  <2> QED BY <2>2, <2>6, QuestionsKept
<1>5. CASE Draw(c)
  <2>1. PICK turns : turns = Written(c, session[p].turns, FALSE)
    OBVIOUS
  <2>2. PICK s : s = [session[p] EXCEPT !.turns = turns]
    OBVIOUS
  <2>3. session' = [session EXCEPT ![p] = s] /\ session'[p] = s /\ call' = call
    BY <1>1, <1>2, <1>5, <2>1, <2>2 DEF Draw
  <2>4. session[p] \in SessionRecords
    BY <1>2
  <2>5. /\ s.visit = session[p].visit /\ s.nextId = session[p].nextId
        /\ s.status = session[p].status /\ s.active = session[p].active /\ s.turns = turns
    BY <2>2, <2>4 DEF SessionRecords
  <2>6. CallsKept
    <3>1. \A d \in DOMAIN call : KeptCall(d)
      BY <2>3 DEF KeptCall, Whole
    <3> QED BY <1>2, <2>3, <3>1 DEF CallsKept, ChatInv, CallsInv
  <2>7. turns \subseteq TurnRecords /\ \A turn \in turns : TurnOk(p, turn)'
    BY <1>1, <1>2, <2>1, <2>3, <2>5, <2>6, WrittenOk
  <2>8. s \in SessionRecords
    BY <2>2, <2>4, <2>7 DEF SessionRecords
  <2>9. SessionOk(p)'
    <3>1. SessionOk(p)
      BY DEF ChatInv
    <3> QED BY <2>3, <2>5, <2>7, <3>1 DEF SessionOk, Of
  <2> QED BY <2>3, <2>5, <2>6, <2>8, <2>9, OnePageMoves
<1>6. CASE ReceiveDone(c)
  <2>1. PICK q : q = [call[c] EXCEPT !.client = "over"]
    OBVIOUS
  <2>2. q \in CallRecords /\ call' = [call EXCEPT ![c] = q] /\ call'[c] = q
    BY <1>0, <1>6, <2>1 DEF CallRecords, ReceiveDone
  <2>3. CallsKept
    BY <1>0, <1>3, <2>1, <2>2 DEF CallRecords
  <2>4. /\ q.closed = "done" /\ q.got = call[c].got /\ q.parts = call[c].parts
        /\ call[c].got = call[c].parts
    BY <1>0, <1>6, <2>1 DEF ReceiveDone, CallOk, CallRecords
  <2>5. Whole(c)' /\ call[c].got = call'[c].parts
    BY <2>2, <2>4 DEF Whole
  <2> QED BY <1>1, <1>2, <1>6, <2>3, <2>5, SettledKeeps DEF ReceiveDone
<1>7. CASE ReceiveError(c) \/ LoseStream(c)
  <2>1. PICK q : q \in {[call[c] EXCEPT !.client = "over"],
                        [call[c] EXCEPT !.client = "over", !.gone = TRUE]}
                 /\ call' = [call EXCEPT ![c] = q]
    BY <1>7 DEF ReceiveError, LoseStream
  <2>2. q \in CallRecords
    BY <1>0, <2>1 DEF CallRecords
  <2>3. CallsKept
    BY <1>0, <1>3, <2>1, <2>2 DEF CallRecords
  <2>4. PICK heard \in BOOLEAN : Failed(c, heard)
    BY <1>0, <1>7 DEF ReceiveError, LoseStream, CallRecords
  <2>5. PICK turns : /\ Settled(p, "failed", turns)
                     /\ \/ turns = Written(c, session[p].turns, TRUE)
                        \/ turns = Discarded(c, session[p].turns)
    BY <1>1, <2>4 DEF Failed
  <2> QED BY <1>1, <1>2, <2>3, <2>5, SettledKeeps
<1> QED BY <1>4, <1>5, <1>6, <1>7 DEF Display
\* Leaving a page starts a conversation of its own.
LEMMA LeaveKeeps ==
  ASSUME ChatInv, NEW p \in Pages, Leave(p)
  PROVE  ChatInv'
<1>1. /\ running' = running /\ call' = [d \in DOMAIN call |-> call'[d]]
      /\ session \in [Pages -> SessionRecords]
  BY DEF Leave, circuitVars, ChatInv, IdsInv
<1>2. ASSUME NEW d \in DOMAIN call
      PROVE  call'[d] \in CallRecords /\ CallOk(d, call'[d], running) /\ KeptCall(d)
  <2>0. call[d] \in CallRecords /\ CallOk(d, call[d], running)
    BY CallDomain DEF ChatInv, CallsInv
  <2>1. CASE call'[d] = call[d]
    BY <2>0, <2>1 DEF KeptCall, Whole
  <2>2. CASE call'[d] # call[d]
    <3>1. call'[d] = [call[d] EXCEPT !.client = "over", !.gone = TRUE]
      BY <2>2 DEF Leave
    <3>2. call'[d] \in CallRecords
      BY <2>0, <3>1 DEF CallRecords
    <3>3. CallOk(d, call'[d], running)
      BY <2>0, <3>1 DEF CallOk, CallRecords
    <3>4. KeptCall(d)
      BY <2>0, <3>1 DEF KeptCall, CallRecords, Whole
    <3> QED BY <3>2, <3>3, <3>4
  <2> QED BY <2>1, <2>2
<1>3. CallsKept
  BY <1>1, <1>2, RewrittenKept
<1>4. PICK s : s = NewSession(session[p].visit + 1)
  OBVIOUS
<1>5. session' = [session EXCEPT ![p] = s] /\ session'[p] = s
  BY <1>1, <1>4 DEF Leave
<1>6. session[p].visit \in Nat
  BY <1>1 DEF SessionRecords
<1>7. /\ s \in SessionRecords /\ s.visit = session[p].visit + 1
      /\ s.active = NoCall /\ s.status = "idle" /\ s.turns = {}
  BY <1>4, <1>6 DEF NewSession, SessionRecords
<1>8. SessionOk(p)'
  BY <1>5, <1>7 DEF SessionOk
<1>9. session'[p].visit > session[p].visit /\ session'[p].visit # session[p].visit
  BY <1>5, <1>6, <1>7
<1>10. session' \in [Pages -> SessionRecords] /\ \A r \in Pages : r # p => session'[r] = session[r]
  BY <1>1, <1>5, <1>7
<1>11. session'[p].visit >= session[p].visit
  BY <1>5, <1>6, <1>7
<1>12. \A r \in Pages :
         \/ session'[r] = session[r]
         \/ /\ session'[r].visit >= session[r].visit
            /\ session'[r].visit = session[r].visit => session'[r].nextId >= session[r].nextId
            /\ SessionOk(r)'
  BY <1>8, <1>9, <1>10, <1>11
<1> QED BY <1>3, <1>10, <1>12, ChatMoves

\* What a new question takes along is whole, and of the conversation it is in.
LEMMA TakesWhole ==
  ASSUME ChatInv, NEW p \in Pages, session[p].active = NoCall, NEW first,
         NEW h \in LatestAnswers(session[p].turns, first)
  PROVE  Of(p, h) /\ h # NoCall /\ Whole(h)
<1>1. PICK turn \in session[p].turns : ~turn.incomplete /\ turn.shown > 0 /\ h = turn.answer
  BY DEF LatestAnswers, CompleteTurns
<1>2. TurnOk(p, turn)
  BY DEF ChatInv, SessionOk
<1>3. h = turn.asked /\ Of(p, h)
  BY <1>1, <1>2 DEF TurnOk
<1>4. h # NoCall
  BY <1>3, CallDomain DEF Of
<1> QED BY <1>1, <1>2, <1>3, <1>4 DEF TurnOk

LEMMA SendKeeps ==
  ASSUME ChatInv, NEW p \in Pages, Send(p)
  PROVE  ChatInv'
<1>0. /\ call \in Seq(CallRecords) /\ DOMAIN call = 1..Len(call) /\ Len(call) \in Nat
      /\ session \in [Pages -> SessionRecords] /\ session[p] \in SessionRecords
      /\ running \subseteq DOMAIN call /\ SessionOk(p)
  BY CallDomain DEF ChatInv, CallsInv, IdsInv
<1>1. PICK c \in Nat : c = Len(call) + 1
  BY <1>0
<1>2. PICK H : /\ H \subseteq {h \in DOMAIN call : /\ h # NoCall /\ Whole(h) /\ Of(p, h)}
               /\ call' = Append(call, Question(p, H))
  <2>1. session[p].active = NoCall
    BY <1>0 DEF Send, SessionOk
  <2>2. PICK first : call' = Append(call, Question(p, LatestAnswers(session[p].turns, first)))
    BY DEF Send
  <2>3. LatestAnswers(session[p].turns, first)
          \subseteq {h \in DOMAIN call : /\ h # NoCall /\ Whole(h) /\ Of(p, h)}
    BY <2>1, TakesWhole DEF Of
  <2> QED BY <2>2, <2>3
<1>3. PICK q : q = Question(p, H)
  OBVIOUS
<1>4. /\ q.server = "sent" /\ q.page = p /\ q.visit = session[p].visit /\ q.id = session[p].nextId
      /\ q.history = H /\ q.parts = 0 /\ q.out = 0 /\ q.got = 0 /\ q.end = "no" /\ q.closed = "open"
  BY <1>3 DEF Question
<1>5. q \in CallRecords
  <2>1. H \in SUBSET Nat
    BY <1>0, <1>2
  <2>2. session[p].visit \in Nat /\ session[p].nextId \in Nat
    BY <1>0 DEF SessionRecords
  <2> QED BY <1>3, <2>1, <2>2 DEF Question, CallRecords, Early
<1>6. /\ call' \in Seq(CallRecords) /\ Len(call') = c /\ DOMAIN call' = DOMAIN call \cup {c}
      /\ call'[c] = q /\ c \notin DOMAIN call /\ \A d \in DOMAIN call : call'[d] = call[d]
  BY <1>0, <1>1, <1>2, <1>3, <1>5, AppendProperties
<1>7. running' = running /\ c <= MaxQuestions /\ c # NoCall
  <2>1. running' = running /\ c <= MaxQuestions
    BY <1>1 DEF Send, circuitVars
  <2>2. c \in 1..MaxQuestions
    BY <1>0, <1>1, <2>1, CallsAssumption
  <2> QED BY <2>1, <2>2, CallsAssumption
<1>8. PICK turn : turn = [id |-> session[p].nextId, asked |-> c, answer |-> NoCall, shown |-> 0,
                          incomplete |-> FALSE]
  OBVIOUS
<1>9. PICK s : s = [session[p] EXCEPT !.turns = session[p].turns \cup {turn},
                                      !.nextId = session[p].nextId + 1,
                                      !.status = "sending", !.active = c]
  OBVIOUS
<1>10. session' = [session EXCEPT ![p] = s] /\ session'[p] = s
  BY <1>0, <1>1, <1>8, <1>9 DEF Send
<1>11. /\ s.visit = session[p].visit /\ s.nextId = session[p].nextId + 1 /\ s.status = "sending"
       /\ s.active = c /\ s.turns = session[p].turns \cup {turn}
  BY <1>0, <1>9 DEF SessionRecords
<1>12. session[p].visit \in Nat /\ session[p].nextId \in Nat /\ turn \in TurnRecords
  BY <1>0, <1>8 DEF SessionRecords, TurnRecords
<1>13. s \in SessionRecords
  <2>1. session[p].turns \cup {turn} \in SUBSET TurnRecords
    BY <1>0, <1>12 DEF SessionRecords
  <2>2. PICK turns : turns = session[p].turns \cup {turn}
    OBVIOUS
  <2>3. PICK next \in Nat : next = session[p].nextId + 1
    BY <1>12
  <2>4. s = [session[p] EXCEPT !.turns = turns, !.nextId = next, !.status = "sending", !.active = c]
    BY <1>9, <2>2, <2>3
  <2>5. session[p] \in SessionRecords /\ turns \in SUBSET TurnRecords /\ c \in Nat
    BY <1>0, <2>1, <2>2
  <2> HIDE <2>1
  <2> QED BY <2>4, <2>5 DEF SessionRecords
<1>14. session' \in [Pages -> SessionRecords] /\ \A r \in Pages : r # p => session'[r] = session[r]
  BY <1>0, <1>10, <1>13
<1>15. CallsInv'
  <2>1. CallOk(c, q, running)
    BY <1>0, <1>4, <1>6 DEF CallOk
  <2>2. \A d \in DOMAIN call : CallOk(d, call[d], running)
    BY DEF ChatInv, CallsInv
  <2> QED BY <1>0, <1>6, <1>7, <2>1, <2>2 DEF CallsInv
<1>16. IdsInv'
  <2>1. ASSUME NEW d \in DOMAIN call
        PROVE  LET t == session'[call[d].page] IN
               /\ call[d].visit <= t.visit
               /\ call[d].visit = t.visit => call[d].id < t.nextId
    <3>1. call[d] \in CallRecords /\ call[d].page \in Pages
      BY CallDomain
    <3>2. /\ call[d].visit <= session[call[d].page].visit
          /\ call[d].visit = session[call[d].page].visit => call[d].id < session[call[d].page].nextId
      BY DEF ChatInv, IdsInv
    <3>3. CASE call[d].page # p
      BY <1>14, <3>1, <3>2, <3>3
    <3>4. CASE call[d].page = p
      BY <1>10, <1>11, <1>12, <3>1, <3>2, <3>4 DEF CallRecords
    <3> QED BY <3>3, <3>4
  <2>2. q.visit <= session'[p].visit /\ q.id < session'[p].nextId
    BY <1>4, <1>10, <1>11, <1>12
  <2>3. \A d \in DOMAIN call : ~(call[d].page = p /\ call[d].visit = q.visit /\ call[d].id = q.id)
    BY <1>4, <1>12 DEF ChatInv, IdsInv
  <2>4. ASSUME NEW d \in DOMAIN call', NEW e \in DOMAIN call', call'[d].page = call'[e].page,
               call'[d].visit = call'[e].visit, call'[d].id = call'[e].id
        PROVE  d = e
    <3>1. CASE d \in DOMAIN call /\ e \in DOMAIN call
      BY <1>6, <2>4, <3>1 DEF ChatInv, IdsInv
    <3>2. CASE d = c \/ e = c
      BY <1>4, <1>6, <2>3, <2>4, <3>2
    <3> QED BY <1>6, <3>1, <3>2
  <2>5. ASSUME NEW d \in DOMAIN call'
        PROVE  LET t == session'[call'[d].page] IN
               /\ call'[d].visit <= t.visit
               /\ call'[d].visit = t.visit => call'[d].id < t.nextId
    BY <1>4, <1>6, <2>1, <2>2
  <2> QED BY <1>14, <2>4, <2>5 DEF IdsInv
<1>17. HistoriesInv'
  <2>1. \A d \in DOMAIN call' : \A h \in call'[d].history :
          /\ h \in DOMAIN call /\ h # NoCall /\ Whole(h)
          /\ call[h].page = call'[d].page /\ call[h].visit = call'[d].visit
    BY <1>2, <1>4, <1>6 DEF ChatInv, HistoriesInv, Of
  <2>2. \A h \in DOMAIN call : Whole(h) => Whole(h)'
    BY <1>6 DEF Whole
  <2> QED BY <1>6, <2>1, <2>2 DEF HistoriesInv
<1>18. ASSUME NEW r \in Pages, NEW old \in session[r].turns, r # p \/ session[p].active = NoCall
       PROVE  TurnOk(r, old)'
  <2>1. TurnOk(r, old)
    BY DEF ChatInv, SessionOk
  <2>2. old.asked \in DOMAIN call /\ old.asked # NoCall
    BY <2>1, CallDomain DEF TurnOk, Of
  <2>3. session'[r].visit = session[r].visit
    BY <1>10, <1>11, <1>14
  <2>4. old.asked = session[r].active => r # p /\ session'[r].active = session[r].active
    BY <1>14, <1>18, <2>2
  <2> QED BY <1>6, <2>1, <2>2, <2>3, <2>4 DEF TurnOk, Of, Whole
<1>19. ASSUME NEW r \in Pages PROVE SessionOk(r)'
  <2>0. SessionOk(r)
    BY DEF ChatInv
  <2>1. CASE r # p
    <3>1. session'[r] = session[r]
      BY <1>14, <2>1
    <3>2. \A d : Of(r, d) => Of(r, d)'
      BY <1>6, <3>1 DEF Of
    <3>3. \A old \in session[r].turns : TurnOk(r, old)'
      BY <1>18, <2>1
    <3> QED BY <2>0, <3>1, <3>2, <3>3 DEF SessionOk
  <2>2. CASE r = p
    <3>1. session[p].active = NoCall
      BY <1>0 DEF Send, SessionOk
    <3>2. Of(p, c)'
      BY <1>4, <1>6, <1>10, <1>11 DEF Of
    <3>3. TurnOk(p, turn)'
      BY <1>4, <1>6, <1>8, <1>10, <1>11, <3>2 DEF TurnOk
    <3> QED BY <1>7, <1>10, <1>11, <1>18, <2>2, <3>1, <3>2, <3>3 DEF SessionOk, Of
  <2> QED BY <2>1, <2>2
<1> QED BY <1>15, <1>16, <1>17, <1>19 DEF ChatInv

-----------------------------------------------------------------------------
\* Before the first question nothing runs for the conversation.
LEMMA FreshChat ==
  ASSUME NoQuestionYet, running = {}
  PROVE  ChatInv
<1>1. call = <<>> /\ running = {} /\ session = [p \in Pages |-> NewSession(1)]
  BY DEF NoQuestionYet
<1>2. call \in Seq(CallRecords) /\ Len(call) = 0 /\ DOMAIN call = {}
  BY <1>1
<1>3. CallsInv /\ HistoriesInv
  BY <1>1, <1>2, CallsAssumption DEF CallsInv, HistoriesInv
<1>4. NewSession(1) \in SessionRecords
  BY DEF NewSession, SessionRecords
<1>5. IdsInv
  BY <1>1, <1>2, <1>4 DEF IdsInv
<1>6. \A p \in Pages : SessionOk(p)
  BY <1>1 DEF SessionOk, NewSession
<1> QED BY <1>3, <1>5, <1>6 DEF ChatInv

LEMMA ChatKept ==
  ASSUME ChatInv, [ChatNext]_chatVars
  PROVE  ChatInv'
<1>1. CASE \E p \in Pages : Leave(p) \/ Send(p)
  BY <1>1, LeaveKeeps, SendKeeps
<1>2. CASE \E c \in DOMAIN call : Handle(c) \/ Display(c)
  BY <1>2, HandleKeeps, DisplayKeeps
<1>3. CASE \E capability \in {"available", "degraded"} : ProbeEnds(capability)
  BY <1>3, ProbeEndsKeeps
<1>4. CASE call' = call /\ session' = session /\ running' = running
  <2>1. CallsKept
    BY <1>4 DEF ChatInv, CallsInv, CallsKept, KeptCall, Whole
  <2> QED BY <1>4, <2>1, QuestionsKept
<1>5. CASE ReadStatus
  BY <1>4, <1>5 DEF ReadStatus, circuitVars
<1>6. CASE ResetElapses /\ UNCHANGED <<session, call, readiness, attempts>>
  BY <1>4, <1>6 DEF ResetElapses
<1>7. CASE UNCHANGED chatVars
  BY <1>4, <1>7 DEF chatVars, circuitVars
<1> QED BY <1>1, <1>2, <1>3, <1>5, <1>6, <1>7 DEF ChatNext

\* Whoever answers, breaks off or leaves, each answer that is shown stays with
\* its question.
THEOREM ChatInvariant == ChatSpec => []ChatInv
<1>1. ChatInit => ChatInv
  BY FreshChat DEF ChatInit, CircuitInit
<1>2. ChatInv /\ [ChatNext]_chatVars => ChatInv'
  BY ChatKept
<1> QED BY <1>1, <1>2, PTL DEF ChatSpec

\* No late part of an answer that was cancelled, timed out or left behind is
\* shown as, or taken along into, another conversation's answer.
THEOREM AnswersAreTheirQuestions == ChatSpec => []AnswersAreWholeAndOwn
<1>1. ChatInv => AnswersAreWholeAndOwn
  BY DEF ChatInv, HistoriesInv, SessionOk, TurnOk, AnswersAreWholeAndOwn
<1> QED BY <1>1, ChatInvariant, PTL

-----------------------------------------------------------------------------
(* The conversation that starts on a circuit which earlier calls have used,  *)
(* beside the slot of the Agent                                              *)

Readiness == [cache : {"none", "available", "degraded"}, failures : 0..failureThreshold,
              inFlight : BOOLEAN, halfOpen : BOOLEAN]

\* Within the bounds of the model.
BoundsInv ==
  /\ \A p \in Pages : /\ session[p].visit \in 1..MaxVisits
                      /\ \A turn \in session[p].turns : turn.shown \in Parts
  /\ \A c \in DOMAIN call : call[c].parts \in Parts
  /\ readiness \in Readiness
  /\ attempts \in 0..MaximumAttempts

\* The circuit alone, or a conversation whose questions are all the circuit runs.
AssistantInv ==
  /\ CircuitInv /\ AskedInTurn /\ BoundsInv
  /\ NoQuestionYet \/ ChatInv

\* What a page has got of an answer is a part of it.
LEMMA GotIsPart ==
  ASSUME ChatInv, BoundsInv, NEW c \in DOMAIN call
  PROVE  call[c].got \in Parts
<1>1. call[c] \in CallRecords /\ CallOk(c, call[c], running) /\ call[c].parts \in Parts
  BY CallDomain DEF ChatInv, CallsInv, BoundsInv
<1>2. /\ call[c].got \in Nat /\ call[c].out \in Nat /\ call[c].parts \in Nat
      /\ call[c].got <= call[c].out /\ call[c].out <= call[c].parts
  BY <1>1 DEF CallRecords, CallOk
<1> QED BY <1>1, <1>2, BoundsAssumption DEF Parts

\* Steps that move no page.
LEMMA CallsBounded ==
  ASSUME BoundsInv, UNCHANGED session, readiness' \in Readiness,
         attempts' \in 0..MaximumAttempts,
         \A c \in DOMAIN call' : call'[c].parts \in Parts
  PROVE  BoundsInv'
BY DEF BoundsInv

LEMMA HandleBounded ==
  ASSUME ChatInv, BoundsInv, NEW c \in DOMAIN call, Handle(c)
  PROVE  BoundsInv'
<1>0. call[c] \in CallRecords /\ call[c].parts \in Parts /\ readiness \in Readiness
      /\ attempts \in 0..MaximumAttempts /\ 1 \in 0..MaximumAttempts /\ 1 \in Parts
  BY CallDomain, BoundsAssumption DEF BoundsInv, Parts
<1>1. ASSUME NEW q, call' = [call EXCEPT ![c] = q], q.parts \in Parts
      PROVE  \A d \in DOMAIN call' : call'[d].parts \in Parts
  BY <1>1 DEF BoundsInv
<1>2. ASSUME NEW stage, At(c, stage) PROVE \A d \in DOMAIN call' : call'[d].parts \in Parts
  <2>1. PICK q : q = [call[c] EXCEPT !.server = stage]
    OBVIOUS
  <2>2. call' = [call EXCEPT ![c] = q] /\ q.parts = call[c].parts
    BY <1>0, <1>2, <2>1 DEF At, CallRecords
  <2> QED BY <1>0, <1>1, <2>2
<1>3. CASE Admit(c)
  <2>1. attempts' \in 0..MaximumAttempts
    BY <1>0, <1>3, BoundsAssumption DEF Admit, Consume
  <2>2. At(c, "resolving") \/ At(c, "refused")
    BY <1>3 DEF Admit, Refused, At
  <2> QED BY <1>0, <1>2, <1>3, <2>1, <2>2, CallsBounded DEF Admit
<1>4. CASE Resolve(c)
  <2>1. readiness' \in Readiness
    BY <1>0, <1>4 DEF Resolve, StartedProbe, IsOpen, Readiness
  <2>2. \E stage \in {"refused", "chosen", "probing"} : At(c, stage)
    BY <1>4 DEF Resolve, Resolved, Refused, At
  <2> QED BY <1>0, <1>2, <1>4, <2>1, <2>2, CallsBounded DEF Resolve
<1>5. CASE Start(c)
  <2>1. PICK q : call' = [call EXCEPT ![c] = q] /\ q.parts \in {call[c].parts, 1}
    BY <1>0, <1>5 DEF Start, At, CallRecords
  <2> QED BY <1>0, <1>1, <1>5, <2>1, CallsBounded DEF Start
<1>6. CASE RunPart(c)
  <2>1. call[c].parts + 1 \in Parts
    BY <1>0, <1>6, BoundsAssumption DEF RunPart, Parts
  <2>2. PICK q : q = [call[c] EXCEPT !.parts = call[c].parts + 1]
    OBVIOUS
  <2>3. call' = [call EXCEPT ![c] = q] /\ q.parts = call[c].parts + 1
    BY <1>0, <1>6, <2>2 DEF RunPart, CallRecords
  <2> QED BY <1>0, <1>1, <1>6, <2>1, <2>3, CallsBounded DEF RunPart
<1>7. CASE \E outcome \in Outcomes : RunEnds(c, outcome)
  <2>0. PICK outcome \in Outcomes : RunEnds(c, outcome)
    BY <1>7
  <2>1. PICK q : q = [call[c] EXCEPT !.end = IF outcome = "success" THEN "done" ELSE "error"]
    OBVIOUS
  <2>2. call' = [call EXCEPT ![c] = q] /\ UNCHANGED <<session, readiness, attempts>>
    BY <2>0, <2>1 DEF RunEnds
  <2>3. q.parts = call[c].parts
    BY <1>0, <2>1 DEF CallRecords
  <2> QED BY <1>0, <1>1, <2>2, <2>3, CallsBounded
<1>8. CASE Forward(c) \/ CloseStream(c) \/ RejectEvent(c) \/ Cancel(c)
  <2>1. PICK q : call' = [call EXCEPT ![c] = q] /\ q.parts = call[c].parts
    BY <1>0, <1>8 DEF Forward, CloseStream, RejectEvent, Cancel, Closed, CallRecords
  <2>2. UNCHANGED <<session, readiness, attempts>>
    BY <1>8 DEF Forward, CloseStream, RejectEvent, Cancel, Closed
  <2> QED BY <1>0, <1>1, <2>1, <2>2, CallsBounded
<1> QED BY <1>3, <1>4, <1>5, <1>6, <1>7, <1>8 DEF Handle

\* Steps of one page: what it shows of its answer is what it has got.
LEMMA DisplayBounded ==
  ASSUME ChatInv, BoundsInv, NEW c \in DOMAIN call, Display(c)
  PROVE  BoundsInv'
<1>0. call[c] \in CallRecords /\ call[c].page \in Pages /\ call[c].got \in Parts
      /\ session \in [Pages -> SessionRecords]
  BY CallDomain, GotIsPart DEF ChatInv, IdsInv
<1>1. UNCHANGED <<readiness, attempts>>
  BY DEF Display, ReceivePart, Draw, ReceiveDone, ReceiveError, LoseStream
<1>2. \A d \in DOMAIN call' : call'[d].parts \in Parts
  <2>1. CASE Draw(c)
    BY <2>1 DEF Draw, BoundsInv
  <2>2. CASE ~Draw(c)
    <3>1. CASE call' = [call EXCEPT ![c].got = @ + 1]
      BY <1>0, <3>1 DEF BoundsInv, CallRecords
    <3>2. CASE call' = [call EXCEPT ![c].client = "over"]
      BY <1>0, <3>2 DEF BoundsInv, CallRecords
    <3>3. CASE call' = [call EXCEPT ![c].client = "over", ![c].gone = TRUE]
      BY <1>0, <3>3 DEF BoundsInv, CallRecords
    <3> QED BY <2>2, <3>1, <3>2, <3>3 DEF Display, ReceivePart, ReceiveDone, ReceiveError, LoseStream
  <2> QED BY <2>1, <2>2
<1>3. PICK p \in Pages : p = call[c].page
  BY <1>0
<1>4. \A turn \in session[p].turns : turn \in TurnRecords /\ turn.shown \in Parts
  BY <1>0 DEF BoundsInv, SessionRecords
<1>5. ASSUME NEW mark \in BOOLEAN, NEW turn \in Written(c, session[p].turns, mark)
      PROVE  turn.shown \in Parts
  BY <1>0, <1>4, <1>5 DEF Written, TurnRecords
<1>6. \A turn \in Discarded(c, session[p].turns) : turn.shown \in Parts
  BY <1>4 DEF Discarded
<1>7. ASSUME NEW s, session' = [session EXCEPT ![p] = s], s.visit = session[p].visit,
             \A turn \in s.turns : turn.shown \in Parts
      PROVE  BoundsInv'
  BY <1>0, <1>1, <1>2, <1>7 DEF BoundsInv
<1>8. CASE ReceivePart(c)
  BY <1>1, <1>2, <1>8 DEF ReceivePart, BoundsInv
<1>9. CASE Draw(c)
  <2>1. PICK s : s = [session[p] EXCEPT !.turns = Written(c, session[p].turns, FALSE)]
    OBVIOUS
  <2>2. session' = [session EXCEPT ![p] = s]
    BY <1>3, <1>9, <2>1 DEF Draw
  <2>3. s.visit = session[p].visit /\ s.turns = Written(c, session[p].turns, FALSE)
    BY <1>0, <2>1 DEF SessionRecords
  <2> QED BY <1>5, <1>7, <2>2, <2>3
<1>10. ASSUME NEW status, NEW turns, Settled(p, status, turns),
              \A turn \in turns : turn.shown \in Parts
       PROVE  BoundsInv'
  <2>1. PICK s : s = [session[p] EXCEPT !.status = status, !.active = NoCall, !.turns = turns]
    OBVIOUS
  <2>2. session' = [session EXCEPT ![p] = s]
    BY <1>0, <1>10, <2>1 DEF Settled
  <2>3. s.visit = session[p].visit /\ s.turns = turns
    BY <1>0, <2>1 DEF SessionRecords
  <2> QED BY <1>7, <1>10, <2>2, <2>3
<1>11. CASE ReceiveDone(c)
  BY <1>3, <1>5, <1>10, <1>11 DEF ReceiveDone
<1>12. ASSUME NEW heard, Failed(c, heard) PROVE BoundsInv'
  <2>1. PICK turns \in {Written(c, session[p].turns, TRUE), Discarded(c, session[p].turns)} :
          Settled(p, "failed", turns)
    BY <1>3, <1>12 DEF Failed
  <2> QED BY <1>5, <1>6, <1>10, <2>1
<1>13. CASE ReceiveError(c) \/ LoseStream(c)
  BY <1>12, <1>13 DEF ReceiveError, LoseStream
<1> QED BY <1>8, <1>9, <1>11, <1>13 DEF Display

LEMMA PageBounded ==
  ASSUME ChatInv, BoundsInv, NEW p \in Pages, Leave(p) \/ Send(p)
  PROVE  BoundsInv'
<1>0. call \in Seq(CallRecords) /\ session \in [Pages -> SessionRecords]
      /\ session[p].visit \in 1..MaxVisits
  BY DEF ChatInv, CallsInv, IdsInv, BoundsInv
<1>1. UNCHANGED <<readiness, attempts>>
  BY DEF Leave, Send
<1>2. ASSUME NEW s, session' = [session EXCEPT ![p] = s], s.visit \in 1..MaxVisits,
             \A turn \in s.turns : turn.shown \in Parts,
             \A c \in DOMAIN call' : call'[c].parts \in Parts
      PROVE  BoundsInv'
  BY <1>0, <1>1, <1>2 DEF BoundsInv
<1>3. CASE Leave(p)
  <2>1. PICK s : s = NewSession(session[p].visit + 1)
    OBVIOUS
  <2>2. s.visit = session[p].visit + 1 /\ s.turns = {}
    BY <2>1 DEF NewSession
  <2>4. MaxVisits \in Nat /\ session[p].visit < MaxVisits
    BY <1>3, BoundsAssumption DEF Leave
  <2>5. s.visit \in 1..MaxVisits
    BY <1>0, <2>2, <2>4
  <2>3. \A c \in DOMAIN call' : call'[c].parts = call[c].parts /\ c \in DOMAIN call
    BY <1>3, CallDomain DEF Leave, CallRecords
  <2>6. \A c \in DOMAIN call' : call'[c].parts \in Parts
    BY <2>3 DEF BoundsInv
  <2> QED BY <1>2, <1>3, <2>1, <2>2, <2>5, <2>6 DEF Leave
<1>4. CASE Send(p)
  <2>1. PICK q, s, new :
          /\ call' = Append(call, q) /\ q.parts = 0
          /\ session' = [session EXCEPT ![p] = s] /\ s.visit = session[p].visit
          /\ s.turns = session[p].turns \cup {new} /\ new.shown = 0
    <3>1. PICK H : call' = Append(call, Question(p, H))
      BY <1>4 DEF Send
    <3>2. Question(p, H).parts = 0
      BY DEF Question
    <3>3. PICK new : new = [id |-> session[p].nextId, asked |-> Len(call) + 1,
                            answer |-> NoCall, shown |-> 0, incomplete |-> FALSE]
      OBVIOUS
    <3>4. PICK s : s = [session[p] EXCEPT !.turns = session[p].turns \cup {new},
                          !.nextId = session[p].nextId + 1, !.status = "sending",
                          !.active = Len(call) + 1]
      OBVIOUS
    <3>5. session' = [session EXCEPT ![p] = s]
      BY <1>0, <1>4, <3>3, <3>4 DEF Send
    <3>6. s.visit = session[p].visit /\ s.turns = session[p].turns \cup {new} /\ new.shown = 0
      BY <1>0, <3>3, <3>4 DEF SessionRecords
    <3> QED BY <3>1, <3>2, <3>5, <3>6
  <2>2. 0 \in Parts
    BY BoundsAssumption DEF Parts
  <2>3. \A c \in DOMAIN call' : \/ c \in DOMAIN call /\ call'[c] = call[c]
                               \/ call'[c] = q
    BY <1>0, <2>1
  <2>4. \A c \in DOMAIN call' : call'[c].parts \in Parts
    BY <2>1, <2>2, <2>3 DEF BoundsInv
  <2>5. \A turn \in s.turns : turn.shown \in Parts
    BY <2>1, <2>2 DEF BoundsInv
  <2> QED BY <1>0, <1>2, <2>1, <2>4, <2>5
<1> QED BY <1>3, <1>4

LEMMA ReadinessBounded ==
  ASSUME BoundsInv,
         ReadStatus \/ \E capability \in {"available", "degraded"} : ProbeEnds(capability)
  PROVE  BoundsInv'
<1>0. readiness \in Readiness /\ failureThreshold \in Nat /\ attempts \in 0..MaximumAttempts
  BY ThresholdAssumption DEF BoundsInv
<1>1. CASE ReadStatus
  <2>1. readiness' \in Readiness
    BY <1>0, <1>1 DEF ReadStatus, StartedProbe, IsOpen, Readiness
  <2> QED BY <1>0, <1>1, <2>1 DEF ReadStatus, BoundsInv
<1>2. ASSUME NEW capability \in {"available", "degraded"}, ProbeEnds(capability)
      PROVE  BoundsInv'
  <2>1. readiness' \in Readiness
    <3>1. readiness.failures \in 0..failureThreshold
      BY <1>0 DEF Readiness
    <3>2. IsOpen(readiness) \/ readiness.failures + 1 \in 0..failureThreshold
      BY <1>0, <3>1 DEF IsOpen
    <3>3. PICK n : n = IF capability = "available" THEN 0
                       ELSE IF IsOpen(readiness) THEN failureThreshold
                       ELSE readiness.failures + 1
      OBVIOUS
    <3>4. n \in 0..failureThreshold
      BY <1>0, <3>2, <3>3
    <3>5. readiness' = [cache |-> capability, inFlight |-> FALSE, halfOpen |-> FALSE,
                        failures |-> n]
      BY <1>2, <3>3 DEF ProbeEnds
    <3> QED BY <3>4, <3>5 DEF Readiness
  <2>2. \A c \in DOMAIN call' : c \in DOMAIN call /\ call'[c].parts = call[c].parts
    BY <1>2 DEF ProbeEnds
  <2> QED BY <1>0, <1>2, <2>1, <2>2, CallsBounded DEF ProbeEnds, BoundsInv
<1> QED BY <1>1, <1>2

LEMMA ChatBounded ==
  ASSUME ChatInv, BoundsInv, [ChatNext]_chatVars
  PROVE  BoundsInv'
<1>1. CASE UNCHANGED <<session, call, readiness, attempts>>
  BY <1>1 DEF BoundsInv
<1>2. CASE UNCHANGED chatVars
  BY <1>1, <1>2 DEF chatVars
<1> QED BY <1>1, <1>2, PageBounded, HandleBounded, DisplayBounded, ReadinessBounded DEF ChatNext

LEMMA FreshAssistant == ChatInit => AssistantInv
<1> SUFFICES ASSUME ChatInit PROVE AssistantInv
  OBVIOUS
<1>1. NoQuestionYet /\ CircuitInit
  BY DEF ChatInit
<1>2. CircuitInv
  BY <1>1, CircuitStarts
<1>3. AskedInTurn
  BY <1>1, TurnStarts
<1>4. BoundsInv
  <2>1. 0 \in 0..failureThreshold /\ 0 \in 0..MaximumAttempts /\ 1 \in 1..MaxVisits
    BY ThresholdAssumption, BoundsAssumption
  <2>2. readiness \in Readiness /\ attempts \in 0..MaximumAttempts /\ DOMAIN call = {}
    BY <1>1, <2>1 DEF NoQuestionYet, Readiness
  <2>3. \A p \in Pages : session[p].visit = 1 /\ session[p].turns = {}
    BY <1>1 DEF NoQuestionYet, NewSession
  <2> QED BY <2>1, <2>2, <2>3 DEF BoundsInv
<1> QED BY <1>1, <1>2, <1>3, <1>4 DEF AssistantInv

LEMMA AssistantKept ==
  ASSUME AssistantInv, [AssistantNext]_chatVars
  PROVE  AssistantInv'
<1>1. CASE UNCHANGED <<session, call, readiness, attempts>> /\ [CircuitNext]_circuitVars
           /\ NoQuestionYet
  <2>1. CircuitInv'
    BY <1>1, CircuitKept DEF AssistantInv
  <2>2. AskedInTurn' /\ BoundsInv' /\ NoQuestionYet'
    BY <1>1 DEF AssistantInv, AskedInTurn, BoundsInv, NoQuestionYet
  <2> QED BY <2>1, <2>2 DEF AssistantInv
<1>2. CASE ChatInv /\ [ChatNext]_chatVars
  <2>1. [CircuitNext]_circuitVars /\ AskedInTurn'
    BY <1>2, ChatStepsCircuit, QuestionsKeepTurn DEF AssistantInv
  <2>2. CircuitInv' /\ ChatInv' /\ BoundsInv'
    BY <1>2, <2>1, CircuitKept, ChatKept, ChatBounded DEF AssistantInv
  <2> QED BY <2>1, <2>2 DEF AssistantInv
<1>3. NoQuestionYet /\ running = {} => ChatInv
  BY FreshChat
<1>4. CASE UNCHANGED chatVars
  BY <1>1, <1>2, <1>4 DEF AssistantInv, chatVars, circuitVars
<1> QED BY <1>1, <1>2, <1>3, <1>4 DEF AssistantNext, AssistantInv

\* On whatever circuit earlier calls have left behind, the answers of a
\* conversation are whole and its own, and an Agent that failed is probed by
\* one call at a time.
THEOREM RunInvariant == RunSpec => []AssistantInv
<1>1. RunInit => AssistantInv
  BY FreshAssistant DEF RunInit
<1>2. AssistantInv /\ [RunNext]_<<slotVars, chatVars>> => AssistantInv'
  <2> SUFFICES ASSUME AssistantInv, [RunNext]_<<slotVars, chatVars>> PROVE AssistantInv'
    OBVIOUS
  <2>1. [AssistantNext]_chatVars
    BY DEF RunNext
  <2> QED BY <2>1, AssistantKept
<1> QED BY <1>1, <1>2, PTL DEF RunSpec

\* The answers that are shown are whole and those of their questions, and one
\* probe at a time tries the Agent, also on a circuit that was used before.
THEOREM RunAnswersCorrect == RunSpec => [](AnswersAreWholeAndOwn /\ OneProbeAtATime)
<1>1. AssistantInv => AnswersAreWholeAndOwn /\ OneProbeAtATime
  <2> SUFFICES ASSUME AssistantInv PROVE AnswersAreWholeAndOwn /\ OneProbeAtATime
    OBVIOUS
  <2>1. CASE NoQuestionYet
    <3>1. DOMAIN call = {} /\ \A p \in Pages : session[p].turns = {}
      BY <2>1 DEF NoQuestionYet, NewSession
    <3> QED BY <3>1, OneProbe DEF AssistantInv, AnswersAreWholeAndOwn
  <2>2. CASE ChatInv
    BY <2>2, OneProbe DEF AssistantInv, ChatInv, HistoriesInv, SessionOk, TurnOk, AnswersAreWholeAndOwn
  <2> QED BY <2>1, <2>2 DEF AssistantInv
<1> QED BY <1>1, RunInvariant, PTL

\* In the run the slot moves as it does alone.
THEOREM RunUsesSlot == RunSpec => SlotSafety
<1>1. RunInit => SlotInit
  BY DEF RunInit
<1>2. [RunNext]_<<slotVars, chatVars>> => [SlotNext]_slotVars
  BY DEF RunNext
<1> QED BY <1>1, <1>2, PTL DEF RunSpec, SlotSafety

LEMMA AssistantTypes == AssistantInv => ChatTypeOK
<1> SUFFICES ASSUME AssistantInv PROVE ChatTypeOK
  OBVIOUS
<1>1. /\ CircuitTypeOK /\ readiness \in Readiness /\ attempts \in 0..MaximumAttempts
      /\ \A p \in Pages : session[p].visit \in 1..MaxVisits
      /\ \A c \in DOMAIN call : call[c].parts \in Parts
  BY DEF AssistantInv, CircuitInv, BoundsInv
<1>2. \A c \in DOMAIN call : c \in Calls
  BY NumbersAreCalls DEF AssistantInv
<1>3. CASE NoQuestionYet
  <2>1. DOMAIN call = {} /\ \A p \in Pages : session[p] = NewSession(1)
    BY <1>3 DEF NoQuestionYet
  <2> QED BY <1>1, <2>1, CallsAssumption DEF ChatTypeOK, NewSession, Readiness
<1>4. CASE ChatInv
  <2>1. ASSUME NEW p \in Pages
        PROVE  /\ session[p].turns \subseteq Turns
               /\ session[p].status \in {"idle", "sending", "failed"}
               /\ session[p].active \in Calls \cup {NoCall}
               /\ session[p].status = "sending" <=> session[p].active # NoCall
    <3>1. session[p] \in SessionRecords /\ SessionOk(p)
      BY <1>4 DEF ChatInv, IdsInv
    <3>2. ASSUME NEW turn \in session[p].turns PROVE turn \in Turns
      <4>1. turn \in TurnRecords /\ TurnOk(p, turn) /\ turn.shown \in Parts
        BY <3>1, <3>2 DEF SessionRecords, SessionOk, AssistantInv, BoundsInv
      <4>2. turn.asked \in Calls /\ turn.answer \in Calls \cup {NoCall}
        BY <1>2, <4>1 DEF TurnOk, Of
      <4> QED BY <4>1, <4>2 DEF TurnRecords, Turns
    <3> QED BY <1>2, <3>1, <3>2 DEF SessionOk, Of, SessionRecords
  <2>2. ASSUME NEW c \in DOMAIN call
        PROVE  /\ call[c].server \in {"sent", "resolving", "probing", "chosen",
                                      "streaming", "refused", "over"}
               /\ call[c].client \in {"running", "over"}
               /\ call[c].history \subseteq Calls
               /\ call[c].got <= call[c].out /\ call[c].out <= call[c].parts
               /\ call[c].end \in {"no", "done", "error"}
               /\ call[c].closed \in {"open", "done", "error", "cancelled"}
    <3>1. call[c] \in CallRecords /\ CallOk(c, call[c], running)
      BY <1>4, CallDomain DEF ChatInv, CallsInv
    <3>2. call[c].history \subseteq Calls
      BY <1>2, <1>4 DEF ChatInv, HistoriesInv
    <3> QED BY <3>1, <3>2 DEF CallRecords, CallOk, Early
  <2> QED BY <1>1, <2>1, <2>2 DEF ChatTypeOK, Readiness
<1> QED BY <1>3, <1>4 DEF AssistantInv

\* The state of the conversation, the circuit and the slot keeps its shape.
THEOREM RunTypesCorrect == RunSpec => []RunTypeOK
<1>1. SlotInv => SlotTypeOK
  BY DEF SlotInv
<1>2. SlotTypeOK /\ ChatTypeOK => RunTypeOK
  BY DEF RunTypeOK
<1> QED BY <1>1, <1>2, AssistantTypes, RunInvariant, RunUsesSlot, SlotInvariant, PTL
=============================================================================
