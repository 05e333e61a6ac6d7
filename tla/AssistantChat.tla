--------------------------- MODULE AssistantChat ----------------------------
(* A question to the assistant from the visitor's page to the Agent and     *)
(* back: the session of a page (use-assistant-session.ts), the chat handler *)
(* with its rate limiter, the choice of the provider by the cached          *)
(* readiness, the stream of the answer, and the execution circuit, which    *)
(* ExecutionCircuit models.  A call is one question: its request, its       *)
(* handler and its run.  Texts are counted in parts.                        *)
EXTENDS ExecutionCircuit, Sequences

CONSTANTS
  Pages,             \* browser pages with an assistant session
  NoCall,
  MaximumAttempts,   \* questions per window of the rate limiter
  MaxParts,          \* bound: parts of an answer
  MaxVisits,         \* bound: conversations of a page
  MaxQuestions       \* bound: questions in all

\* Questions are numbered in the order they are asked.
ASSUME CallsAssumption ==
  /\ MaxQuestions \in Nat
  /\ 1..MaxQuestions \subseteq Calls
  /\ NoCall \notin Calls

\* The bounds let something happen, as the window of the rate limiter does.
ASSUME BoundsAssumption ==
  {MaximumAttempts, MaxParts, MaxVisits} \subseteq Nat \ {0}

VARIABLES
  session,    \* per page: turns, ids, status and the active request
  call,       \* the questions: request, handler and stream of each
  readiness,  \* the readiness circuit, with its cache and probe
  attempts    \* questions counted in the current window

chatVars == <<session, call, readiness, attempts, circuitVars>>

NewSession(visit) ==
  [visit |-> visit, turns |-> {}, nextId |-> 1, status |-> "idle",
   active |-> NoCall]

Parts == 0..MaxParts
Turns == [id : Nat, asked : Calls, answer : Calls \cup {NoCall},
          shown : Parts, incomplete : BOOLEAN]

ChatTypeOK ==
  /\ CircuitTypeOK
  /\ \A p \in Pages :
       /\ session[p].visit \in 1..MaxVisits
       /\ session[p].turns \subseteq Turns
       /\ session[p].status \in {"idle", "sending", "failed"}
       /\ session[p].active \in Calls \cup {NoCall}
       /\ session[p].status = "sending" <=> session[p].active # NoCall
  /\ \A c \in DOMAIN call :
       /\ call[c].server \in {"sent", "resolving", "probing", "chosen",
                              "streaming", "refused", "over"}
       /\ call[c].client \in {"running", "over"}
       /\ call[c].history \subseteq Calls
       /\ call[c].got <= call[c].out /\ call[c].out <= call[c].parts
       /\ call[c].parts \in Parts
       /\ call[c].end \in {"no", "done", "error"}
       /\ call[c].closed \in {"open", "done", "error", "cancelled"}
  /\ readiness.cache \in {"none", "available", "degraded"}
  /\ readiness.failures \in 0..failureThreshold
  /\ readiness.inFlight \in BOOLEAN /\ readiness.halfOpen \in BOOLEAN
  /\ attempts \in 0..MaximumAttempts

NoQuestionYet ==
  /\ session = [p \in Pages |-> NewSession(1)]
  /\ call = <<>>
  /\ readiness = [cache |-> "none", failures |-> 0, inFlight |-> FALSE,
                  halfOpen |-> FALSE]
  /\ attempts = 0

ChatInit == NoQuestionYet /\ CircuitInit

-----------------------------------------------------------------------------
(* The page.                                                                *)

\* The turns of a page are in the order of their ids.  A new question takes
\* along those with an answer that is not marked incomplete, the latest ones
\* as far as they fit.
CompleteTurns(turns) == {turn \in turns : ~turn.incomplete /\ turn.shown > 0}
LatestAnswers(turns, first) ==
  {turn.answer : turn \in {t \in CompleteTurns(turns) : t.id >= first}}

Question(p, history) ==
  [server |-> "sent", client |-> "running", page |-> p,
   visit |-> session[p].visit, id |-> session[p].nextId, history |-> history,
   parts |-> 0, out |-> 0, end |-> "no", closed |-> "open", got |-> 0,
   gone |-> FALSE]

\* send: a page sends one question at a time, and shows it with an empty
\* answer at once.
Send(p) ==
  LET c == Len(call) + 1 IN
  /\ session[p].status # "sending"
  /\ c <= MaxQuestions
  /\ \E first \in 1..session[p].nextId :
       call' = Append(call, Question(p, LatestAnswers(session[p].turns, first)))
  /\ session' = [session EXCEPT
       ![p].turns = session[p].turns \cup {
         [id |-> session[p].nextId, asked |-> c,
          answer |-> NoCall, shown |-> 0, incomplete |-> FALSE]},
       ![p].nextId = session[p].nextId + 1,
       ![p].status = "sending",
       ![p].active = c]
  /\ UNCHANGED <<readiness, attempts, circuitVars>>

\* The page works on a call's answer as long as its token is the latest one.
IsCurrent(c) == call[c].client = "running" /\ session[call[c].page].active = c

\* A write into the message of the call, which is found by its id.
Written(c, turns, mark) ==
  {IF turn.id = call[c].id
     THEN [turn EXCEPT !.shown = call[c].got, !.incomplete = mark,
                       !.answer = IF call[c].got > 0 THEN c ELSE turn.answer]
     ELSE turn : turn \in turns}
Discarded(c, turns) == {turn \in turns : turn.id # call[c].id}

\* A part of the answer arrives; it is drawn with the next animation frame.
ReceivePart(c) ==
  /\ IsCurrent(c)
  /\ call[c].got < call[c].out
  /\ call' = [call EXCEPT ![c].got = @ + 1]
  /\ UNCHANGED <<session, readiness, attempts, circuitVars>>

Draw(c) ==
  /\ IsCurrent(c)
  /\ session' = [session EXCEPT ![call[c].page].turns = Written(c, @, FALSE)]
  /\ session' # session
  /\ UNCHANGED <<call, readiness, attempts, circuitVars>>

Settled(p, status, turns) ==
  session' = [session EXCEPT ![p].status = status, ![p].active = NoCall,
                             ![p].turns = turns]

\* The frame "done" and the end of the stream: what was not drawn is drawn.
ReceiveDone(c) ==
  LET p == call[c].page IN
  /\ IsCurrent(c)
  /\ call[c].closed = "done" /\ call[c].got = call[c].out
  /\ Settled(p, "idle", Written(c, session[p].turns, FALSE))
  /\ call' = [call EXCEPT ![c].client = "over"]
  /\ UNCHANGED <<readiness, attempts, circuitVars>>

\* A defect the checks must find: retainIncompleteStream forgets the mark.
FailedUnmarked(c, heard) ==
  LET p == call[c].page IN
  Settled(p, "failed", IF heard THEN Written(c, session[p].turns, FALSE)
                                ELSE Discarded(c, session[p].turns))

\* The catch block: an answer of which something came stays, marked as
\* incomplete; a question without any answer is taken back.
Failed(c, heard) ==
  LET p == call[c].page IN
  Settled(p, "failed", IF heard THEN Written(c, session[p].turns, TRUE)
                                ELSE Discarded(c, session[p].turns))

\* The server answered with an error, or with a stream that ends in one.  An
\* activity may have been heard before the first part of the answer.
ReceiveError(c) ==
  /\ IsCurrent(c)
  /\ \/ call[c].server = "refused" /\ Failed(c, FALSE)
     \/ /\ call[c].closed = "error" /\ call[c].got = call[c].out
        /\ \E activity \in BOOLEAN : Failed(c, activity \/ call[c].got > 0)
  /\ call' = [call EXCEPT ![c].client = "over"]
  /\ UNCHANGED <<readiness, attempts, circuitVars>>

\* The connection breaks, or expireRequest runs after timeoutMs.
LoseStream(c) ==
  /\ IsCurrent(c)
  /\ \E activity \in BOOLEAN :
       /\ activity => call[c].server \in {"streaming", "over"}
       /\ Failed(c, activity \/ call[c].got > 0)
  /\ call' = [call EXCEPT ![c].client = "over", ![c].gone = TRUE]
  /\ UNCHANGED <<readiness, attempts, circuitVars>>

\* The visitor goes to another page of the portal, without keeping the
\* session, or closes it: the active request is cancelled, and the message
\* ids start again at 1.
Leave(p) ==
  /\ session[p].visit < MaxVisits
  /\ session' = [session EXCEPT ![p] = NewSession(session[p].visit + 1)]
  /\ call' = [c \in DOMAIN call |->
       IF session[p].active = c
         THEN [call[c] EXCEPT !.client = "over", !.gone = TRUE] ELSE call[c]]
  /\ UNCHANGED <<readiness, attempts, circuitVars>>

-----------------------------------------------------------------------------
(* The handler, up to the stream.                                           *)

Refused(c) == call' = [call EXCEPT ![c].server = "refused"]
At(c, stage) == call' = [call EXCEPT ![c].server = stage]

\* consume counts in one transaction, which a refusal rolls back; the first
\* question after the window starts a new one.
Consume ==
  \/ attempts < MaximumAttempts /\ attempts' = attempts + 1
  \/ attempts' = 1

\* A question that is admitted may still be blocked by the input policy, or
\* fail because the policy cannot be loaded.
Admit(c) ==
  /\ call[c].server = "sent"
  /\ \/ Consume /\ (At(c, "resolving") \/ Refused(c))
     \/ Refused(c) /\ UNCHANGED attempts
  /\ UNCHANGED <<session, readiness, circuitVars>>

\* status of the readiness circuit.  Whether the cached result has expired
\* and whether the reset time has passed is up to the clock.
IsOpen(r) == r.failures = failureThreshold
StartedProbe(r) == IF r.inFlight THEN r ELSE [r EXCEPT !.inFlight = TRUE,
                                                       !.halfOpen = IsOpen(r)]

\* resolveProvider: an Agent that is not available, or whose circuit is half
\* open, refuses the question.
Resolved(capability) ==
  IF capability = "available" /\ ~halfOpen THEN "chosen" ELSE "refused"

Resolve(c) ==
  /\ call[c].server = "resolving"
  /\ \/ /\ IsOpen(readiness) /\ ~readiness.inFlight
        /\ Refused(c) /\ UNCHANGED readiness
     \/ /\ ~IsOpen(readiness) /\ ~readiness.inFlight /\ readiness.cache # "none"
        /\ At(c, Resolved(readiness.cache)) /\ UNCHANGED readiness
     \/ At(c, "probing") /\ readiness' = StartedProbe(readiness)
  /\ UNCHANGED <<session, attempts, circuitVars>>

\* The status route of the portal asks as well.
ReadStatus ==
  /\ readiness' = StartedProbe(readiness)
  /\ UNCHANGED <<session, call, attempts, circuitVars>>

\* The probe ends, and all that wait for it get its result.
ProbeEnds(capability) ==
  /\ readiness.inFlight
  /\ readiness' =
       [cache |-> capability, inFlight |-> FALSE, halfOpen |-> FALSE,
        failures |-> IF capability = "available" THEN 0
                     ELSE IF IsOpen(readiness) THEN failureThreshold
                     ELSE readiness.failures + 1]
  /\ call' = [c \in DOMAIN call |->
       IF call[c].server = "probing"
         THEN [call[c] EXCEPT !.server = Resolved(capability)] ELSE call[c]]
  /\ UNCHANGED <<session, attempts, circuitVars>>

-----------------------------------------------------------------------------
(* The stream: the run fills a queue of its own, from which the handler     *)
(* forwards.                                                                *)

\* runStream: a plain wish to go to a page is answered without the Agent;
\* a circuit that is open refuses within the stream.
Start(c) ==
  /\ call[c].server = "chosen"
  /\ \/ /\ Execute(c) /\ At(c, "streaming")
     \/ /\ ~LetsThrough
        /\ call' = [call EXCEPT ![c].server = "streaming", ![c].end = "error"]
        /\ UNCHANGED circuitVars
     \/ /\ call' = [call EXCEPT ![c].server = "streaming", ![c].parts = 1,
                                ![c].end = "done"]
        /\ UNCHANGED circuitVars
  /\ UNCHANGED <<session, readiness, attempts>>

RunPart(c) ==
  /\ c \in running
  /\ call[c].closed # "cancelled"
  /\ call[c].parts < MaxParts
  /\ call' = [call EXCEPT ![c].parts = @ + 1]
  /\ UNCHANGED <<session, readiness, attempts, circuitVars>>

\* The run ends, by its last event, an error, its deadline, or because the
\* visitor left; the circuit settles before the queue gets its last item.
RunEnds(c, outcome) ==
  /\ Settle(c, outcome)
  /\ call[c].closed = "cancelled" => outcome = "other"
  /\ call' = [call EXCEPT ![c].end = IF outcome = "success" THEN "done" ELSE "error"]
  /\ UNCHANGED <<session, readiness, attempts>>

Streams(c) == call[c].server = "streaming" /\ call[c].closed = "open"

Forward(c) ==
  /\ Streams(c)
  /\ call[c].out < call[c].parts
  /\ call' = [call EXCEPT ![c].out = @ + 1]
  /\ UNCHANGED <<session, readiness, attempts, circuitVars>>

Closed(c, how) ==
  /\ call' = [call EXCEPT ![c].closed = how, ![c].server = "over"]
  /\ UNCHANGED <<session, readiness, attempts, circuitVars>>

\* The queue is empty: an answer of which nothing was safe to forward is an
\* error too.
CloseStream(c) ==
  /\ Streams(c)
  /\ call[c].out = call[c].parts
  /\ call[c].end # "no"
  /\ Closed(c, IF call[c].end = "done" /\ call[c].out > 0 THEN "done" ELSE "error")

\* The handler rejects an event or an answer that is too long.  The run goes
\* on by itself.
RejectEvent(c) == Streams(c) /\ call[c].out < call[c].parts /\ Closed(c, "error")

\* cancel: the server notices that the page is gone and aborts the run.
Cancel(c) == Streams(c) /\ call[c].gone /\ Closed(c, "cancelled")

Handle(c) ==
  \/ Admit(c) \/ Resolve(c) \/ Start(c) \/ RunPart(c)
  \/ \E outcome \in Outcomes : RunEnds(c, outcome)
  \/ Forward(c) \/ CloseStream(c) \/ RejectEvent(c) \/ Cancel(c)

Display(c) ==
  ReceivePart(c) \/ Draw(c) \/ ReceiveDone(c) \/ ReceiveError(c) \/ LoseStream(c)

ChatNext ==
  \/ \E p \in Pages : Leave(p) \/ Send(p)
  \/ \E c \in DOMAIN call : Handle(c) \/ Display(c)
  \/ \E capability \in {"available", "degraded"} : ProbeEnds(capability)
  \/ ReadStatus
  \/ ResetElapses /\ UNCHANGED <<session, call, readiness, attempts>>

ChatSpec == ChatInit /\ [][ChatNext]_chatVars

-----------------------------------------------------------------------------
\* A call whose answer is shown as a whole: its stream ended with "done", and
\* nothing of it is missing.
Whole(c) == call[c].closed = "done" /\ call[c].got = call[c].parts

\* What a page shows as the answer to a question is the answer to that
\* question, and it is either still arriving, marked as incomplete, or
\* whole; and a question only ever takes along whole answers of its own
\* conversation.  No late part of a question that was cancelled, timed out
\* or left behind on another page finds its way into either.
AnswersAreWholeAndOwn ==
  /\ \A p \in Pages : \A turn \in session[p].turns :
       /\ turn.answer \in {NoCall, turn.asked}
       /\ \/ turn.incomplete
          \/ turn.asked = session[p].active
          \/ Whole(turn.asked) /\ turn.shown = call[turn.asked].parts
  /\ \A c \in DOMAIN call : \A h \in call[c].history :
       h # NoCall /\ Whole(h) /\ call[h].page = call[c].page
                  /\ call[h].visit = call[c].visit
=============================================================================
