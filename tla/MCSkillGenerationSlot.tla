----------------------- MODULE MCSkillGenerationSlot -----------------------
(* The way of a visitor's question: the conversation and the circuit on the *)
(* web, and the generation slot of the Agent that its run captures.  The    *)
(* two share no variable, so that it is enough to let one of them move      *)
(* while the other is in its initial state.                                 *)
EXTENDS SkillGenerationSlot, AssistantChat

\* The circuit first moves alone, under any calls, and the conversation
\* starts from every state that earlier calls may have left behind.
AssistantNext ==
  \/ /\ NoQuestionYet
     /\ CircuitNext
     /\ UNCHANGED <<session, call, readiness, attempts>>
  \/ (running = {} \/ ~NoQuestionYet) /\ ChatNext

RunInit == SlotInit /\ ChatInit
RunNext == \/ ChatInit /\ SlotNext /\ UNCHANGED chatVars
           \/ SlotInit /\ AssistantNext /\ UNCHANGED slotVars
RunSpec == RunInit /\ [][RunNext]_<<slotVars, chatVars>> /\ SlotFairness

\* The state of both components has its shape.
RunTypeOK == SlotTypeOK /\ ChatTypeOK
=============================================================================
