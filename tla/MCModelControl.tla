--------------------------- MODULE MCModelControl ---------------------------
(* The language model and the rules for questions, as administrators change *)
(* them: the service of the Agent with its store and its slot, the console  *)
(* of the web in front of it, and the page of the input policy.  The three  *)
(* share no variable (the console sees of the service what                  *)
(* ControlAnswersAreFinal says of it), so that it is enough to let one of   *)
(* them move while the others are in their initial states.                  *)
EXTENDS ModelControl, ModelConsole, InputPolicy, TLC

AdminVars == <<controlVars, consoleVars, policyVars>>
ModelInit == ControlInit /\ ConsoleInit /\ PolicyInit
PolicyUntouched == puts = <<>> /\ policy = <<>>
ConsoleUntouched == changes = <<>> /\ ~opened /\ draft = [v \in Vendors |-> NoDraft]
ServiceUntouched == process = "starting" /\ restarts = 0
ModelNext ==
  \/ /\ ConsoleUntouched /\ PolicyUntouched
     /\ ControlNext /\ UNCHANGED <<consoleVars, policyVars>>
  \/ /\ ServiceUntouched /\ PolicyUntouched
     /\ ConsoleNext /\ UNCHANGED <<controlVars, policyVars>>
  \/ /\ ServiceUntouched /\ ConsoleUntouched
     /\ PolicyNext /\ UNCHANGED <<controlVars, consoleVars>>
ModelSpec == ModelInit /\ [][ModelNext]_AdminVars

\* The .cfg gives sets of equal size the same values, so that few
\* permutations serve all of them.
ModelSymmetry == Permutations(Commands) \cup Permutations(Providers)

\* The state of each of the three has its shape.
ModelTypeOK == ControlTypeOK /\ ConsoleTypeOK /\ PolicyTypeOK

\* What the pages say, of the model and of the input policy, is true.
PagesTellTheTruth == ConsoleIsTruthful /\ PolicyAnswersHold
=============================================================================
