---------------------------- MODULE MCWebContent ----------------------------
(* The two content components of the portal in one instance.  They share no *)
(* variable, so that it is enough to let one of them move while the other   *)
(* is in its initial state.                                                 *)
EXTENDS DownloadResources, Documents, TLC

ContentInit == DownloadsInit /\ DocumentsInit
NoResource == DownloadsInit /\ resource = Absent

\* Bound: no visitor is under way once something has failed.
VisitorsBeforeFailures ==
  downloadFaults' > 0 => \A r \in Readers : reader'[r].pc = "idle"

ContentNext == \/ /\ DocumentsInit
                  /\ DownloadsNext /\ VisitorsBeforeFailures
                  /\ UNCHANGED docVars
               \/ NoResource /\ DocumentsNext /\ UNCHANGED downloadVars
ContentSpec == ContentInit /\ [][ContentNext]_<<downloadVars, docVars>>

ContentSymmetry == Permutations(Tabs) \cup Permutations(Docs)

\* The state of both components has its shape.
ContentTypeOK == DownloadsTypeOK /\ DocumentsTypeOK
=============================================================================
