------------------------------ MODULE Services ------------------------------
(***************************************************************************)
(* The parts of the program that keep to themselves: the parsing gate, the     *)
(* export jobs, the poll of a remote source, and the notices.  They share no     *)
(* state, so a behaviour is of one part, and the others keep a first state of      *)
(* theirs.                                                                 *)
(***************************************************************************)
EXTENDS ParseGate, LogsExport, RemoteTarget, Notices

VARIABLE part

Parts == {"gate", "export", "remote", "notices"}
allVars == <<part, vars, exportVars, remoteVars, noticesVars>>
OneInit == part \in Parts /\ Init /\ ExportInit /\ RemoteInit /\ NoticesInit
OneNext ==
  \/ part = "gate" /\ Next /\ UNCHANGED <<part, exportVars, remoteVars, noticesVars>>
  \/ part = "export" /\ ExportNext /\ UNCHANGED <<part, vars, remoteVars, noticesVars>>
  \/ part = "remote" /\ RemoteNext /\ UNCHANGED <<part, vars, exportVars, noticesVars>>
  \/ part = "notices" /\ NoticesNext /\ UNCHANGED <<part, vars, exportVars, remoteVars>>
\* The fairness of the specifications of the parts.
OneFairness ==
  /\ \A w \in Workers : WF_vars(part = "gate" /\ Run(w))
  /\ \A j \in Jobs : WF_exportVars(part = "export" /\ Goroutine(j))
  /\ WF_remoteVars(part = "remote" /\ Poll)
  /\ \A i \in 1..MaxPushes : WF_noticesVars(part = "notices" /\ Pushing(i))
OneSpec == OneInit /\ [][OneNext]_allVars /\ OneFairness
=============================================================================
