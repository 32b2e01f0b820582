------------------------------ MODULE Website ------------------------------
(***************************************************************************)
(* The tables of a website (LogStore), and the statistics read from them        *)
(* (Statistics).  The statistics have rows of their own, with more columns and    *)
(* fewer writers: a behaviour is of one of the two, and the other keeps a first    *)
(* state of its own.                                                        *)
(***************************************************************************)
EXTENDS LogStore, Statistics

VARIABLE showing

websiteVars == <<showing, vars, statVars>>
WebsiteInit == showing \in BOOLEAN /\ Init /\ StatInit
WebsiteNext == \/ ~showing /\ Next /\ UNCHANGED <<showing, statVars>>
               \/ showing /\ StatNext /\ UNCHANGED <<showing, vars>>
\* The fairness of LogStore.
WebsiteFairness == /\ WF_vars(~showing /\ Statement)
                   /\ \A w \in Workers : WF_vars(~showing /\ Work(w))
WebsiteSpec == WebsiteInit /\ [][WebsiteNext]_websiteVars /\ WebsiteFairness
=============================================================================
