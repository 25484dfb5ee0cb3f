---------------------------- MODULE MCFileTransfer ----------------------------
(* The two file transfers.  Uploads and downloads of the TightVNC extension *)
(* share no state but the handler of a client that leaves.                  *)
EXTENDS TightTransfer, UltraTransfer

VARIABLE kind
mcVars == <<kind, tightVars, ultraVars>>

MCSize == [f1 |-> 2, f2 |-> 1, f3 |-> 0]

MCInit == kind \in {"downloads", "uploads", "ultra"} /\ TightInit /\ UltraInit

MCNext ==
    \/ /\ kind # "ultra" /\ UNCHANGED <<kind, ultraVars>>
       /\ IF kind = "uploads" THEN downloads' = 0 ELSE UNCHANGED uploadVars
       /\ TightNext
    \/ kind = "ultra" /\ UltraNext /\ UNCHANGED <<kind, tightVars>>

MCSpec == MCInit /\ [][MCNext]_mcVars

MCCancelSpec ==
    /\ MCInit /\ kind = "downloads"
    /\ [][MCNext]_mcVars
    /\ \A c \in Clients : WF_tightVars(Thread(c)) /\ WF_tightVars(Handler(c))

(* The type invariants of both.                                            *)
MCTypeOK == TightTypeOK /\ UltraTypeOK
===============================================================================
