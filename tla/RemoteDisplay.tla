--------------------------- MODULE RemoteDisplay ---------------------------
(***************************************************************************)
(* What the update engine promises a viewer, without saying how: the       *)
(* viewer's framebuffer equals the server's except on a damaged region,    *)
(* which grows when the server changes (or says it did) and from which a   *)
(* pixel is only taken when the viewer has just received its value.        *)
(***************************************************************************)
CONSTANTS Pixels, Colours
VARIABLES server, client, damaged

Init ==
    /\ server \in [Pixels -> Colours]
    /\ client \in [Pixels -> Colours]
    /\ damaged = Pixels

Change ==
    /\ damaged \subseteq damaged' /\ damaged' \subseteq Pixels
    /\ server' \in [Pixels -> Colours]
    /\ \A p \in Pixels \ damaged' : server'[p] = server[p]
    /\ UNCHANGED client

Deliver ==
    /\ damaged' \subseteq damaged
    /\ client' \in [Pixels -> Colours]
    /\ \A p \in Pixels : p \notin damaged => client'[p] = client[p]
    /\ \A p \in damaged \ damaged' : client'[p] = server[p]
    /\ UNCHANGED server

Spec == Init /\ [][Change \/ Deliver]_<<server, client, damaged>>

\* Outside the damaged region the two framebuffers agree.
Faithful == \A p \in Pixels \ damaged : client[p] = server[p]
=============================================================================
