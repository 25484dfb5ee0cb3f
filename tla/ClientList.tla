----------------------------- MODULE ClientList -----------------------------
(***************************************************************************)
(* The list of a screen's clients, doubly linked from screen->clientHead.  *)
(* A client is linked by rfbNewTCPOrUDPClient, at the head, and unlinked   *)
(* and later freed by rfbClientConnectionGone.  Unlinking leaves the next  *)
(* and prev of the client itself as they were: whoever still stands on it  *)
(* can walk on.  ClientThreads and EventLoop say who does what when.       *)
(***************************************************************************)
CONSTANTS Clients,   \* client structures, each allocated and freed at most once
          Null

ASSUME NullAssumption == Null \notin Clients

VARIABLES clientHead, next, prev,
          life    \* "none", then "linked", "unlinked" and "freed"

listVars == <<clientHead, next, prev, life>>

InList == {c \in Clients : life[c] = "linked"}

ListInit ==
    /\ clientHead = Null
    /\ next = [c \in Clients |-> Null]
    /\ prev = [c \in Clients |-> Null]
    /\ life = [c \in Clients |-> "none"]

\* Both under rfbClientListMutex.
LinkClient(c) ==
    /\ life[c] = "none"
    /\ life' = [life EXCEPT ![c] = "linked"]
    /\ next' = [next EXCEPT ![c] = clientHead]
    /\ prev' = [d \in Clients |-> IF d = c THEN Null
                                  ELSE IF d = clientHead THEN c ELSE prev[d]]
    /\ clientHead' = c

\* Mutant of UnlinkClient: the prev of the next client is not updated.
MutantUnlinkClient(c) ==
    /\ life[c] = "linked"
    /\ life' = [life EXCEPT ![c] = "unlinked"]
    /\ next' = [d \in Clients |-> IF d = prev[c] THEN next[c] ELSE next[d]]
    /\ clientHead' = IF prev[c] = Null THEN next[c] ELSE clientHead
    /\ UNCHANGED prev

UnlinkClient(c) ==
    /\ life[c] = "linked"
    /\ life' = [life EXCEPT ![c] = "unlinked"]
    /\ next' = [d \in Clients |-> IF d = prev[c] THEN next[c] ELSE next[d]]
    /\ prev' = [d \in Clients |-> IF d = next[c] THEN prev[c] ELSE prev[d]]
    /\ clientHead' = IF prev[c] = Null THEN next[c] ELSE clientHead

FreeClient(c) ==
    /\ life' = [life EXCEPT ![c] = "freed"]
    /\ UNCHANGED <<clientHead, next, prev>>

ListTypeOK ==
    /\ clientHead \in Clients \cup {Null}
    /\ next \in [Clients -> Clients \cup {Null}]
    /\ prev \in [Clients -> Clients \cup {Null}]
    /\ life \in [Clients -> {"none", "linked", "unlinked", "freed"}]

\* Whatever is reached from the head or from a client of the list is a client
\* of the list, and next and prev agree there (rfbClientConnectionGone relies
\* on it to unlink in one step).
ListWellFormed ==
    /\ clientHead \in InList \cup {Null}
    /\ \A c \in InList :
         /\ next[c] \in InList \cup {Null} /\ next[c] # c
         /\ prev[c] \in InList \cup {Null}
         /\ prev[c] = Null <=> c = clientHead
         /\ next[c] # Null => prev[next[c]] = c
         /\ prev[c] # Null => next[prev[c]] = c
=============================================================================
