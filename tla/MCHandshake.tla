---------------------------- MODULE MCHandshake ----------------------------
EXTENDS Handshake, TLC

CONSTANTS c1, c2

ClientSymmetry == Permutations(Clients)

Plain == [password |-> TRUE, minor |-> 8, tight |-> FALSE, neverShared |-> FALSE,
          alwaysShared |-> FALSE, dontDisconnect |-> FALSE]
MCScreens ==
    { Plain,
      [Plain EXCEPT !.password = FALSE, !.tight = TRUE],
      [Plain EXCEPT !.tight = TRUE, !.neverShared = TRUE],
      [Plain EXCEPT !.minor = 7, !.alwaysShared = TRUE],
      [Plain EXCEPT !.minor = 16, !.neverShared = TRUE, !.dontDisconnect = TRUE],
      [Plain EXCEPT !.minor = 3, !.password = FALSE, !.dontDisconnect = TRUE] }

Library == [kind |-> "library", minor |-> 8, reverse |-> FALSE, shared |-> FALSE,
            password |-> "full", schemes |-> {"None", "VncAuth"}]
MCPeers ==
    { Library,
      [Library EXCEPT !.password = "view", !.shared = TRUE],
      [Library EXCEPT !.password = "wrong"],
      [Library EXCEPT !.password = "absent", !.reverse = TRUE],
      [Library EXCEPT !.schemes = {"None"}],
      [Library EXCEPT !.kind = "mac", !.minor = 889],
      [Library EXCEPT !.kind = "old", !.minor = 3, !.schemes = {}],
      [Library EXCEPT !.kind = "tight", !.minor = 7, !.schemes = {"Tight"}],
      [Library EXCEPT !.kind = "tight", !.schemes = {"Tight"}],
      [Library EXCEPT !.kind = "set", !.password = "wrong"] }
=============================================================================
