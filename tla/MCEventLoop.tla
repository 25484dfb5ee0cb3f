---------------------------- MODULE MCEventLoop ----------------------------
EXTENDS EventLoop, TLC

CONSTANTS c1, c2, c3
ClientSymmetry == Permutations(Clients)

Plain == [roles |-> {"listen"}, eager |-> FALSE, answers |-> {"accept", "refuse"},
          udpAnswers |-> {}, hookCloses |-> FALSE, connects |-> FALSE,
          shutsInCallback |-> FALSE, waits |-> TRUE, fcntlFails |-> FALSE]

MCApps ==
    { [Plain EXCEPT !.answers = {"accept", "hold"}, !.hookCloses = TRUE],
      [Plain EXCEPT !.roles = {"listen", "listen6"}, !.eager = TRUE, !.connects = TRUE],
      [Plain EXCEPT !.roles = {"listen", "udp"}, !.udpAnswers = {"accept", "hold"}],
      [Plain EXCEPT !.roles = {"listen", "httpListen"}],
      [Plain EXCEPT !.roles = {"inetd"}, !.waits = FALSE],
      [Plain EXCEPT !.connects = TRUE, !.fcntlFails = TRUE],
      [Plain EXCEPT !.shutsInCallback = TRUE],
      [Plain EXCEPT !.roles = {"udp"}, !.udpAnswers = {"refuse"}, !.connects = TRUE] }
MCExample == {[Plain EXCEPT !.shutsInCallback = TRUE]}
=============================================================================
