--------------------------- MODULE ClientThreads ---------------------------
(***************************************************************************)
(* The life of clients with the background loop (rfbRunEventLoop with      *)
(* runInBackground): the listener thread accepts them, each then has a     *)
(* clientInput and a clientOutput thread, the application's threads        *)
(* iterate over them (rfbMarkRegionAsModified, rfbSendBell, ...), and      *)
(* rfbShutdownServer closes them all.                                      *)
(*                                                                         *)
(* A thread that touches a client already freed, or joins or starts a      *)
(* thread it must not, is "lost": what it does next is undefined, and here *)
(* it does nothing.  References are counted under refCountMutex, the list  *)
(* changes under rfbClientListMutex, sock is closed and updateCond waited  *)
(* for and signalled under updateMutex: each such section is one step.     *)
(***************************************************************************)
EXTENDS ClientList, Integers, FiniteSets

CONSTANTS Workers,         \* application threads that iterate over the clients
          Shutdown,        \* the thread that calls rfbShutdownServer
          HookResults,     \* what newClientHook answers: "accept", "hold", "refuse"
          AcceptMayFail    \* accept() can return -1

ASSUME ThreadsAssumption ==
    /\ IsFiniteSet(Workers)
    /\ Shutdown \notin Workers
    /\ HookResults \subseteq {"accept", "hold", "refuse"}
    /\ AcceptMayFail \in BOOLEAN

Threads == Workers \cup {Shutdown}

VARIABLES
    open,        \* cl->sock != RFB_INVALID_SOCKET
    refCount,
    input,       \* the clientInput thread of a client, or whoever refuses it
    output,      \* its clientOutput thread
    listener, listenerCl,   \* the listener thread and its variable cl
    listening,   \* screen->socketState is not RFB_SOCKET_SHUTDOWN
    notified,    \* there is a byte in pipe_notify_listener_thread
    it,          \* where the iterator of a thread is: [pc, at]
    shutdown, currentCl,    \* rfbShutdownServer
    \* history: the clients open since an iteration began that it has still to
    \* visit, and whether its reference was taken on a client in the list
    due, timely

clientVars == <<open, refCount, input, output>>
listenerVars == <<listener, listenerCl, listening, notified>>
iterVars == <<it, due, timely>>
shutdownVars == <<shutdown, currentCl>>
vars == <<listVars, clientVars, listenerVars, iterVars, shutdownVars>>

Init ==
    /\ ListInit
    /\ open = [c \in Clients |-> FALSE]
    /\ refCount = [c \in Clients |-> 0]
    /\ input = [c \in Clients |-> "none"]
    /\ output = [c \in Clients |-> "none"]
    /\ listener = "select" /\ listenerCl = Null
    /\ listening = TRUE /\ notified = FALSE
    /\ it = [i \in Threads |-> [pc |-> "off", at |-> Null]]
    /\ due = [i \in Threads |-> {}]
    /\ timely = [i \in Threads |-> FALSE]
    /\ shutdown = "off" /\ currentCl = Null
-----------------------------------------------------------------------------
Freed(c) == life[c] = "freed"
Started(c) == output[c] # "none"
Woken(pc) == IF pc = "asleep" THEN "check" ELSE pc

\* rfbCloseClient: the socket is closed and updateCond signalled.
CloseClient(c) ==
    /\ open' = [open EXCEPT ![c] = FALSE]
    /\ output' = [output EXCEPT ![c] = Woken(@)]
    /\ due' = [i \in Threads |-> due[i] \ {c}]

(***************************************************************************)
(* The listener thread.                                                    *)
(***************************************************************************)
\* accept, and rfbNewClient up to the hook: the others see the client now.  That
\* rfbNewClient first counts them, for its log, is an iteration like a worker's,
\* and left out.
Accept(c) ==
    /\ listener = "select" /\ listening
    /\ LinkClient(c)
    /\ open' = [open EXCEPT ![c] = TRUE]
    /\ listener' = "hook" /\ listenerCl' = c
    /\ UNCHANGED <<refCount, input, output, listening, notified, iterVars, shutdownVars>>

\* rfbStartOnHoldClient: clientInput, which starts clientOutput first of all
StartThreads(c) ==
    /\ input' = [input EXCEPT ![c] = "run"]
    /\ output' = [output EXCEPT ![c] = "check"]

HookAccepts ==
    /\ listener = "hook" /\ "accept" \in HookResults
    /\ StartThreads(listenerCl)
    /\ listener' = "select"
    /\ UNCHANGED <<listVars, open, refCount, listenerCl, listening, notified, iterVars,
                   shutdownVars>>

HookHolds ==
    /\ listener = "hook" /\ "hold" \in HookResults
    /\ input' = [input EXCEPT ![listenerCl] = "hold"]
    /\ listener' = "test"
    /\ UNCHANGED <<listVars, open, refCount, output, listenerCl, listening, notified,
                   iterVars, shutdownVars>>

\* listenerRun tests cl->onHold only now: the application may have started the
\* client already, which is then started again, or refused it.
TestOnHold ==
    /\ listener = "test"
    /\ listener' = IF Freed(listenerCl) \/ Started(listenerCl) THEN "lost" ELSE "select"
    /\ UNCHANGED <<listVars, clientVars, listenerCl, listening, notified, iterVars,
                   shutdownVars>>

\* The hook refuses, or the protocol version cannot be written.
HookRefuses ==
    /\ listener = "hook" /\ "refuse" \in HookResults
    /\ CloseClient(listenerCl)
    /\ input' = [input EXCEPT ![listenerCl] = "unlink"]
    /\ listener' = "refusing"
    /\ UNCHANGED <<listVars, refCount, listenerCl, listening, notified, it,
                   timely, shutdownVars>>

Refused ==
    /\ listener = "refusing" /\ input[listenerCl] = "ended"
    /\ listener' = "select" /\ listenerCl' = Null
    /\ UNCHANGED <<listVars, clientVars, listening, notified, iterVars, shutdownVars>>

\* cl still is the client accepted last: unless that is on hold, its threads
\* are started once more.
AcceptFails ==
    /\ AcceptMayFail /\ listener = "select" /\ listening
    /\ listenerCl # Null
    /\ Freed(listenerCl) \/ Started(listenerCl)
    /\ listener' = "lost"
    /\ UNCHANGED <<listVars, clientVars, listenerCl, listening, notified, iterVars,
                   shutdownVars>>

\* Woken through the pipe, the listener looks at rfbIsActive.
ListenerWakes ==
    /\ listener = "select" /\ notified
    /\ notified' = FALSE
    /\ listener' = IF listening \/ clientHead # Null THEN "select" ELSE "ended"
    /\ UNCHANGED <<listVars, clientVars, listenerCl, listening, iterVars, shutdownVars>>

\* select fails: a signal, or a socket rfbShutdownSockets has closed meanwhile.
ListenerFails ==
    /\ listener = "select"
    /\ listener' = "ended"
    /\ UNCHANGED <<listVars, clientVars, listenerCl, listening, notified, iterVars,
                   shutdownVars>>

Listener == (\E c \in Clients : Accept(c)) \/ HookAccepts \/ HookHolds \/ TestOnHold
              \/ HookRefuses \/ Refused \/ AcceptFails \/ ListenerWakes \/ ListenerFails

(***************************************************************************)
(* rfbStartOnHoldClient and rfbRefuseOnHoldClient, from the application.   *)
(***************************************************************************)
StartOnHoldClient(c) ==
    /\ input[c] = "hold"
    /\ StartThreads(c)
    /\ UNCHANGED <<listVars, open, refCount, listenerVars, iterVars, shutdownVars>>

RefuseOnHoldClient(c) ==
    /\ input[c] = "hold"
    /\ CloseClient(c)
    /\ input' = [input EXCEPT ![c] = "unlink"]
    /\ UNCHANGED <<listVars, refCount, listenerVars, it, timely, shutdownVars>>
-----------------------------------------------------------------------------
(***************************************************************************)
(* clientInput, and rfbClientConnectionGone at its end.                    *)
(***************************************************************************)
InputStep(c, from, to) == input[c] = from /\ input' = [input EXCEPT ![c] = to]

\* A read fails, or a message is refused: rfbCloseClient.
InputCloses(c) ==
    /\ input[c] = "run" /\ open[c]
    /\ CloseClient(c)
    /\ UNCHANGED <<listVars, refCount, input, listenerVars, it, timely, shutdownVars>>

InputEnds(c) ==
    /\ ~open[c]
    /\ InputStep(c, "run", "signal")
    /\ UNCHANGED <<listVars, open, refCount, output, listenerVars, iterVars, shutdownVars>>

\* select fails: the loop ends with the socket still open, and clientOutput,
\* which only looks at the socket, goes on until a write fails.
SelectFails(c) ==
    /\ open[c]
    /\ InputStep(c, "run", "signal")
    /\ UNCHANGED <<listVars, open, refCount, output, listenerVars, iterVars, shutdownVars>>

SignalOutput(c) ==
    /\ InputStep(c, "signal", "join")
    /\ output' = [output EXCEPT ![c] = Woken(@)]
    /\ UNCHANGED <<listVars, open, refCount, listenerVars, iterVars, shutdownVars>>

\* Mutant of JoinOutput: the output thread is told to end, but not joined.
MutantJoinOutput(c) ==
    /\ InputStep(c, "join", "unlink")
    /\ UNCHANGED <<listVars, open, refCount, output, listenerVars, iterVars, shutdownVars>>

JoinOutput(c) ==
    /\ output[c] = "done"
    /\ InputStep(c, "join", "unlink")
    /\ UNCHANGED <<listVars, open, refCount, output, listenerVars, iterVars, shutdownVars>>

Unlink(c) ==
    /\ InputStep(c, "unlink", "refs")
    /\ UnlinkClient(c)
    /\ UNCHANGED <<open, refCount, output, listenerVars, iterVars, shutdownVars>>

\* Mutant of AwaitRefs: the references are not waited for.
MutantAwaitRefs(c) ==
    /\ InputStep(c, "refs", "free")
    /\ UNCHANGED <<listVars, open, refCount, output, listenerVars, iterVars, shutdownVars>>

\* refCount is tested and deleteCond waited for under refCountMutex, where
\* rfbDecrClientRef signals: no wakeup is lost here.
AwaitRefs(c) ==
    /\ refCount[c] <= 0
    /\ InputStep(c, "refs", "free")
    /\ UNCHANGED <<listVars, open, refCount, output, listenerVars, iterVars, shutdownVars>>

Free(c) ==
    /\ InputStep(c, "free", "ended")
    /\ FreeClient(c)
    /\ UNCHANGED <<open, refCount, output, listenerVars, iterVars, shutdownVars>>

InputWindsUp(c) == InputEnds(c) \/ SignalOutput(c) \/ JoinOutput(c) \/ Unlink(c)
                     \/ AwaitRefs(c) \/ Free(c)

(***************************************************************************)
(* clientOutput.  Whether there is an update to send is left open.         *)
(***************************************************************************)
OutputStep(c, from, to) == output[c] = from /\ output' = [output EXCEPT ![c] = to]

\* The test of cl->sock, before updateMutex is taken.
CheckSocket(c) ==
    /\ IF open[c] THEN OutputStep(c, "check", "lock") ELSE OutputStep(c, "check", "done")
    /\ UNCHANGED <<listVars, open, refCount, input, listenerVars, iterVars, shutdownVars>>

WaitForUpdate(c) ==
    /\ OutputStep(c, "lock", "asleep")
    /\ UNCHANGED <<listVars, open, refCount, input, listenerVars, iterVars, shutdownVars>>

TakeUpdate(c) ==
    /\ OutputStep(c, "lock", "send")
    /\ refCount' = [refCount EXCEPT ![c] = @ + 1]
    /\ UNCHANGED <<listVars, open, input, listenerVars, iterVars, shutdownVars>>

\* rfbWriteExact fails: rfbCloseClient.
SendFails(c) ==
    /\ output[c] = "send" /\ open[c]
    /\ CloseClient(c)
    /\ UNCHANGED <<listVars, refCount, input, listenerVars, it, timely, shutdownVars>>

\* Mutant of Sent: no rfbDecrClientRef.
MutantSent(c) ==
    /\ OutputStep(c, "send", "check")
    /\ UNCHANGED <<listVars, open, refCount, input, listenerVars, iterVars, shutdownVars>>

Sent(c) ==
    /\ OutputStep(c, "send", "check")
    /\ refCount' = [refCount EXCEPT ![c] = @ - 1]
    /\ UNCHANGED <<listVars, open, input, listenerVars, iterVars, shutdownVars>>

Output(c) == CheckSocket(c) \/ WaitForUpdate(c) \/ TakeUpdate(c) \/ Sent(c)
-----------------------------------------------------------------------------
(***************************************************************************)
(* The iterators.  rfbClientIteratorNext reads the next client under no    *)
(* lock, passes over closed ones, and takes its reference last.            *)
(***************************************************************************)
At(i) == it[i].at
Goto(i, pc, c) == it' = [it EXCEPT ![i] = [pc |-> pc, at |-> c]]

\* The first call: clientHead, under rfbClientListMutex.
ReadHead(i) ==
    /\ Goto(i, "skip", clientHead)
    /\ due' = [due EXCEPT ![i] = {c \in InList : open[c]}]
    /\ UNCHANGED <<listVars, clientVars, listenerVars, timely>>

\* It lets go of the client it holds, and goes on to c.
LetGo(i, pc, c) ==
    /\ it[i].pc = "held"
    /\ IF Freed(At(i))
       THEN Goto(i, "lost", At(i)) /\ UNCHANGED refCount
       ELSE Goto(i, pc, c) /\ refCount' = [refCount EXCEPT ![At(i)] = @ - 1]
    /\ timely' = [timely EXCEPT ![i] = FALSE]
    /\ UNCHANGED <<listVars, open, input, output, listenerVars, due>>

\* A later call: the next one of a client it holds, which it then lets go.
Advance(i) == LetGo(i, "skip", next[At(i)])

\* Mutant of SkipClosed: a closed client ends the iteration.
MutantSkipClosed(i) ==
    /\ it[i].pc = "skip" /\ At(i) # Null
    /\ IF Freed(At(i)) THEN Goto(i, "lost", At(i))
       ELSE IF open[At(i)] THEN Goto(i, "ref", At(i))
       ELSE Goto(i, "end", Null)
    /\ UNCHANGED <<listVars, clientVars, listenerVars, due, timely, shutdownVars>>

SkipClosed(i) ==
    /\ it[i].pc = "skip" /\ At(i) # Null
    /\ IF Freed(At(i)) THEN Goto(i, "lost", At(i))
       ELSE IF open[At(i)] THEN Goto(i, "ref", At(i))
       ELSE Goto(i, "skip", next[At(i)])
    /\ UNCHANGED <<listVars, clientVars, listenerVars, due, timely, shutdownVars>>

\* Mutant of TakeRef: the reference is not counted.
MutantTakeRef(i) ==
    /\ it[i].pc = "ref"
    /\ IF Freed(At(i))
       THEN Goto(i, "lost", At(i)) /\ UNCHANGED <<due, timely>>
       ELSE /\ Goto(i, "held", At(i))
            /\ due' = [due EXCEPT ![i] = @ \ {At(i)}]
            /\ timely' = [timely EXCEPT ![i] = At(i) \in InList]
    /\ UNCHANGED <<listVars, clientVars, listenerVars, shutdownVars>>

TakeRef(i) ==
    /\ it[i].pc = "ref"
    /\ IF Freed(At(i))
       THEN Goto(i, "lost", At(i)) /\ UNCHANGED <<refCount, due, timely>>
       ELSE /\ Goto(i, "held", At(i))
            /\ refCount' = [refCount EXCEPT ![At(i)] = @ + 1]
            /\ due' = [due EXCEPT ![i] = @ \ {At(i)}]
            /\ timely' = [timely EXCEPT ![i] = At(i) \in InList]
    /\ UNCHANGED <<listVars, open, input, output, listenerVars, shutdownVars>>

EndOfList(i) ==
    /\ it[i].pc = "skip" /\ At(i) = Null
    /\ Goto(i, "end", Null)
    /\ UNCHANGED <<listVars, clientVars, listenerVars, due, timely, shutdownVars>>

IteratorStep(i) == SkipClosed(i) \/ TakeRef(i) \/ EndOfList(i)

(***************************************************************************)
(* An application's thread goes over all clients; it signals updateCond of *)
(* the one it holds (rfbMarkRegionAsModified) or closes it (rfbSendBell    *)
(* when the write fails, an input thread that was promised not to share).  *)
(***************************************************************************)
WorkerStarts(i) ==
    /\ it[i].pc = "off"
    /\ ReadHead(i)
    /\ UNCHANGED shutdownVars

WorkerAdvances(i) == Advance(i) /\ UNCHANGED shutdownVars

WorkerSignals(i) ==
    /\ it[i].pc = "held" /\ ~Freed(At(i)) /\ output[At(i)] = "asleep"
    /\ output' = [output EXCEPT ![At(i)] = Woken(@)]
    /\ UNCHANGED <<listVars, open, refCount, input, listenerVars, iterVars, shutdownVars>>

WorkerCloses(i) ==
    /\ it[i].pc = "held" /\ ~Freed(At(i)) /\ open[At(i)]
    /\ CloseClient(At(i))
    /\ UNCHANGED <<listVars, refCount, input, listenerVars, it, timely, shutdownVars>>

\* rfbReleaseClientIterator, before the end (a refused client that must not
\* share) or at it.
WorkerBreaksOff(i) == LetGo(i, "off", Null) /\ UNCHANGED shutdownVars

WorkerReleases(i) ==
    /\ it[i].pc = "end"
    /\ Goto(i, "off", Null)
    /\ UNCHANGED <<listVars, clientVars, listenerVars, due, timely, shutdownVars>>

WorkerGoesOn(i) == IteratorStep(i) \/ WorkerAdvances(i) \/ WorkerReleases(i)
                     \/ WorkerBreaksOff(i)

Worker(i) == WorkerStarts(i) \/ WorkerGoesOn(i) \/ WorkerSignals(i) \/ WorkerCloses(i)
-----------------------------------------------------------------------------
(***************************************************************************)
(* rfbShutdownServer(screen, TRUE): it asks for the next client, and so    *)
(* lets go of the current one, before it closes that and joins its thread. *)
(***************************************************************************)
ShutdownStarts ==
    /\ shutdown = "off"
    /\ ReadHead(Shutdown)
    /\ shutdown' = "first"
    /\ UNCHANGED currentCl

FirstClient ==
    /\ shutdown = "first" /\ it[Shutdown].pc = "held"
    /\ Advance(Shutdown)
    /\ currentCl' = At(Shutdown)
    /\ shutdown' = "next"

NextClientKnown ==
    /\ shutdown = "next" /\ it[Shutdown].pc \in {"held", "end"}
    /\ shutdown' = IF Freed(currentCl) THEN "lost" ELSE "join"
    /\ IF open[currentCl] /\ ~Freed(currentCl)
       THEN CloseClient(currentCl) ELSE UNCHANGED <<open, output, due>>
    /\ UNCHANGED <<listVars, refCount, input, listenerVars, it, timely, currentCl>>

\* The byte for the client's pipe, and pthread_join(currentCl->client_thread):
\* a client on hold, or one that is being refused, has no such thread.
CallJoin ==
    /\ shutdown = "join"
    /\ shutdown' = IF Freed(currentCl) \/ ~Started(currentCl) THEN "lost" ELSE "joining"
    /\ UNCHANGED <<listVars, clientVars, listenerVars, iterVars, currentCl>>

Joined ==
    /\ shutdown = "joining" /\ input[currentCl] = "ended"
    /\ it[Shutdown].pc = "held"
    /\ Advance(Shutdown)
    /\ currentCl' = At(Shutdown)
    /\ shutdown' = "next"

\* After the last client, or if there was none: rfbShutdownSockets, and a
\* byte for the listener's pipe.
ShutdownSockets ==
    /\ \/ shutdown = "first" /\ it[Shutdown].pc = "end"
       \/ shutdown = "joining" /\ input[currentCl] = "ended" /\ it[Shutdown].pc = "end"
    /\ listening' = FALSE /\ notified' = TRUE
    /\ shutdown' = "listener"
    /\ UNCHANGED <<listVars, clientVars, listener, listenerCl, iterVars, currentCl>>

JoinListener ==
    /\ shutdown = "listener" /\ listener = "ended"
    /\ shutdown' = "done"
    /\ UNCHANGED <<listVars, clientVars, listenerVars, iterVars, currentCl>>

ShutdownGoesOn == IteratorStep(Shutdown) \/ FirstClient \/ NextClientKnown \/ CallJoin
                    \/ Joined \/ ShutdownSockets \/ JoinListener

Client(c) == InputCloses(c) \/ SelectFails(c) \/ InputWindsUp(c) \/ Output(c)
               \/ SendFails(c) \/ StartOnHoldClient(c) \/ RefuseOnHoldClient(c)

Next == Listener \/ ShutdownStarts \/ ShutdownGoesOn
          \/ (\E c \in Clients : Client(c)) \/ (\E i \in Workers : Worker(i))

Spec == Init /\ [][Next]_vars

\* Every thread of the library runs on, and so does a loop of the application
\* over the clients.  Peers and the application need never do anything, and
\* select need not fail.
FairSpec ==
    /\ Spec
    /\ \A c \in Clients : WF_vars(Output(c)) /\ WF_vars(InputWindsUp(c))
    /\ \A i \in Workers : WF_vars(WorkerGoesOn(i))
    /\ WF_vars(ShutdownGoesOn)
    /\ WF_vars(HookAccepts \/ TestOnHold \/ Refused \/ ListenerWakes)
-----------------------------------------------------------------------------
\* refCount is a number of references: it never goes below zero (the code tests
\* for <= 0, "just to be sure").
TypeOK ==
    /\ ListTypeOK
    /\ open \in [Clients -> BOOLEAN] /\ refCount \in [Clients -> Nat]
    /\ input \in [Clients -> {"none", "hold", "run", "signal", "join", "unlink", "refs",
                              "free", "ended"}]
    /\ output \in [Clients -> {"none", "check", "lock", "asleep", "send", "done"}]
    /\ listener \in {"select", "hook", "test", "refusing", "lost", "ended"}
    /\ listenerCl \in Clients \cup {Null}
    /\ listening \in BOOLEAN /\ notified \in BOOLEAN
    /\ it \in [Threads -> [pc : {"off", "skip", "ref", "held", "end", "lost"},
                           at : Clients \cup {Null}]]
    /\ due \in [Threads -> SUBSET Clients] /\ timely \in [Threads -> BOOLEAN]
    /\ shutdown \in {"off", "first", "next", "join", "joining", "listener", "done", "lost"}
    /\ currentCl \in Clients \cup {Null}

\* Every reference is counted, and dropped once: those of iterators and that of
\* clientOutput while it sends.
Holders(c) == {i \in Threads : it[i].pc = "held" /\ At(i) = c}

RefCountExact ==
    \A c \in Clients : ~Freed(c) =>
        refCount[c] = Cardinality(Holders(c)) + (IF output[c] = "send" THEN 1 ELSE 0)

\* A client is unlinked once clientOutput has ended, waited for, then freed.
Phases ==
    /\ \A c \in Clients :
         /\ life[c] = "none" => input[c] = "none"
         /\ life[c] = "unlinked" <=> input[c] \in {"refs", "free"}
         /\ life[c] = "freed" <=> input[c] = "ended"
         /\ input[c] \in {"none", "hold"} => output[c] = "none"
         /\ input[c] \in {"unlink", "refs", "free", "ended"} => output[c] \in {"none", "done"}
    /\ listener = "hook" =>
         listenerCl \in Clients /\ life[listenerCl] = "linked" /\ input[listenerCl] = "none"

\* A reference taken in time keeps its client out of the last phase.
Protected ==
    /\ \A i \in Threads :
         /\ it[i].pc \in {"ref", "held"} => At(i) # Null
         /\ it[i].pc = "held" /\ timely[i] => input[At(i)] \notin {"free", "ended"}
    /\ shutdown = "off" => it[Shutdown].pc = "off"

\* The inductive invariant: counts and phases together let a client be freed
\* only after the last reference that was taken in time is gone.
IInv == TypeOK /\ RefCountExact /\ Phases /\ Protected
-----------------------------------------------------------------------------
\* Once a client is freed, neither of its threads runs, so neither can touch it
\* (clientInput joins clientOutput before rfbClientConnectionGone).
ThreadsEndFirst ==
    \A c \in Clients : Freed(c) => input[c] = "ended" /\ output[c] \in {"none", "done"}

\* "so that the client is not cleaned up while being referenced" (rfb.h on
\* refCount) holds for a reference taken while the client is in the list.
ReferencesProtect ==
    \A i \in Threads : it[i].pc = "held" /\ timely[i] => ~Freed(At(i))

\* An iteration that meets no freed client visits every client that was there
\* when it began and stays: rfbMarkRegionAsModified reaches all who need it.
VisitsAll == \A i \in Threads : it[i].pc = "end" => due[i] = {}

\* "Routines to iterate over the client list in a thread-safe way" (rfb.h): an
\* iterator never stands on a freed client.
IteratorsSafe == \A i \in Threads : it[i].pc # "lost"

\* "the loop in there will then break because the rfbShutdownSockets() above has
\* set screen->socketState" (rfbShutdownServer, on the listener).
ListenerEnds == shutdown = "listener" ~> listener = "ended"

\* A closed client gets rid of its output thread and is freed in the end.
ClosedIsFreed == \A c \in Clients : ~open[c] /\ input[c] = "run" ~> Freed(c)
=============================================================================
