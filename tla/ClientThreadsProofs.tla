------------------------ MODULE ClientThreadsProofs ------------------------
(***************************************************************************)
(* Proofs about ClientThreads, for any number of clients and of threads    *)
(* that iterate over them: the list stays well formed, and a client is     *)
(* freed only after its threads have ended and after every reference taken *)
(* while it was in the list has been dropped; an iteration that ends has   *)
(* visited every client that was open when it began and still is.          *)
(***************************************************************************)
EXTENDS ClientThreads, ClientListProofs, FiniteSetTheorems, TLAPS

\* The threads that hold a reference are finitely many.
LEMMA HoldersFinite ==
    ASSUME NEW c
    PROVE  IsFiniteSet(Holders(c)) /\ Cardinality(Holders(c)) \in Nat
<1>1. IsFiniteSet(Threads)
  BY ThreadsAssumption, FS_AddElement DEF Threads
<1> QED BY <1>1, FS_Subset, FS_CardinalityType DEF Holders

\* One holder more, or one less, counts one more, or one less.
LEMMA HolderArrives ==
    ASSUME NEW c, NEW i, i \notin Holders(c), Holders(c)' = Holders(c) \cup {i}
    PROVE  Cardinality(Holders(c)') = Cardinality(Holders(c)) + 1
BY HoldersFinite, FS_AddElement

\* Who lets go of a client was one of its holders.
LEMMA HolderLeaves ==
    ASSUME NEW c, NEW i, i \in Holders(c), Holders(c)' = Holders(c) \ {i}
    PROVE  /\ Cardinality(Holders(c)') = Cardinality(Holders(c)) - 1
           /\ Cardinality(Holders(c)) >= 1
<1>1. Cardinality(Holders(c)') = Cardinality(Holders(c)) - 1
  BY HoldersFinite, FS_RemoveElement
<1>2. Cardinality(Holders(c)) # 0
  BY HoldersFinite, FS_EmptySet
<1> QED BY <1>1, <1>2, HoldersFinite

\* The initial states.
LEMMA InitIInv == Init => IInv
<1> SUFFICES ASSUME Init PROVE IInv
  OBVIOUS
<1>1. TypeOK
  BY DEF Init, ListInit, TypeOK, ListTypeOK
<1>2. RefCountExact
  <2>1. \A c \in Clients : Holders(c) = {}
    BY DEF Init, Holders
  <2>2. \A c \in Clients : Cardinality(Holders(c)) = 0
    BY <2>1, FS_EmptySet
  <2>3. \A c \in Clients : refCount[c] = 0 /\ output[c] # "send"
    BY DEF Init
  <2> QED BY <2>2, <2>3 DEF RefCountExact
<1>3. Phases
  BY DEF Init, ListInit, Phases
<1>4. Protected
  BY DEF Init, Protected, Threads
<1> QED BY <1>1, <1>2, <1>3, <1>4 DEF IInv
-----------------------------------------------------------------------------

\* An iterator lets go of its client: it goes on to the next one, or ends.
LetsGo(i) == LetGo(i, "skip", next[At(i)]) \/ LetGo(i, "off", Null)

\* Types.  Only dropping a reference could fail: that it is counted is needed.
LEMMA CountedIsPositive ==
    ASSUME IInv, NEW i \in Threads, it[i].pc = "held", ~Freed(At(i))
    PROVE  At(i) \in Clients /\ refCount[At(i)] - 1 \in Nat
<1>1. At(i) \in Clients
  BY DEF IInv, TypeOK, Protected, At
<1>2. i \in Holders(At(i))
  BY DEF Holders, At
<1>3. Cardinality(Holders(At(i))) # 0 /\ Cardinality(Holders(At(i))) \in Nat
  BY <1>2, HoldersFinite, FS_EmptySet
<1> QED BY <1>1, <1>3 DEF IInv, TypeOK, RefCountExact

\* Types: the listener thread.
LEMMA TypeOKListener == IInv /\ Listener => TypeOK'
<1> SUFFICES ASSUME IInv, Listener PROVE TypeOK'
  OBVIOUS
<1> USE DEF IInv, TypeOK, ListTypeOK, listVars, clientVars, iterVars, shutdownVars
<1>1. ASSUME NEW c \in Clients, Accept(c) PROVE TypeOK'
  BY <1>1 DEF Accept, LinkClient
<1>2. ASSUME HookAccepts PROVE TypeOK'
  BY <1>2 DEF HookAccepts, StartThreads
<1>3. ASSUME HookHolds PROVE TypeOK'
  BY <1>3 DEF HookHolds
<1>4. ASSUME TestOnHold PROVE TypeOK'
  BY <1>4 DEF TestOnHold
<1>5. ASSUME HookRefuses PROVE TypeOK'
  BY <1>5 DEF HookRefuses, CloseClient, Woken
<1>6. ASSUME Refused PROVE TypeOK'
  BY <1>6 DEF Refused
<1>7. ASSUME AcceptFails PROVE TypeOK'
  BY <1>7 DEF AcceptFails
<1>8. ASSUME ListenerWakes PROVE TypeOK'
  BY <1>8 DEF ListenerWakes
<1>9. ASSUME ListenerFails PROVE TypeOK'
  BY <1>9 DEF ListenerFails
<1> QED
  BY <1>1, <1>2, <1>3, <1>4, <1>5, <1>6, <1>7, <1>8, <1>9 DEF Listener

\* Types: a client's two threads; Sent needs the count to be positive.
LEMMA TypeOKClient ==
    ASSUME IInv, NEW c \in Clients, Client(c)
    PROVE  TypeOK'
<1> USE DEF IInv, TypeOK, ListTypeOK, listVars, listenerVars, iterVars, shutdownVars
<1>1. CASE InputCloses(c)
  BY <1>1 DEF InputCloses, CloseClient, Woken
<1>2. CASE InputEnds(c) \/ SelectFails(c) \/ SignalOutput(c) \/ JoinOutput(c) \/ AwaitRefs(c)
  BY <1>2 DEF InputEnds, SelectFails,
              SignalOutput, JoinOutput, AwaitRefs, InputStep, Woken
<1>3. CASE Unlink(c)
  BY <1>3 DEF Unlink, UnlinkClient, InputStep
<1>4. CASE Free(c)
  BY <1>4 DEF Free, FreeClient, InputStep
<1>5. CASE CheckSocket(c) \/ WaitForUpdate(c) \/ TakeUpdate(c)
  BY SMTT(30), <1>5 DEF CheckSocket, WaitForUpdate, TakeUpdate, OutputStep
<1>6. CASE Sent(c)
  <2>1. output[c] = "send" /\ ~Freed(c)
    BY <1>6 DEF Sent, OutputStep, Phases, Freed
  <2>2. refCount[c] - 1 \in Nat
    BY <2>1, HoldersFinite DEF RefCountExact
  <2> QED BY <1>6, <2>2 DEF Sent, OutputStep
<1>7. CASE SendFails(c)
  BY <1>7 DEF SendFails, CloseClient, Woken
<1>8. CASE StartOnHoldClient(c)
  BY <1>8 DEF StartOnHoldClient, StartThreads
<1>9. CASE RefuseOnHoldClient(c)
  BY <1>9 DEF RefuseOnHoldClient, CloseClient, Woken
<1> QED
  BY <1>1, <1>2, <1>3, <1>4, <1>5, <1>6, <1>7, <1>8, <1>9
  DEF Client, InputWindsUp, Output

\* The steps of an iterator, common to the application's threads and shutdown,
\* keep the types of all but the variables of rfbShutdownServer.
IterTypeOK ==
    /\ ListTypeOK
    /\ open \in [Clients -> BOOLEAN] /\ refCount \in [Clients -> Nat]
    /\ input \in [Clients -> {"none", "hold", "run", "signal", "join", "unlink", "refs",
                              "free", "ended"}]
    /\ output \in [Clients -> {"none", "check", "lock", "asleep", "send", "done"}]
    /\ listener \in {"select", "hook", "test", "refusing", "lost", "ended"}
    /\ listenerCl \in Clients \cup {Null}
    /\ listening \in BOOLEAN /\ notified \in BOOLEAN
    /\ it \in [Threads -> [pc : {"off", "skip", "ref", "held", "end", "lost"},
                           at : Clients \cup {Null}]]
    /\ due \in [Threads -> SUBSET Clients] /\ timely \in [Threads -> BOOLEAN]

\* Types: the steps all iterators share; LetGo needs the count to be positive.
LEMMA TypeOKIterator ==
    ASSUME IInv, NEW i \in Threads, ReadHead(i) \/ LetsGo(i) \/ IteratorStep(i)
    PROVE  IterTypeOK'
<1> USE DEF IInv, TypeOK, ListTypeOK, IterTypeOK, listVars, clientVars, listenerVars
<1>1. CASE ReadHead(i)
  BY <1>1 DEF ReadHead, Goto, InList
<1>2. CASE LetsGo(i)
  <2>0. timely' \in [Threads -> BOOLEAN]
    BY <1>2 DEF LetsGo, LetGo
  <2>1. CASE Freed(At(i))
    <3>1. it' = [it EXCEPT ![i] = [pc |-> "lost", at |-> it[i].at]]
      BY <1>2, <2>1 DEF LetsGo, LetGo, Goto, At
    <3> QED BY <1>2, <2>0, <2>1, <3>1 DEF LetsGo, LetGo
  <2>2. CASE ~Freed(At(i))
    <3>1. At(i) \in Clients /\ refCount[At(i)] - 1 \in Nat
      BY <1>2, <2>2, CountedIsPositive DEF LetsGo, LetGo
    <3>2. refCount' \in [Clients -> Nat]
      BY <1>2, <2>2, <3>1 DEF LetsGo, LetGo
    <3>3. it' \in [Threads -> [pc : {"off", "skip", "ref", "held", "end", "lost"},
                               at : Clients \cup {Null}]]
      BY <1>2, <2>2, <3>1 DEF LetsGo, LetGo, Goto
    <3> QED BY <1>2, <2>0, <2>2, <3>2, <3>3 DEF LetsGo, LetGo
  <2> QED BY <2>1, <2>2
<1>3. CASE SkipClosed(i)
  BY <1>3 DEF SkipClosed, Goto, At
<1>4. CASE TakeRef(i)
  <2>1. At(i) \in Clients
    BY <1>4 DEF TakeRef, Protected, At
  <2>2. CASE Freed(At(i))
    BY <1>4, <2>1, <2>2 DEF TakeRef, Goto
  <2>3. CASE ~Freed(At(i))
    <3>1. refCount' \in [Clients -> Nat]
      BY <1>4, <2>1, <2>3 DEF TakeRef
    <3>2. due' \in [Threads -> SUBSET Clients] /\ timely' \in [Threads -> BOOLEAN]
      <4> DEFINE b == At(i) \in InList
      <4>1. b \in BOOLEAN
        OBVIOUS
      <4>2. due[i] \ {At(i)} \in SUBSET Clients
        BY <2>1
      <4>3. /\ timely' = [timely EXCEPT ![i] = b]
            /\ due' = [due EXCEPT ![i] = due[i] \ {At(i)}]
        BY <1>4, <2>3 DEF TakeRef
      <4> HIDE DEF b
      <4> QED BY <4>1, <4>2, <4>3
    <3>3. it' \in [Threads -> [pc : {"off", "skip", "ref", "held", "end", "lost"},
                               at : Clients \cup {Null}]]
      BY <1>4, <2>1, <2>3 DEF TakeRef, Goto
    <3> QED BY <1>4, <3>1, <3>2, <3>3 DEF TakeRef
  <2> QED BY <2>2, <2>3
<1>5. CASE EndOfList(i)
  BY <1>5 DEF EndOfList, Goto
<1> QED
  BY <1>1, <1>2, <1>3, <1>4, <1>5 DEF IteratorStep

\* Types: an application thread over the clients.
LEMMA TypeOKWorker ==
    ASSUME IInv, NEW i \in Workers, Worker(i)
    PROVE  TypeOK'
<1> USE DEF IInv, TypeOK, ListTypeOK, listVars, clientVars, listenerVars, shutdownVars
<1>0. i \in Threads
  BY DEF Threads
<1>1. CASE WorkerStarts(i) \/ WorkerAdvances(i) \/ WorkerBreaksOff(i) \/ IteratorStep(i)
  <2>1. IterTypeOK'
    BY <1>0, <1>1, TypeOKIterator
    DEF WorkerStarts, WorkerAdvances, WorkerBreaksOff, Advance, LetsGo
  <2>2. UNCHANGED shutdownVars
    BY <1>1 DEF WorkerStarts, WorkerAdvances, WorkerBreaksOff, IteratorStep, SkipClosed,
                TakeRef, EndOfList
  <2> QED BY <2>1, <2>2 DEF IterTypeOK
<1>2. CASE WorkerSignals(i)
  BY ZenonT(30), <1>2 DEF WorkerSignals, Woken, iterVars
<1>3. CASE WorkerCloses(i)
  BY ZenonT(30), <1>3 DEF WorkerCloses, CloseClient, Woken
<1>4. CASE WorkerReleases(i)
  BY ZenonT(30), <1>4 DEF WorkerReleases, Goto
<1> QED
  BY <1>1, <1>2, <1>3, <1>4 DEF Worker, WorkerGoesOn

\* Types: rfbShutdownServer.
LEMMA TypeOKShutdown == IInv /\ (ShutdownStarts \/ ShutdownGoesOn) => TypeOK'
<1> SUFFICES ASSUME IInv, ShutdownStarts \/ ShutdownGoesOn PROVE TypeOK'
  OBVIOUS
<1> USE DEF IInv, TypeOK, ListTypeOK, listVars, clientVars, listenerVars, shutdownVars
<1>0. Shutdown \in Threads
  BY DEF Threads
<1>1. CASE ShutdownStarts \/ FirstClient \/ Joined \/ IteratorStep(Shutdown)
  <2>1. IterTypeOK'
    BY <1>0, <1>1, TypeOKIterator DEF ShutdownStarts, FirstClient, Joined, Advance, LetsGo
  <2>2. /\ shutdown' \in {"off", "first", "next", "join", "joining", "listener", "done",
                          "lost"}
        /\ currentCl' \in Clients \cup {Null}
    BY <1>0, <1>1
    DEF ShutdownStarts, FirstClient, Joined, IteratorStep, SkipClosed, TakeRef, EndOfList,
        At
  <2> QED BY <2>1, <2>2 DEF IterTypeOK
<1>2. CASE NextClientKnown
  <2>1. CASE open[currentCl] /\ ~Freed(currentCl)
    <3>0. CloseClient(currentCl)
      BY <1>2, <2>1 DEF NextClientKnown
    <3>1. open' \in [Clients -> BOOLEAN] /\ due' \in [Threads -> SUBSET Clients]
      BY <3>0 DEF CloseClient
    <3>2. output' \in [Clients -> {"none", "check", "lock", "asleep", "send", "done"}]
      BY <3>0 DEF CloseClient, Woken
    <3> QED BY <1>2, <2>1, <3>1, <3>2 DEF NextClientKnown
  <2>2. CASE ~(open[currentCl] /\ ~Freed(currentCl))
    BY <1>2, <2>2 DEF NextClientKnown
  <2> QED BY <2>1, <2>2
<1>3. CASE CallJoin \/ ShutdownSockets \/ JoinListener
  BY <1>3 DEF CallJoin, ShutdownSockets, JoinListener, iterVars
<1> QED
  BY <1>1, <1>2, <1>3 DEF ShutdownGoesOn
-----------------------------------------------------------------------------
\* Counts.  Most steps neither take nor drop a reference.
LEMMA HoldersKept ==
    ASSUME \A i \in Threads : it'[i] = it[i] \/ (it'[i].pc # "held" /\ it[i].pc # "held"),
           NEW c
    PROVE  Holders(c)' = Holders(c)
BY DEF Holders, At

\* Counts stay exact while references, holders and sends stay as they are.
LEMMA CountsKept ==
    ASSUME TypeOK, RefCountExact, refCount' = refCount,
           \A c \in Clients : Holders(c)' = Holders(c),
           \A c \in Clients : output'[c] = "send" <=> output[c] = "send",
           \A c \in Clients : life[c] = "freed" => life'[c] = "freed"
    PROVE  RefCountExact'
BY DEF RefCountExact, Freed

\* Counts: the listener thread.
LEMMA CountsListener == IInv /\ Listener => RefCountExact'
<1> SUFFICES ASSUME IInv, Listener PROVE RefCountExact'
  OBVIOUS
<1> USE DEF IInv
<1>1. \A c \in Clients : Holders(c)' = Holders(c)
  <2>1. it' = it
    BY DEF Listener, Accept, HookAccepts, HookHolds, TestOnHold, HookRefuses, Refused,
           AcceptFails, ListenerWakes, ListenerFails, iterVars
  <2> QED BY <2>1, HoldersKept
<1>2. refCount' = refCount
  BY DEF Listener, Accept, HookAccepts, HookHolds, TestOnHold, HookRefuses, Refused,
         AcceptFails, ListenerWakes, ListenerFails, clientVars
<1>3. \A c \in Clients : life[c] = "freed" => life'[c] = "freed"
  BY DEF Listener, Accept, LinkClient, HookAccepts, HookHolds, TestOnHold, HookRefuses,
         Refused, AcceptFails, ListenerWakes, ListenerFails, listVars, TypeOK, ListTypeOK
<1>4. \A c \in Clients : output'[c] = "send" <=> output[c] = "send"
  <2>1. CASE HookAccepts
    BY <2>1 DEF HookAccepts, StartThreads, Phases, TypeOK
  <2>2. CASE HookRefuses
    BY <2>2 DEF HookRefuses, CloseClient, Woken, TypeOK
  <2>3. CASE ~HookAccepts /\ ~HookRefuses
    BY <2>3 DEF Listener, Accept, HookHolds, TestOnHold, Refused, AcceptFails,
                ListenerWakes, ListenerFails, clientVars
  <2> QED BY <2>1, <2>2, <2>3
<1> QED BY <1>1, <1>2, <1>3, <1>4, CountsKept

\* Counts: a client's two threads.
LEMMA CountsClient ==
    ASSUME IInv, NEW c \in Clients, Client(c)
    PROVE  RefCountExact'
<1> USE DEF IInv
<1>1. \A d \in Clients : Holders(d)' = Holders(d)
  <2>1. it' = it
    BY DEF Client, InputCloses, InputWindsUp, InputEnds, SelectFails,
           SignalOutput, JoinOutput, Unlink,
           AwaitRefs, Free, Output, CheckSocket, WaitForUpdate, TakeUpdate, Sent, SendFails,
           StartOnHoldClient, RefuseOnHoldClient, iterVars
  <2> QED BY <2>1, HoldersKept
<1>2. \A d \in Clients : life[d] = "freed" => life'[d] = "freed"
  <2>1. CASE Unlink(c)
    BY <2>1 DEF Unlink, UnlinkClient, TypeOK, ListTypeOK
  <2>2. CASE Free(c)
    BY <2>2 DEF Free, FreeClient, TypeOK, ListTypeOK
  <2>3. CASE ~Unlink(c) /\ ~Free(c)
    BY <2>3 DEF Client, InputCloses, InputWindsUp, InputEnds, SelectFails,
                SignalOutput, JoinOutput,
                AwaitRefs, Output, CheckSocket, WaitForUpdate, TakeUpdate, Sent, SendFails,
                StartOnHoldClient, RefuseOnHoldClient, listVars
  <2> QED BY <2>1, <2>2, <2>3
<1>3. CASE TakeUpdate(c)
  <2>1. output[c] = "lock" /\ output' = [output EXCEPT ![c] = "send"]
        /\ refCount' = [refCount EXCEPT ![c] = @ + 1]
    BY <1>3 DEF TakeUpdate, OutputStep
  <2>2. ASSUME NEW d \in Clients, ~Freed(d)'
        PROVE  refCount'[d] = Cardinality(Holders(d)')
                                + (IF output'[d] = "send" THEN 1 ELSE 0)
    BY <1>1, <1>2, <2>1, <2>2, HoldersFinite DEF RefCountExact, Freed, TypeOK
  <2> QED BY <2>2 DEF RefCountExact
<1>4. CASE Sent(c)
  <2>1. output[c] = "send" /\ output' = [output EXCEPT ![c] = "check"]
        /\ refCount' = [refCount EXCEPT ![c] = @ - 1]
    BY <1>4 DEF Sent, OutputStep
  <2>2. ASSUME NEW d \in Clients, ~Freed(d)'
        PROVE  refCount'[d] = Cardinality(Holders(d)')
                                + (IF output'[d] = "send" THEN 1 ELSE 0)
    BY <1>1, <1>2, <2>1, <2>2, HoldersFinite DEF RefCountExact, Freed, TypeOK
  <2> QED BY <2>2 DEF RefCountExact
<1>5. CASE ~TakeUpdate(c) /\ ~Sent(c)
  <2>1. refCount' = refCount
    BY <1>5 DEF Client, InputCloses, InputWindsUp, InputEnds, SelectFails,
                SignalOutput, JoinOutput,
           Unlink, AwaitRefs, Free, Output, CheckSocket, WaitForUpdate, SendFails,
           StartOnHoldClient, RefuseOnHoldClient, clientVars
  <2>2. \A d \in Clients : output'[d] = "send" <=> output[d] = "send"
    <3>1. CASE CheckSocket(c) \/ WaitForUpdate(c)
      BY <3>1 DEF CheckSocket, WaitForUpdate, OutputStep, TypeOK
    <3>2. CASE StartOnHoldClient(c)
      BY <3>2 DEF StartOnHoldClient, StartThreads, Phases, TypeOK
    <3>3. CASE InputCloses(c) \/ SendFails(c) \/ RefuseOnHoldClient(c) \/ SignalOutput(c)
      BY <3>3 DEF InputCloses, SendFails, RefuseOnHoldClient, SignalOutput, CloseClient,
                  InputStep, Woken, TypeOK
    <3>4. CASE InputEnds(c) \/ SelectFails(c) \/ JoinOutput(c)
               \/ Unlink(c) \/ AwaitRefs(c) \/ Free(c)
      BY <3>4 DEF InputEnds, SelectFails, JoinOutput, Unlink, AwaitRefs, Free
    <3> QED BY <1>5, <3>1, <3>2, <3>3, <3>4 DEF Client, InputWindsUp, Output
  <2> QED BY <1>1, <1>2, <2>1, <2>2, CountsKept
<1> QED BY <1>3, <1>4, <1>5

\* Counts: taking a reference and letting it go.
LEMMA CountsIterator ==
    ASSUME IInv, NEW i \in Threads,
           (it[i].pc = "off" /\ ReadHead(i)) \/ LetsGo(i) \/ IteratorStep(i)
    PROVE  RefCountExact'
<1> USE DEF IInv
<1>0. /\ UNCHANGED <<life, output>>
      /\ it \in [Threads -> [pc : {"off", "skip", "ref", "held", "end", "lost"},
                              at : Clients \cup {Null}]]
  <2>1. UNCHANGED <<life, output>>
    BY DEF ReadHead, LetsGo, LetGo, IteratorStep, SkipClosed, TakeRef, EndOfList, listVars,
           clientVars
  <2> QED BY <2>1 DEF TypeOK
<1>1. CASE (it[i].pc = "off" /\ ReadHead(i)) \/ SkipClosed(i) \/ EndOfList(i)
  <2>1. refCount' = refCount
    BY <1>1 DEF ReadHead, SkipClosed, EndOfList, clientVars
  <2>2. it[i].pc # "held" /\ it'[i].pc # "held" /\ \A j \in Threads : j # i => it'[j] = it[j]
    BY <1>0, <1>1 DEF ReadHead, SkipClosed, EndOfList, Goto
  <2> QED BY <1>0, <2>1, <2>2, HoldersKept, CountsKept
<1>2. CASE LetsGo(i)
  <2> PICK c \in Clients : c = At(i)
    BY <1>2 DEF LetsGo, LetGo, Protected, At, TypeOK
  <2>0. i \in Holders(c) /\ it[i].pc = "held" /\ it[i].at = c
    BY <1>2 DEF LetsGo, LetGo, Holders, At
  <2>1. it'[i].pc # "held" /\ \A j \in Threads : j # i => it'[j] = it[j]
    BY <1>0, <1>2 DEF LetsGo, LetGo, Goto
  <2>2. Holders(c)' = Holders(c) \ {i}
    BY <2>0, <2>1 DEF Holders, At
  <2>3. \A d \in Clients : d # c => Holders(d)' = Holders(d)
    BY <2>0, <2>1 DEF Holders, At
  <2>4. ~Freed(c) => refCount' = [refCount EXCEPT ![c] = @ - 1]
    BY <1>2 DEF LetsGo, LetGo
  <2>5. Freed(c) => refCount' = refCount
    BY <1>2 DEF LetsGo, LetGo
  <2>6. Cardinality(Holders(c)') = Cardinality(Holders(c)) - 1
    BY <2>0, <2>2, HolderLeaves
  <2>7. ASSUME NEW d \in Clients, ~Freed(d)'
        PROVE  refCount'[d] = Cardinality(Holders(d)')
                                + (IF output'[d] = "send" THEN 1 ELSE 0)
    <3>1. CASE d = c
      BY <1>0, <2>0, <2>4, <2>6, <2>7, <3>1, HoldersFinite
      DEF RefCountExact, Freed, TypeOK
    <3>2. CASE d # c
      BY <1>0, <2>3, <2>4, <2>5, <2>7, <3>2 DEF RefCountExact, Freed, TypeOK
    <3> QED BY <3>1, <3>2
  <2> QED BY <2>7 DEF RefCountExact
<1>3. CASE TakeRef(i)
  <2> PICK c \in Clients : c = At(i)
    BY <1>3 DEF TakeRef, Protected, At, TypeOK
  <2>0. it[i].pc = "ref" /\ i \notin Holders(c)
    BY <1>3 DEF TakeRef, Holders, At
  <2>1. CASE Freed(c)
    <3>1. /\ refCount' = refCount /\ it'[i].pc # "held"
          /\ \A j \in Threads : j # i => it'[j] = it[j]
      BY <1>0, <1>3, <2>1 DEF TakeRef, Goto
    <3> QED BY <1>0, <2>0, <3>1, HoldersKept, CountsKept
  <2>2. CASE ~Freed(c)
    <3>1. it'[i] = [pc |-> "held", at |-> c] /\ \A j \in Threads : j # i => it'[j] = it[j]
      BY <1>0, <1>3, <2>2 DEF TakeRef, Goto
    <3>2. Holders(c)' = Holders(c) \cup {i}
      BY <2>0, <3>1 DEF Holders, At
    <3>3. \A d \in Clients : d # c => Holders(d)' = Holders(d)
      BY <2>0, <3>1 DEF Holders, At
    <3>4. refCount' = [refCount EXCEPT ![c] = @ + 1]
      BY <1>3, <2>2 DEF TakeRef
    <3>5. Cardinality(Holders(c)') = Cardinality(Holders(c)) + 1
      BY <2>0, <3>2, HolderArrives
    <3>6. ASSUME NEW d \in Clients, ~Freed(d)'
          PROVE  refCount'[d] = Cardinality(Holders(d)')
                                  + (IF output'[d] = "send" THEN 1 ELSE 0)
      <4>1. CASE d = c
        BY <1>0, <2>0, <3>4, <3>5, <3>6, <4>1, HoldersFinite
        DEF RefCountExact, Freed, TypeOK
      <4>2. CASE d # c
        BY <1>0, <3>3, <3>4, <3>6, <4>2 DEF RefCountExact, Freed, TypeOK
      <4> QED BY <4>1, <4>2
    <3> QED BY <3>6 DEF RefCountExact
  <2> QED BY <2>1, <2>2
<1> QED BY <1>1, <1>2, <1>3 DEF IteratorStep

\* Counts: an application thread over the clients.
LEMMA CountsWorker ==
    ASSUME IInv, NEW i \in Workers, Worker(i)
    PROVE  RefCountExact'
<1> USE DEF IInv
<1>0. i \in Threads
  BY DEF Threads
<1>1. CASE WorkerStarts(i) \/ WorkerAdvances(i) \/ WorkerBreaksOff(i) \/ IteratorStep(i)
  BY <1>0, <1>1, CountsIterator
  DEF WorkerStarts, WorkerAdvances, WorkerBreaksOff, Advance, LetsGo
<1>2. CASE WorkerSignals(i) \/ WorkerCloses(i)
  <2>1. UNCHANGED <<life, refCount, it>>
    BY <1>2 DEF WorkerSignals, WorkerCloses, listVars, iterVars
  <2>2. \A c \in Clients : output'[c] = "send" <=> output[c] = "send"
    BY <1>2 DEF WorkerSignals, WorkerCloses, CloseClient, Woken, TypeOK
  <2> QED BY <2>1, <2>2, HoldersKept, CountsKept
<1>3. CASE WorkerReleases(i)
  <2>1. UNCHANGED <<life, refCount, output>> /\ it[i].pc = "end"
        /\ it' = [it EXCEPT ![i] = [pc |-> "off", at |-> Null]]
    BY <1>3 DEF WorkerReleases, Goto, listVars, clientVars
  <2>2. \A j \in Threads : it'[j] = it[j] \/ (it'[j].pc # "held" /\ it[j].pc # "held")
    BY <1>0, <2>1 DEF TypeOK
  <2> QED BY <2>1, <2>2, HoldersKept, CountsKept
<1> QED BY <1>1, <1>2, <1>3 DEF Worker, WorkerGoesOn

\* Counts: rfbShutdownServer.
LEMMA CountsShutdown == IInv /\ (ShutdownStarts \/ ShutdownGoesOn) => RefCountExact'
<1> SUFFICES ASSUME IInv, ShutdownStarts \/ ShutdownGoesOn PROVE RefCountExact'
  OBVIOUS
<1> USE DEF IInv
<1>0. Shutdown \in Threads
  BY DEF Threads
<1>1. CASE ShutdownStarts \/ FirstClient \/ Joined \/ IteratorStep(Shutdown)
  BY <1>0, <1>1, CountsIterator
     DEF ShutdownStarts, FirstClient, Joined, Advance, LetsGo, Protected
<1>2. CASE NextClientKnown \/ CallJoin \/ ShutdownSockets \/ JoinListener
  <2>1. UNCHANGED <<life, refCount, it>>
    BY <1>2 DEF NextClientKnown, CallJoin, ShutdownSockets, JoinListener, listVars,
                clientVars, iterVars
  <2>2. \A c \in Clients : output'[c] = "send" <=> output[c] = "send"
    BY <1>2 DEF NextClientKnown, CallJoin, ShutdownSockets, JoinListener, CloseClient,
                Woken, TypeOK, clientVars
  <2> QED BY <2>1, <2>2, HoldersKept, CountsKept
<1> QED BY <1>1, <1>2 DEF ShutdownGoesOn
-----------------------------------------------------------------------------

\* Phases.  Only the listener and a client's own threads move them on.
LEMMA PhasesListener == IInv /\ Listener => Phases'
<1> SUFFICES ASSUME IInv, Listener PROVE Phases'
  OBVIOUS
<1> USE DEF IInv, TypeOK, ListTypeOK, Phases, listVars, clientVars
<1>1. ASSUME NEW c \in Clients, Accept(c) PROVE Phases'
  BY <1>1 DEF Accept, LinkClient
<1>2. CASE HookAccepts
  BY <1>2 DEF HookAccepts, StartThreads
<1>3. CASE HookHolds
  BY <1>3 DEF HookHolds
<1>4. CASE HookRefuses
  BY <1>4 DEF HookRefuses, CloseClient, Woken
<1>5. CASE TestOnHold \/ Refused \/ AcceptFails \/ ListenerWakes
          \/ ListenerFails
  BY <1>5 DEF TestOnHold, Refused, AcceptFails, ListenerWakes, ListenerFails
<1> QED BY <1>1, <1>2, <1>3, <1>4, <1>5 DEF Listener

\* Phases: a client's own threads go through them in order.
LEMMA PhasesClient ==
    ASSUME IInv, NEW c \in Clients, Client(c)
    PROVE  Phases'
<1> USE DEF IInv, TypeOK, ListTypeOK, Phases, listVars, listenerVars
<1>1. CASE InputCloses(c) \/ SendFails(c)
  BY <1>1 DEF InputCloses, SendFails, CloseClient, Woken
<1>2. CASE InputEnds(c) \/ SelectFails(c) \/ JoinOutput(c) \/ AwaitRefs(c)
  BY <1>2 DEF InputEnds, SelectFails, JoinOutput, AwaitRefs, InputStep
<1>3. CASE SignalOutput(c)
  BY <1>3 DEF SignalOutput, InputStep, Woken
<1>4. CASE Unlink(c)
  BY <1>4 DEF Unlink, UnlinkClient, InputStep
<1>5. CASE Free(c)
  BY <1>5 DEF Free, FreeClient, InputStep
<1>6. CASE Output(c)
  BY <1>6 DEF Output, CheckSocket, WaitForUpdate, TakeUpdate, Sent, OutputStep
<1>7. CASE StartOnHoldClient(c)
  BY <1>7 DEF StartOnHoldClient, StartThreads
<1>8. CASE RefuseOnHoldClient(c)
  BY <1>8 DEF RefuseOnHoldClient, CloseClient, Woken
<1> QED
  BY <1>1, <1>2, <1>3, <1>4, <1>5, <1>6, <1>7, <1>8 DEF Client, InputWindsUp

\* Signals and closed sockets do not end or start a thread.
LEMMA PhasesKept ==
    ASSUME TypeOK, Phases, UNCHANGED <<life, input, listener, listenerCl>>,
           output' = output \/ \E c \in Clients \cup {Null} :
                                 output' = [output EXCEPT ![c] = Woken(@)]
    PROVE  Phases'
BY DEF TypeOK, Phases, Woken

\* Phases: nobody else moves a client from one to another.
LEMMA PhasesOthers ==
    ASSUME IInv, ShutdownStarts \/ ShutdownGoesOn \/ \E i \in Workers : Worker(i)
    PROVE  Phases'
<1> USE DEF IInv
<1>1. UNCHANGED <<life, input, listener, listenerCl>>
  BY DEF ShutdownStarts, ShutdownGoesOn, FirstClient, NextClientKnown, CallJoin, Joined,
         ShutdownSockets, JoinListener, Worker, WorkerGoesOn, WorkerStarts, WorkerAdvances,
         WorkerBreaksOff, Advance, LetGo, WorkerSignals, WorkerCloses, WorkerReleases, ReadHead,
         IteratorStep, SkipClosed, TakeRef, EndOfList, listVars, clientVars, listenerVars
<1>2. output' = output \/ \E c \in Clients \cup {Null} :
                            output' = [output EXCEPT ![c] = Woken(@)]
  <2>1. CASE NextClientKnown
    BY <2>1 DEF NextClientKnown, CloseClient, TypeOK
  <2>2. ASSUME NEW i \in Workers, WorkerSignals(i) \/ WorkerCloses(i)
        PROVE  At(i) \in Clients /\ output' = [output EXCEPT ![At(i)] = Woken(@)]
    BY <2>2 DEF WorkerSignals, WorkerCloses, CloseClient, Protected, At, TypeOK, Threads
  <2>3. CASE ~NextClientKnown /\ ~(\E i \in Workers : WorkerSignals(i) \/ WorkerCloses(i))
    BY <2>3
    DEF ShutdownStarts, ShutdownGoesOn, FirstClient, CallJoin, Joined, ShutdownSockets,
        JoinListener, Worker, WorkerGoesOn, WorkerStarts, WorkerAdvances, WorkerBreaksOff,
        WorkerReleases, ReadHead, Advance, LetGo, IteratorStep, SkipClosed, TakeRef,
        EndOfList, clientVars
  <2> QED BY <2>1, <2>2, <2>3
<1> QED BY <1>1, <1>2, PhasesKept
-----------------------------------------------------------------------------
\* References.  A step of a client's input thread to the last phases waits for
\* the count, and so for every holder.
LEMMA ProtectedKept ==
    ASSUME Protected, UNCHANGED <<it, timely, shutdown>>,
           \A i \in Threads : it[i].pc = "held" /\ timely[i] =>
               (input'[At(i)] \in {"free", "ended"} => input[At(i)] \in {"free", "ended"})
    PROVE  Protected'
BY DEF Protected, At

\* References in time: the listener thread.
LEMMA ProtectedListener == IInv /\ Listener => Protected'
<1> SUFFICES ASSUME IInv, Listener PROVE Protected'
  OBVIOUS
<1> USE DEF IInv
<1>1. UNCHANGED <<it, timely, shutdown>>
  BY DEF Listener, Accept, HookAccepts, HookHolds, TestOnHold, HookRefuses, Refused,
         AcceptFails, ListenerWakes, ListenerFails, iterVars, shutdownVars
<1>2. \A c \in Clients : input'[c] \in {"free", "ended"} => input[c] \in {"free", "ended"}
  BY DEF Listener, Accept, HookAccepts, StartThreads, HookHolds, TestOnHold, HookRefuses,
         Refused, AcceptFails, ListenerWakes, ListenerFails, clientVars, TypeOK
<1>3. \A i \in Threads : it[i].pc = "held" => At(i) \in Clients
  BY DEF Protected, At, TypeOK
<1> QED BY <1>1, <1>2, <1>3, ProtectedKept

\* References in time: AwaitRefs waits for them.
LEMMA ProtectedClient ==
    ASSUME IInv, NEW c \in Clients, Client(c)
    PROVE  Protected'
<1> USE DEF IInv
<1>1. UNCHANGED <<it, timely, shutdown>>
  BY DEF Client, InputCloses, InputWindsUp, InputEnds, SelectFails,
         SignalOutput, JoinOutput, Unlink,
         AwaitRefs, Free, Output, CheckSocket, WaitForUpdate, TakeUpdate, Sent, SendFails,
         StartOnHoldClient, RefuseOnHoldClient, iterVars, shutdownVars
<1>2. CASE AwaitRefs(c)
  <2>1. refCount[c] = 0 /\ ~Freed(c) /\ input' = [input EXCEPT ![c] = "free"]
    BY <1>2 DEF AwaitRefs, InputStep, Phases, Freed, TypeOK
  <2>2. Cardinality(Holders(c)) = 0
    BY <2>1, HoldersFinite DEF RefCountExact
  <2>3. Holders(c) = {}
    BY <2>2, HoldersFinite, FS_EmptySet
  <2>4. \A i \in Threads : it[i].pc = "held" => At(i) # c
    BY <2>3 DEF Holders
  <2> QED BY <1>1, <2>1, <2>4, ProtectedKept DEF TypeOK
<1>3. CASE ~AwaitRefs(c)
  <2>1. \A d \in Clients : input'[d] \in {"free", "ended"} => input[d] \in {"free", "ended"}
    BY <1>3 DEF Client, InputCloses, InputWindsUp, InputEnds, SelectFails,
                SignalOutput, JoinOutput,
                Unlink, Free, Output, CheckSocket, WaitForUpdate, TakeUpdate, Sent,
                SendFails, StartOnHoldClient, StartThreads, RefuseOnHoldClient, InputStep,
                TypeOK
  <2>2. \A i \in Threads : it[i].pc = "held" => At(i) \in Clients
    BY DEF Protected, At, TypeOK
  <2> QED BY <1>1, <2>1, <2>2, ProtectedKept
<1> QED BY <1>2, <1>3

\* What Protected says of one iterator.
ProtectedAt(i) ==
    /\ it[i].pc \in {"ref", "held"} => At(i) # Null
    /\ it[i].pc = "held" /\ timely[i] => input[At(i)] \notin {"free", "ended"}

\* References in time: taken before the client waits for references.
LEMMA ProtectedIterator ==
    ASSUME IInv, NEW i \in Threads, ReadHead(i) \/ LetsGo(i) \/ IteratorStep(i)
    PROVE  \A j \in Threads : ProtectedAt(j)'
<1> USE DEF IInv
<1>0. /\ UNCHANGED input
      /\ it \in [Threads -> [pc : {"off", "skip", "ref", "held", "end", "lost"},
                              at : Clients \cup {Null}]]
  <2>1. UNCHANGED input
    BY DEF ReadHead, LetsGo, LetGo, IteratorStep, SkipClosed, TakeRef, EndOfList, clientVars
  <2> QED BY <2>1 DEF TypeOK
<1>1. ASSUME NEW j \in Threads, j # i
      PROVE  ProtectedAt(j)'
  <2>1. it'[j] = it[j] /\ timely'[j] = timely[j]
    BY <1>0, <1>1 DEF ReadHead, LetsGo, LetGo, IteratorStep, SkipClosed, TakeRef, EndOfList, Goto,
                      TypeOK
  <2> QED BY <1>0, <2>1 DEF Protected, ProtectedAt, At
<1>2. ProtectedAt(i)'
  <2>1. CASE ReadHead(i) \/ LetsGo(i) \/ EndOfList(i)
    <3>1. it'[i].pc \notin {"ref", "held"}
      BY <1>0, <2>1 DEF ReadHead, LetsGo, LetGo, EndOfList, Goto
    <3> QED BY <3>1 DEF ProtectedAt
  <2>2. CASE SkipClosed(i)
    <3>1. it'[i].pc # "held" /\ it'[i].pc = "ref" => it'[i].at = At(i) /\ At(i) # Null
      BY <1>0, <2>2 DEF SkipClosed, Goto
    <3>2. it'[i].pc # "held"
      BY <1>0, <2>2 DEF SkipClosed, Goto
    <3> QED BY <3>1, <3>2 DEF ProtectedAt, At
  <2>3. CASE TakeRef(i)
    <3>1. At(i) \in Clients
      BY <2>3 DEF TakeRef, Protected, At, TypeOK
    <3>2. CASE Freed(At(i))
      <4>1. it'[i].pc \notin {"ref", "held"}
        BY <1>0, <2>3, <3>2 DEF TakeRef, Goto
      <4> QED BY <4>1 DEF ProtectedAt
    <3>3. CASE ~Freed(At(i))
      <4>1. it'[i].at = At(i)
        BY <1>0, <2>3, <3>3 DEF TakeRef, Goto
      <4>2. timely'[i] => At(i) \in InList
        BY <2>3, <3>3 DEF TakeRef, TypeOK
      <4>3. At(i) \in InList => input[At(i)] \notin {"free", "ended"}
        BY <3>1 DEF InList, Phases
      <4> QED BY <1>0, <3>1, <4>1, <4>2, <4>3, NullAssumption DEF ProtectedAt, At
    <3> QED BY <3>2, <3>3
  <2> QED BY <2>1, <2>2, <2>3 DEF IteratorStep
<1> QED BY <1>1, <1>2

\* References in time: an application thread over the clients.
LEMMA ProtectedWorker ==
    ASSUME IInv, NEW i \in Workers, Worker(i)
    PROVE  Protected'
<1> USE DEF IInv
<1>0. i \in Threads /\ Shutdown \in Threads /\ i # Shutdown
  BY ThreadsAssumption DEF Threads
<1>1. CASE WorkerStarts(i) \/ WorkerAdvances(i) \/ WorkerBreaksOff(i) \/ IteratorStep(i)
  <2>1. \A j \in Threads : ProtectedAt(j)'
    BY <1>0, <1>1, ProtectedIterator
    DEF WorkerStarts, WorkerAdvances, WorkerBreaksOff, Advance, LetsGo
  <2>2. it'[Shutdown] = it[Shutdown] /\ shutdown' = shutdown
    BY <1>0, <1>1
    DEF WorkerStarts, WorkerAdvances, WorkerBreaksOff, Advance, ReadHead, LetGo,
        IteratorStep, SkipClosed, TakeRef,
        EndOfList, Goto, shutdownVars, TypeOK
  <2> QED BY <2>1, <2>2 DEF Protected, ProtectedAt
<1>2. CASE WorkerSignals(i) \/ WorkerCloses(i)
  <2>1. UNCHANGED <<it, timely, shutdown, input>>
    BY <1>2 DEF WorkerSignals, WorkerCloses, iterVars, shutdownVars
  <2> QED BY <2>1, ProtectedKept
<1>3. CASE WorkerReleases(i)
  <2>1. /\ UNCHANGED <<timely, shutdown, input>>
        /\ it' = [it EXCEPT ![i] = [pc |-> "off", at |-> Null]]
    BY <1>3 DEF WorkerReleases, Goto, clientVars, shutdownVars
  <2>2. it'[i].pc = "off" /\ \A j \in Threads : j # i => it'[j] = it[j]
    BY <2>1, <1>0 DEF TypeOK
  <2> QED BY <1>0, <2>1, <2>2 DEF Protected, At
<1> QED BY <1>1, <1>2, <1>3 DEF Worker, WorkerGoesOn

\* References in time: rfbShutdownServer.
LEMMA ProtectedShutdown == IInv /\ (ShutdownStarts \/ ShutdownGoesOn) => Protected'
<1> SUFFICES ASSUME IInv, ShutdownStarts \/ ShutdownGoesOn PROVE Protected'
  OBVIOUS
<1> USE DEF IInv
<1>0. Shutdown \in Threads
  BY DEF Threads
<1>1. CASE ShutdownStarts \/ FirstClient \/ Joined \/ IteratorStep(Shutdown)
  <2>1. \A j \in Threads : ProtectedAt(j)'
    BY <1>0, <1>1, ProtectedIterator DEF ShutdownStarts, FirstClient, Joined, Advance, LetsGo
  <2>2. shutdown' # "off"
    BY <1>1 DEF ShutdownStarts, FirstClient, Joined, IteratorStep, SkipClosed, TakeRef,
                EndOfList, shutdownVars, Protected
  <2> QED BY <2>1, <2>2 DEF Protected, ProtectedAt
<1>2. CASE NextClientKnown \/ CallJoin \/ ShutdownSockets \/ JoinListener
  <2>1. UNCHANGED <<it, timely, input>> /\ shutdown # "off" /\ shutdown' # "off"
    BY <1>2 DEF NextClientKnown, CallJoin, ShutdownSockets, JoinListener, clientVars,
                iterVars
  <2> QED BY <2>1 DEF Protected, At
<1> QED BY <1>1, <1>2 DEF ShutdownGoesOn
-----------------------------------------------------------------------------
\* The inductive invariant holds in every state.
THEOREM Invariance == Spec => []IInv
<1>1. IInv /\ [Next]_vars => IInv'
  <2> SUFFICES ASSUME IInv, [Next]_vars PROVE IInv'
    OBVIOUS
  <2>1. CASE Listener
    BY <2>1, TypeOKListener, CountsListener, PhasesListener, ProtectedListener DEF IInv
  <2>2. CASE ShutdownStarts \/ ShutdownGoesOn
    BY <2>2, TypeOKShutdown, CountsShutdown, PhasesOthers, ProtectedShutdown DEF IInv
  <2>3. ASSUME NEW c \in Clients, Client(c) PROVE IInv'
    BY <2>3, TypeOKClient, CountsClient, PhasesClient, ProtectedClient DEF IInv
  <2>4. ASSUME NEW i \in Workers, Worker(i) PROVE IInv'
    BY <2>4, TypeOKWorker, CountsWorker, PhasesOthers, ProtectedWorker DEF IInv
  <2>5. CASE UNCHANGED vars
    <3>1. UNCHANGED <<clientHead, next, prev, life, open, refCount, input, output, listener,
                      listenerCl, listening, notified, it, due, timely,
                      shutdown, currentCl>>
      BY <2>5 DEF vars, listVars, clientVars, listenerVars, iterVars, shutdownVars
    <3>2. \A c : Holders(c)' = Holders(c)
      BY <3>1, HoldersKept
    <3> QED BY <3>1, <3>2
            DEF IInv, TypeOK, ListTypeOK, RefCountExact, Phases, Protected, Freed, At
  <2> QED BY <2>1, <2>2, <2>3, <2>4, <2>5 DEF Next
<1> QED BY InitIInv, <1>1, PTL DEF Spec

\* Every variable has its type, and no reference count goes below zero.
THEOREM TypeCorrect == Spec => []TypeOK
<1>1. IInv => TypeOK
  BY DEF IInv
<1> QED BY <1>1, Invariance, PTL

\* A client is freed only when neither of its threads runs any more.
THEOREM ThreadsEndBeforeFree == Spec => []ThreadsEndFirst
<1>1. IInv => ThreadsEndFirst
  BY DEF IInv, Phases, ThreadsEndFirst, Freed
<1> QED BY <1>1, Invariance, PTL

\* No client is freed while somebody holds a reference taken in time: the
\* reference counts do what rfb.h says of them.
THEOREM ReferencesAreSafe == Spec => []ReferencesProtect
<1>1. IInv => ReferencesProtect
  <2> SUFFICES ASSUME IInv, NEW i \in Threads, it[i].pc = "held", timely[i], Freed(At(i))
               PROVE  FALSE
    BY DEF ReferencesProtect
  <2>1. At(i) \in Clients
    BY DEF IInv, TypeOK, Protected, At
  <2>2. input[At(i)] = "ended"
    BY <2>1 DEF IInv, Phases, Freed
  <2> QED BY <2>2 DEF IInv, Protected
<1> QED BY <1>1, Invariance, PTL
-----------------------------------------------------------------------------
\* The list of clients stays doubly linked from its head, whoever connects and
\* disconnects and in whatever order.
THEOREM ListStaysWellFormed == Spec => []ListWellFormed
<1> DEFINE ListInv == ListWellFormed /\ Ranked
<1>1. Init => ListInv
  BY EmptyListIsWellFormed DEF Init
<1>2. IInv /\ ListInv /\ [Next]_vars => ListInv'
  <2> SUFFICES ASSUME IInv, ListInv, [Next]_vars PROVE ListInv'
    OBVIOUS
  <2>0. ListTypeOK
    BY DEF IInv, TypeOK
  <2>1. ASSUME NEW c \in Clients, Accept(c) PROVE ListInv'
    BY <2>0, <2>1, LinkKeepsList DEF Accept
  <2>2. ASSUME NEW c \in Clients, Unlink(c) PROVE ListInv'
    <3>1. UnlinkClient(c)
      BY <2>2 DEF Unlink
    <3>2. c \in InList /\ InList' = InList \ {c}
      BY <2>0, <3>1 DEF UnlinkClient, InList, ListTypeOK
    <3> QED BY <3>1, <3>2, UnlinkKeepsList DEF UnlinkClient
  <2>3. ASSUME NEW c \in Clients, Free(c) PROVE ListInv'
    <3>1. life[c] = "unlinked"
      BY <2>3 DEF Free, InputStep, IInv, Phases
    <3>2. InList' = InList /\ UNCHANGED <<clientHead, next, prev>>
      BY <2>0, <2>3, <3>1 DEF Free, FreeClient, InList, ListTypeOK
    <3> QED BY <3>2 DEF ListWellFormed, Ranked
  <2>4. CASE UNCHANGED listVars
    BY <2>4 DEF listVars, ListWellFormed, Ranked, InList
  <2>5. CASE Listener /\ ~(\E c \in Clients : Accept(c))
    <3>1. UNCHANGED listVars
      BY <2>5 DEF Listener, HookAccepts, HookHolds, TestOnHold, HookRefuses, Refused,
                  AcceptFails, ListenerWakes, ListenerFails
    <3> QED BY <3>1, <2>4
  <2>6. ASSUME NEW c \in Clients, Client(c), ~Unlink(c), ~Free(c) PROVE ListInv'
    <3>1. UNCHANGED listVars
      BY <2>6 DEF Client, InputCloses, InputWindsUp, InputEnds, SelectFails,
                  SignalOutput, JoinOutput,
             AwaitRefs, Output, CheckSocket, WaitForUpdate, TakeUpdate, Sent, SendFails,
             StartOnHoldClient, RefuseOnHoldClient
    <3> QED BY <3>1, <2>4
  <2>7. CASE ShutdownStarts \/ ShutdownGoesOn \/ \E i \in Workers : Worker(i)
    <3>1. UNCHANGED listVars
      BY <2>7 DEF ShutdownStarts, ShutdownGoesOn, FirstClient, NextClientKnown, CallJoin,
             Joined, ShutdownSockets, JoinListener, Worker, WorkerGoesOn, WorkerStarts,
             WorkerAdvances, WorkerBreaksOff, Advance, LetGo, WorkerSignals, WorkerCloses,
             WorkerReleases, ReadHead,
             IteratorStep, SkipClosed, TakeRef, EndOfList
    <3> QED BY <3>1, <2>4
  <2>8. CASE UNCHANGED vars
    BY <2>8, <2>4 DEF vars
  <2> QED BY <2>1, <2>2, <2>3, <2>5, <2>6, <2>7, <2>8 DEF Next
<1>3. ListInv => ListWellFormed
  OBVIOUS
<1> QED BY <1>1, <1>2, <1>3, Invariance, PTL DEF Spec

------------------------------------------------------------------------------

\* The clients there have been, in the order in which they were linked: whatever
\* stands behind a client in the list, now or when it was taken out, is reached
\* from it, and every later client is in front.
Ever == {c \in Clients : life[c] # "none"}

Order(rank, n) ==
    /\ rank \in [Clients -> Nat] /\ n \in Nat
    /\ \A c \in Ever : rank[c] < n /\ next[c] \in Ever \cup {Null}
    /\ \A c, d \in Ever : rank[c] = rank[d] => c = d
    /\ \A c \in Ever, d \in InList :
         rank[d] < rank[c] => next[c] # Null /\ rank[d] <= rank[next[c]]
    /\ \A d \in InList : clientHead # Null /\ rank[d] <= rank[clientHead]

\* What an iterator has still to visit is at its client or behind it.
AheadOf(i, rank) ==
    /\ it[i].pc \in {"skip", "ref"} =>
         /\ At(i) \in Ever \cup {Null}
         /\ \A d \in due[i] : At(i) # Null /\ rank[d] <= rank[At(i)]
    /\ it[i].pc = "held" => At(i) \in Ever /\ \A d \in due[i] : rank[d] < rank[At(i)]
    /\ it[i].pc = "end" => due[i] = {}

\* Only a client that is open is due.
DueIsOpen == \A i \in Threads : due[i] \subseteq {c \in InList : open[c]}

\* A client is closed before it is taken out of the list.
ClosedByThen == \A c \in Clients :
    output[c] = "done" \/ input[c] \in {"unlink", "refs", "free", "ended"} => ~open[c]

Visits(rank, n) == Order(rank, n) /\ \A i \in Threads : AheadOf(i, rank)
VisitInv == DueIsOpen /\ ClosedByThen /\ \E rank, n : Visits(rank, n)

\* There is no client yet.
LEMMA VisitInit == Init => VisitInv
<1> SUFFICES ASSUME Init PROVE VisitInv
  OBVIOUS
<1>1. Ever = {} /\ InList = {}
  BY DEF Init, ListInit, Ever, InList
<1>2. [c \in Clients |-> 0] \in [Clients -> Nat]
  OBVIOUS
<1>3. Visits([c \in Clients |-> 0], 0)
  BY <1>1, <1>2 DEF Visits, Order, AheadOf, Init
<1>4. DueIsOpen /\ ClosedByThen
  BY DEF Init, DueIsOpen, ClosedByThen
<1> QED BY <1>3, <1>4 DEF VisitInv

\* Steps that leave the list and the iterators alone, and close a client at most.
LEMMA VisitsKept ==
    ASSUME TypeOK, DueIsOpen, NEW rank, NEW n, Visits(rank, n), UNCHANGED <<listVars, it>>,
           UNCHANGED <<open, due>> \/ \E c \in Clients : CloseClient(c)
    PROVE  Visits(rank, n)' /\ DueIsOpen'
<1>1. /\ \A i \in Threads : due'[i] \subseteq due[i]
      /\ \A i \in Threads : \A c \in due'[i] : open'[c] = open[c]
  BY DEF TypeOK, CloseClient
<1>2. Ever' = Ever /\ InList' = InList
  BY DEF listVars, Ever, InList
<1>3. DueIsOpen'
  BY <1>1, <1>2 DEF DueIsOpen
<1>4. ASSUME NEW i \in Threads PROVE AheadOf(i, rank)'
  BY <1>1, <1>2 DEF Visits, AheadOf, At
<1>5. Order(rank, n)'
  BY <1>2 DEF Visits, Order, listVars
<1> QED BY <1>3, <1>4, <1>5 DEF Visits

\* rfbNewTCPOrUDPClient: the new client is in front of all others.
LEMMA VisitsAccept ==
    ASSUME IInv, ListWellFormed, DueIsOpen, NEW rank, NEW n, Visits(rank, n),
           NEW c \in Clients, Accept(c)
    PROVE  DueIsOpen' /\ \E r, m : Visits(r, m)'
<1> DEFINE new == [rank EXCEPT ![c] = n]
<1>1. /\ c \notin Ever /\ Ever' = Ever \cup {c} /\ InList' = InList \cup {c}
      /\ clientHead' = c /\ next' = [next EXCEPT ![c] = clientHead]
      /\ open' = [open EXCEPT ![c] = TRUE] /\ UNCHANGED <<it, due>>
  BY DEF Accept, LinkClient, Ever, InList, IInv, TypeOK, ListTypeOK, iterVars
<1>2. /\ InList \subseteq Ever /\ clientHead \in Clients \cup {Null} /\ Ever \subseteq Clients
      /\ next \in [Clients -> Clients \cup {Null}]
  BY DEF InList, Ever, IInv, TypeOK, ListTypeOK
<1>3. DueIsOpen'
  BY <1>1, <1>2 DEF DueIsOpen, IInv, TypeOK
<1>4. new \in [Clients -> Nat] /\ new[c] = n /\ \A d \in Ever : new[d] = rank[d] /\ rank[d] < n
  BY <1>1, <1>2 DEF Visits, Order
<1>5. clientHead \in InList \cup {Null} /\ \A d \in InList : rank[d] <= rank[clientHead]
  BY DEF ListWellFormed, Visits, Order
<1>6. ASSUME NEW d \in Ever'
      PROVE  new[d] < n + 1 /\ next'[d] \in Ever' \cup {Null}
  <2>1. CASE d = c
    BY <1>1, <1>2, <1>4, <1>5, <2>1 DEF Visits, Order
  <2>2. CASE d # c
    BY <1>1, <1>2, <1>4, <2>2 DEF Visits, Order
  <2> QED BY <2>1, <2>2
<1>7. ASSUME NEW d \in Ever', NEW e \in Ever', new[d] = new[e] PROVE d = e
  <2>1. CASE d = c \/ e = c
    BY <1>1, <1>2, <1>4, <1>7, <2>1 DEF Visits, Order
  <2>2. CASE d # c /\ e # c
    BY <1>1, <1>2, <1>4, <1>7, <2>2 DEF Visits, Order
  <2> QED BY <2>1, <2>2
<1>8. ASSUME NEW d \in Ever', NEW e \in InList', new[e] < new[d]
      PROVE  next'[d] # Null /\ new[e] <= new[next'[d]]
  <2>1. e \in Ever /\ e \in InList /\ e # c
    <3>1. e # c
      <4>1. new[d] <= n
        BY <1>1, <1>2, <1>4 DEF Visits, Order
      <4> QED BY <1>1, <1>2, <1>4, <1>8, <4>1 DEF Visits, Order
    <3> QED BY <1>1, <1>2, <3>1
  <2>2. CASE d = c
    <3>1. next'[d] = clientHead /\ clientHead # Null
      BY <1>1, <1>2, <2>1, <2>2 DEF Visits, Order
    <3> QED BY <1>2, <1>4, <1>5, <2>1, <3>1
  <2>3. CASE d # c
    <3>1. d \in Ever /\ next'[d] = next[d]
      BY <1>1, <1>2, <2>3
    <3>2. next[d] # Null /\ rank[e] <= rank[next[d]] /\ next[d] \in Ever
      BY <1>4, <1>8, <2>1, <3>1 DEF Visits, Order
    <3> QED BY <1>4, <2>1, <3>1, <3>2
  <2> QED BY <2>2, <2>3
<1>9. \A d \in InList' : clientHead' # Null /\ new[d] <= new[clientHead']
  <2>1. c # Null
    BY NullAssumption
  <2>2. ASSUME NEW d \in InList' PROVE new[d] <= new[c]
    BY <1>1, <1>2, <1>4 DEF Visits, Order
  <2> QED BY <1>1, <2>1, <2>2
<1> HIDE DEF new
<1>10. Order(new, n + 1)'
  BY <1>4, <1>6, <1>7, <1>8, <1>9 DEF Visits, Order
<1>11. ASSUME NEW i \in Threads PROVE AheadOf(i, new)'
  <2>1. \A d \in due[i] : d \in Ever
    BY <1>2 DEF DueIsOpen
  <2>2. AheadOf(i, rank)
    BY DEF Visits
  <2> QED BY <1>1, <1>4, <2>1, <2>2 DEF AheadOf, At
<1> QED BY <1>3, <1>10, <1>11 DEF Visits

\* rfbClientConnectionGone takes out a client that is closed.
LEMMA VisitsUnlink ==
    ASSUME IInv, ListWellFormed, DueIsOpen, ClosedByThen, NEW rank, NEW n, Visits(rank, n),
           NEW c \in Clients, Unlink(c)
    PROVE  DueIsOpen' /\ ClosedByThen' /\ Visits(rank, n)'
<1>1. /\ c \in InList /\ Ever' = Ever /\ InList' = InList \ {c}
      /\ \A d \in Clients : next'[d] = IF d = prev[c] THEN next[c] ELSE next[d]
      /\ clientHead' = IF prev[c] = Null THEN next[c] ELSE clientHead
      /\ UNCHANGED <<it, due, open, output>> /\ input[c] = "unlink"
      /\ input' = [input EXCEPT ![c] = "refs"]
  BY DEF Unlink, UnlinkClient, InputStep, Ever, InList, IInv, TypeOK, ListTypeOK, iterVars
<1>2. InList \subseteq Ever /\ Ever \subseteq Clients
  BY DEF InList, Ever
<1>3. ClosedByThen'
  BY <1>1 DEF ClosedByThen, IInv, TypeOK
<1>4. DueIsOpen'
  BY <1>1 DEF DueIsOpen, ClosedByThen
<1>5. /\ prev[c] \in InList \cup {Null} /\ next[c] \in InList \cup {Null}
      /\ prev[c] # Null => next[prev[c]] = c /\ c \in Clients
      /\ prev[c] = Null => c = clientHead
  BY <1>1 DEF ListWellFormed
<1>6. \A d, e \in Ever : rank[d] \in Nat /\ (rank[d] = rank[e] => d = e)
  BY <1>2 DEF Visits, Order
<1>7. ASSUME NEW d \in InList', rank[d] < rank[c]
      PROVE  next[c] # Null /\ rank[d] <= rank[next[c]]
  BY <1>1, <1>2, <1>7 DEF Visits, Order
<1>8. ASSUME NEW d \in Ever
      PROVE  rank[d] < n /\ next'[d] \in Ever \cup {Null}
  BY <1>1, <1>2, <1>5 DEF Visits, Order
<1>9. ASSUME NEW d \in Ever, NEW e \in InList', rank[e] < rank[d]
      PROVE  next'[d] # Null /\ rank[e] <= rank[next'[d]]
  <2>1. e \in InList /\ e # c /\ next[d] # Null /\ rank[e] <= rank[next[d]]
    BY <1>1, <1>9 DEF Visits, Order
  <2>2. CASE d = prev[c]
    <3>1. next[d] = c
      BY <1>2, <1>5, <2>2, NullAssumption
    <3>2. rank[e] < rank[c]
      BY <1>1, <1>2, <1>6, <2>1, <3>1
    <3> QED BY <1>1, <1>2, <1>7, <1>9, <2>2, <3>2
  <2>3. CASE d # prev[c]
    BY <1>1, <1>2, <2>1, <2>3
  <2> QED BY <2>2, <2>3
<1>10. ASSUME NEW d \in InList'
       PROVE  clientHead' # Null /\ rank[d] <= rank[clientHead']
  <2>1. d \in InList /\ d # c /\ clientHead # Null /\ rank[d] <= rank[clientHead]
    BY <1>1 DEF Visits, Order
  <2>2. CASE prev[c] = Null
    <3>1. rank[d] < rank[c]
      BY <1>1, <1>2, <1>5, <1>6, <2>1, <2>2
    <3> QED BY <1>1, <1>7, <2>2, <3>1
  <2>3. CASE prev[c] # Null
    BY <1>1, <2>1, <2>3
  <2> QED BY <2>2, <2>3
<1>11. Order(rank, n)'
  BY <1>1, <1>2, <1>6, <1>8, <1>9, <1>10 DEF Visits, Order
<1>12. ASSUME NEW i \in Threads PROVE AheadOf(i, rank)'
  BY <1>1 DEF Visits, AheadOf, At
<1> QED BY <1>3, <1>4, <1>11, <1>12 DEF Visits

\* Freeing a client changes nothing of the list.
LEMMA VisitsFree ==
    ASSUME IInv, DueIsOpen, NEW rank, NEW n, Visits(rank, n), NEW c \in Clients, Free(c)
    PROVE  DueIsOpen' /\ Visits(rank, n)'
<1>1. life[c] = "unlinked"
  BY DEF Free, InputStep, IInv, Phases
<1>2. Ever' = Ever /\ InList' = InList /\ UNCHANGED <<clientHead, next, it, due, open>>
  BY <1>1 DEF Free, FreeClient, Ever, InList, IInv, TypeOK, ListTypeOK, iterVars
<1>3. Order(rank, n)'
  BY <1>2 DEF Visits, Order
<1>4. \A i \in Threads : AheadOf(i, rank)'
  BY <1>2 DEF Visits, AheadOf, At
<1> QED BY <1>2, <1>3, <1>4 DEF Visits, DueIsOpen

\* A step of the iterator of a thread, or the end of its work.
IterStep(i) ==
    \/ ReadHead(i) \/ LetsGo(i) \/ IteratorStep(i)
    \/ (Goto(i, "off", Null) /\ UNCHANGED <<listVars, open, due>>)

\* An iterator goes on: nothing it has still to visit is left behind.
LEMMA VisitsIterator ==
    ASSUME IInv, ListWellFormed, DueIsOpen, NEW rank, NEW n, Visits(rank, n), NEW i \in Threads,
           IterStep(i)
    PROVE  DueIsOpen' /\ Visits(rank, n)'
<1>0. it \in [Threads -> [pc : {"off", "skip", "ref", "held", "end", "lost"},
                          at : Clients \cup {Null}]] /\ due \in [Threads -> SUBSET Clients]
  BY DEF IInv, TypeOK
<1>1. /\ UNCHANGED <<listVars, open>>
      /\ \A j \in Threads : j # i => it'[j] = it[j] /\ due'[j] = due[j]
  BY <1>0 DEF IterStep, ReadHead, LetsGo, LetGo, IteratorStep, SkipClosed, TakeRef, EndOfList, Goto, clientVars,
              iterVars
<1>2. Ever' = Ever /\ InList' = InList /\ next' = next /\ clientHead' = clientHead
  BY <1>1 DEF listVars, Ever, InList
<1>3. due'[i] \subseteq due[i] \/ due'[i] = {c \in InList : open[c]}
  BY <1>0 DEF IterStep, ReadHead, LetsGo, LetGo, IteratorStep, SkipClosed, TakeRef, EndOfList
<1>4. DueIsOpen'
  BY <1>1, <1>2, <1>3 DEF DueIsOpen
<1>5. Order(rank, n)'
  BY <1>1, <1>2 DEF Visits, Order
<1>6. ASSUME NEW j \in Threads, j # i PROVE AheadOf(j, rank)'
  BY <1>1, <1>2, <1>6 DEF Visits, AheadOf, At
<1>7. /\ due[i] \subseteq {c \in InList : open[c]} /\ InList \subseteq Ever /\ Ever \subseteq Clients
      /\ AheadOf(i, rank) /\ Null \notin Clients
  BY NullAssumption DEF Visits, DueIsOpen, InList, Ever
<1>8. ASSUME NEW c \in Ever, NEW d \in InList, rank[d] < rank[c]
      PROVE  next[c] # Null /\ rank[d] <= rank[next[c]]
  BY <1>8 DEF Visits, Order
<1>9. \A c \in Ever : next[c] \in Ever \cup {Null} /\ rank[c] \in Nat
  BY <1>7 DEF Visits, Order
<1>10. ASSUME NEW d \in Ever, NEW c \in Ever, rank[d] <= rank[c], d # c PROVE rank[d] < rank[c]
  BY <1>9, <1>10 DEF Visits, Order
<1>11. CASE ReadHead(i)
  <2>1. it'[i] = [pc |-> "skip", at |-> clientHead] /\ due'[i] = {c \in InList : open[c]}
    BY <1>0, <1>11 DEF ReadHead, Goto
  <2>2. clientHead \in Ever \cup {Null} /\ \A d \in InList : clientHead # Null
                                                  /\ rank[d] <= rank[clientHead]
    BY <1>7 DEF ListWellFormed, Visits, Order
  <2>3. AheadOf(i, rank)'
    BY <1>2, <2>1, <2>2 DEF AheadOf, At
  <2> QED BY <1>4, <1>5, <1>6, <2>3 DEF Visits
<1>12. CASE LetsGo(i)
  <2>1. due'[i] = due[i] /\ it[i].pc = "held"
    BY <1>12 DEF LetsGo, LetGo
  <2>2. CASE it'[i].pc \in {"lost", "off"}
    <3>1. AheadOf(i, rank)'
      BY <2>2 DEF AheadOf, At
    <3> QED BY <1>4, <1>5, <1>6, <3>1 DEF Visits
  <2>3. CASE it'[i].pc \notin {"lost", "off"}
    <3>1. it'[i] = [pc |-> "skip", at |-> next[At(i)]]
      BY <1>0, <1>12, <2>3 DEF LetsGo, LetGo, Goto
    <3>2. At(i) \in Ever /\ \A d \in due[i] : d \in InList /\ rank[d] < rank[At(i)]
      BY <1>7, <2>1 DEF AheadOf
    <3>3. /\ next[At(i)] \in Ever \cup {Null}
          /\ \A d \in due[i] : next[At(i)] # Null /\ rank[d] <= rank[next[At(i)]]
      BY <1>8, <1>9, <3>2
    <3>4. AheadOf(i, rank)'
      BY <1>2, <2>1, <3>1, <3>3 DEF AheadOf, At
    <3> QED BY <1>4, <1>5, <1>6, <3>4 DEF Visits
  <2> QED BY <2>2, <2>3
<1>13. CASE SkipClosed(i)
  <2>1. due'[i] = due[i] /\ it[i].pc = "skip" /\ At(i) # Null
    BY <1>13 DEF SkipClosed
  <2>2. At(i) \in Ever /\ \A d \in due[i] : d \in InList /\ open[d] /\ rank[d] <= rank[At(i)]
    BY <1>7, <2>1 DEF AheadOf
  <2>3. CASE Freed(At(i))
    <3>1. it'[i].pc = "lost"
      BY <1>0, <1>13, <2>3 DEF SkipClosed, Goto
    <3>2. AheadOf(i, rank)'
      BY <3>1 DEF AheadOf, At
    <3> QED BY <1>4, <1>5, <1>6, <3>2 DEF Visits
  <2>4. CASE ~Freed(At(i)) /\ open[At(i)]
    <3>1. it'[i] = [pc |-> "ref", at |-> At(i)]
      BY <1>0, <1>13, <2>4 DEF SkipClosed, Goto
    <3>2. AheadOf(i, rank)'
      BY <1>2, <2>1, <2>2, <3>1 DEF AheadOf, At
    <3> QED BY <1>4, <1>5, <1>6, <3>2 DEF Visits
  <2>5. CASE ~Freed(At(i)) /\ ~open[At(i)]
    <3>1. it'[i] = [pc |-> "skip", at |-> next[At(i)]]
      BY <1>0, <1>13, <2>5 DEF SkipClosed, Goto
    <3>2. \A d \in due[i] : d \in InList /\ rank[d] < rank[At(i)]
      BY <1>7, <1>10, <2>2, <2>5
    <3>3. /\ next[At(i)] \in Ever \cup {Null}
          /\ \A d \in due[i] : next[At(i)] # Null /\ rank[d] <= rank[next[At(i)]]
      BY <1>8, <1>9, <2>2, <3>2
    <3>4. AheadOf(i, rank)'
      BY <1>2, <2>1, <3>1, <3>3 DEF AheadOf, At
    <3> QED BY <1>4, <1>5, <1>6, <3>4 DEF Visits
  <2> QED BY <2>3, <2>4, <2>5
<1>14. CASE TakeRef(i)
  <2>1. it[i].pc = "ref" /\ At(i) # Null
    BY <1>14 DEF TakeRef, IInv, Protected
  <2>2. At(i) \in Ever /\ \A d \in due[i] : d \in Ever /\ rank[d] <= rank[At(i)]
    BY <1>7, <2>1 DEF AheadOf
  <2>3. CASE Freed(At(i))
    <3>1. it'[i].pc = "lost"
      BY <1>0, <1>14, <2>3 DEF TakeRef, Goto
    <3>2. AheadOf(i, rank)'
      BY <3>1 DEF AheadOf, At
    <3> QED BY <1>4, <1>5, <1>6, <3>2 DEF Visits
  <2>4. CASE ~Freed(At(i))
    <3>1. it'[i] = [pc |-> "held", at |-> At(i)] /\ due'[i] = due[i] \ {At(i)}
      BY <1>0, <1>14, <2>4 DEF TakeRef, Goto
    <3>2. \A d \in due'[i] : rank[d] < rank[At(i)]
      BY <1>10, <2>2, <3>1
    <3>3. AheadOf(i, rank)'
      BY <1>2, <2>2, <3>1, <3>2 DEF AheadOf, At
    <3> QED BY <1>4, <1>5, <1>6, <3>3 DEF Visits
  <2> QED BY <2>3, <2>4
<1>15. CASE EndOfList(i)
  <2>1. it[i].pc = "skip" /\ At(i) = Null /\ due'[i] = due[i] /\ it'[i].pc = "end"
    BY <1>0, <1>15 DEF EndOfList, Goto
  <2>2. due'[i] = {}
    BY <1>7, <2>1 DEF AheadOf
  <2>3. AheadOf(i, rank)'
    BY <2>1, <2>2 DEF AheadOf
  <2> QED BY <1>4, <1>5, <1>6, <2>3 DEF Visits
<1>16. CASE Goto(i, "off", Null)
  <2>1. it'[i].pc = "off"
    BY <1>0, <1>16 DEF Goto
  <2>2. AheadOf(i, rank)'
    BY <2>1 DEF AheadOf
  <2> QED BY <1>4, <1>5, <1>6, <2>2 DEF Visits
<1> QED BY <1>11, <1>12, <1>13, <1>14, <1>15, <1>16 DEF IterStep, IteratorStep

\* A client is taken out of the list only after clientOutput has seen it closed,
\* or was never started.
LEMMA ClosedByThenStep ==
    ASSUME IInv, ClosedByThen, Next
    PROVE  ClosedByThen'
<1> USE DEF ClosedByThen
<1>1. /\ open \in [Clients -> BOOLEAN] /\ listenerCl \in Clients \cup {Null}
      /\ input \in [Clients -> {"none", "hold", "run", "signal", "join", "unlink", "refs",
                              "free", "ended"}]
      /\ output \in [Clients -> {"none", "check", "lock", "asleep", "send", "done"}]
      /\ life \in [Clients -> {"none", "linked", "unlinked", "freed"}]
  BY DEF IInv, TypeOK, ListTypeOK
<1>2. \A c \in Clients : life[c] = "none" => input[c] = "none" /\ output[c] = "none"
  BY DEF IInv, Phases
<1>3. listener = "hook" => listenerCl \in Clients
  BY DEF IInv, Phases
<1>4. CASE UNCHANGED <<open, input, output>>
  BY <1>4
<1>5. ASSUME NEW c \in Clients, CloseClient(c), UNCHANGED input PROVE ClosedByThen'
  BY <1>1, <1>5 DEF CloseClient, Woken
<1>6. CASE Listener
  BY <1>1, <1>2, <1>3, <1>6
  DEF Listener, Accept, LinkClient, HookAccepts, StartThreads, HookHolds, TestOnHold, HookRefuses,
      CloseClient, Woken, Refused, AcceptFails, ListenerWakes, ListenerFails, clientVars
<1>7. ASSUME NEW c \in Clients, Client(c) PROVE ClosedByThen'
  <2>1. CASE InputCloses(c) \/ SendFails(c)
    BY <1>5, <2>1 DEF InputCloses, SendFails
  <2>2. CASE InputEnds(c) \/ SelectFails(c) \/ SignalOutput(c) \/ JoinOutput(c)
    BY <1>1, <2>2 DEF InputEnds, SelectFails, SignalOutput, JoinOutput, InputStep, Woken
  <2>3. CASE Unlink(c) \/ AwaitRefs(c) \/ Free(c)
    BY <1>1, <2>3 DEF Unlink, AwaitRefs, Free, InputStep
  <2>4. CASE Output(c)
    BY <1>1, <2>4 DEF Output, CheckSocket, WaitForUpdate, TakeUpdate, Sent, OutputStep
  <2>5. CASE StartOnHoldClient(c) \/ RefuseOnHoldClient(c)
    BY <1>1, <2>5 DEF StartOnHoldClient, RefuseOnHoldClient, StartThreads, CloseClient, Woken
  <2> QED BY <1>7, <2>1, <2>2, <2>3, <2>4, <2>5 DEF Client, InputWindsUp
<1>8. CASE ShutdownStarts \/ ShutdownGoesOn
  <2>1. UNCHANGED <<open, input, output>> \/ NextClientKnown
    BY <1>8 DEF ShutdownStarts, ShutdownGoesOn, ReadHead, IteratorStep, SkipClosed, TakeRef, EndOfList,
                FirstClient, CallJoin, Joined, ShutdownSockets, JoinListener, Advance, LetGo, clientVars
  <2>2. CASE NextClientKnown
    BY <1>1, <2>2 DEF NextClientKnown, CloseClient, Woken
  <2> QED BY <1>4, <2>1, <2>2
<1>9. ASSUME NEW i \in Workers, Worker(i) PROVE ClosedByThen'
  <2>1. \/ UNCHANGED <<open, input, output>> \/ WorkerSignals(i) \/ WorkerCloses(i)
    BY <1>9 DEF Worker, WorkerStarts, WorkerGoesOn, WorkerAdvances, WorkerBreaksOff, WorkerReleases,
                ReadHead, IteratorStep, SkipClosed, TakeRef, EndOfList, Advance, LetGo, clientVars
  <2>2. CASE WorkerSignals(i)
    BY <1>1, <2>2 DEF WorkerSignals, Woken
  <2>3. CASE WorkerCloses(i)
    BY <1>1, <2>3 DEF WorkerCloses, CloseClient, Woken
  <2> QED BY <1>4, <2>1, <2>2, <2>3
<1> QED BY <1>6, <1>7, <1>8, <1>9 DEF Next

\* Every step keeps the invariant.
LEMMA VisitStep ==
    ASSUME IInv, ListWellFormed, VisitInv, [Next]_vars
    PROVE  VisitInv'
<1>1. PICK rank, n : Visits(rank, n)
  BY DEF VisitInv
<1>2. DueIsOpen /\ ClosedByThen /\ TypeOK
  BY DEF VisitInv, IInv
<1>3. ClosedByThen'
  <2>1. CASE UNCHANGED vars
    BY <1>2, <2>1 DEF vars, clientVars, ClosedByThen
  <2> QED BY <1>2, <2>1, ClosedByThenStep
<1>4. ASSUME UNCHANGED <<listVars, it>>,
             UNCHANGED <<open, due>> \/ \E c \in Clients : CloseClient(c)
      PROVE  VisitInv'
  BY <1>1, <1>2, <1>3, <1>4, VisitsKept DEF VisitInv
<1>5. ASSUME NEW c \in Clients, Accept(c) PROVE VisitInv'
  BY <1>1, <1>2, <1>3, <1>5, VisitsAccept DEF VisitInv
<1>6. CASE Listener /\ ~\E c \in Clients : Accept(c)
  <2>1. UNCHANGED <<listVars, it>>
    BY <1>6 DEF Listener, HookAccepts, HookHolds, TestOnHold, HookRefuses, Refused, AcceptFails,
                ListenerWakes, ListenerFails, iterVars
  <2>2. UNCHANGED <<open, due>> \/ HookRefuses
    BY <1>6 DEF Listener, HookAccepts, HookHolds, TestOnHold, Refused, AcceptFails,
                ListenerWakes, ListenerFails, iterVars, clientVars
  <2>3. HookRefuses => listenerCl \in Clients /\ CloseClient(listenerCl)
    BY DEF HookRefuses, IInv, Phases
  <2> QED BY <1>4, <2>1, <2>2, <2>3
<1>7. ASSUME NEW c \in Clients, Client(c) PROVE VisitInv'
  <2>1. CASE Unlink(c)
    BY <1>1, <1>2, <2>1, VisitsUnlink DEF VisitInv
  <2>2. CASE Free(c)
    BY <1>1, <1>2, <1>3, <2>2, VisitsFree DEF VisitInv
  <2>3. CASE ~Unlink(c) /\ ~Free(c)
    <3>1. UNCHANGED <<listVars, it>>
      BY <1>7, <2>3 DEF Client, InputCloses, InputWindsUp, InputEnds, SelectFails, SignalOutput,
           JoinOutput, AwaitRefs, Output, CheckSocket, WaitForUpdate, TakeUpdate, Sent, SendFails,
           StartOnHoldClient, RefuseOnHoldClient, iterVars
    <3>2. UNCHANGED <<open, due>> \/ CloseClient(c)
      BY <1>7, <2>3 DEF Client, InputCloses, InputWindsUp, InputEnds, SelectFails, SignalOutput,
           JoinOutput, AwaitRefs, Output, CheckSocket, WaitForUpdate, TakeUpdate, Sent, SendFails,
           StartOnHoldClient, RefuseOnHoldClient, iterVars
    <3> QED BY <1>4, <3>1, <3>2
  <2> QED BY <2>1, <2>2, <2>3
<1>8. ASSUME NEW i \in Threads, IterStep(i) PROVE VisitInv'
  BY <1>1, <1>2, <1>3, <1>8, VisitsIterator DEF VisitInv
<1>9. CASE ShutdownStarts \/ ShutdownGoesOn
  <2>1. CASE ShutdownStarts \/ FirstClient \/ Joined \/ IteratorStep(Shutdown)
    <3>1. Shutdown \in Threads
      BY DEF Threads
    <3>2. FirstClient \/ Joined => LetsGo(Shutdown)
      BY DEF FirstClient, Joined, Advance, LetsGo
    <3>3. ShutdownStarts => ReadHead(Shutdown)
      BY DEF ShutdownStarts
    <3>4. IterStep(Shutdown)
      BY <2>1, <3>2, <3>3 DEF IterStep
    <3> QED BY <1>8, <3>1, <3>4
  <2>2. CASE NextClientKnown
    <3>1. currentCl = Null => UNCHANGED <<open, due>> \/ CloseClient(currentCl)
      BY <2>2 DEF NextClientKnown
    <3>2. currentCl = Null => VisitInv'
      <4>1. currentCl = Null /\ CloseClient(currentCl) => UNCHANGED <<open, due>>
        <5>1. \A i \in Threads : due[i] \ {Null} = due[i]
          BY <1>2, NullAssumption DEF TypeOK
        <5>2. [i \in Threads |-> due[i] \ {Null}] = due
          BY <1>2, <5>1 DEF TypeOK
        <5>3. [open EXCEPT ![Null] = FALSE] = open
          BY <1>2, NullAssumption DEF TypeOK
        <5> QED BY <5>2, <5>3 DEF CloseClient
      <4>2. UNCHANGED <<listVars, it>>
        BY <2>2 DEF NextClientKnown
      <4> QED BY <1>4, <3>1, <4>1, <4>2
    <3>3. currentCl \in Clients => VisitInv'
      BY <1>4, <2>2 DEF NextClientKnown, iterVars
    <3> QED BY <1>2, <3>2, <3>3 DEF TypeOK
  <2>3. CASE CallJoin \/ ShutdownSockets \/ JoinListener
    BY <1>4, <2>3 DEF CallJoin, ShutdownSockets, JoinListener, iterVars, clientVars
  <2> QED BY <1>9, <2>1, <2>2, <2>3 DEF ShutdownGoesOn
<1>10. ASSUME NEW i \in Workers, Worker(i) PROVE VisitInv'
  <2>0. i \in Threads
    BY DEF Threads
  <2>1. CASE WorkerStarts(i) \/ IteratorStep(i)
    <3>1. IterStep(i)
      BY <2>1 DEF WorkerStarts, IterStep
    <3> QED BY <1>8, <2>0, <3>1
  <2>4. CASE WorkerAdvances(i) \/ WorkerBreaksOff(i)
    <3>1. LetsGo(i)
      BY <2>4 DEF WorkerAdvances, WorkerBreaksOff, Advance, LetsGo
    <3>2. IterStep(i)
      BY <3>1 DEF IterStep
    <3> QED BY <1>8, <2>0, <3>2
  <2>5. CASE WorkerReleases(i)
    <3>1. Goto(i, "off", Null) /\ UNCHANGED <<listVars, open, due>>
      BY <2>5 DEF WorkerReleases, clientVars
    <3>2. IterStep(i)
      BY <3>1 DEF IterStep
    <3> QED BY <1>8, <2>0, <3>2
  <2>2. CASE WorkerSignals(i)
    BY <1>4, <2>2 DEF WorkerSignals, iterVars
  <2>3. CASE WorkerCloses(i)
    <3>1. At(i) \in Clients
      BY <2>0, <2>3 DEF WorkerCloses, IInv, TypeOK, Protected, At
    <3> QED BY <1>4, <2>3, <3>1 DEF WorkerCloses
  <2> QED BY <1>10, <2>1, <2>2, <2>3, <2>4, <2>5 DEF Worker, WorkerGoesOn
<1>11. CASE UNCHANGED vars
  BY <1>4, <1>11 DEF vars, clientVars, iterVars
<1> QED BY <1>5, <1>6, <1>7, <1>9, <1>10, <1>11 DEF Next

\* An iteration that comes to its end has visited every client that was open when
\* it began and still is: rfbMarkRegionAsModified reaches all who need it.
THEOREM EveryClientVisited == Spec => []VisitsAll
<1>1. VisitInv => VisitsAll
  BY DEF VisitInv, Visits, AheadOf, VisitsAll
<1> QED BY <1>1, VisitInit, VisitStep, Invariance, ListStaysWellFormed, PTL DEF Spec

=============================================================================
