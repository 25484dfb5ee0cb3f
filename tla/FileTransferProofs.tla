-------------------------- MODULE FileTransferProofs --------------------------
(***************************************************************************)
(* The file transfers, for any number of clients and files, of any size,   *)
(* and any interleaving: the TightVNC extension leaves no half of an       *)
(* upload behind and sends a download in order, and UltraVNC's transfer    *)
(* loses no descriptor and gives the viewer a copy of the file.            *)
(***************************************************************************)
EXTENDS MCFileTransfer, SequenceTheorems, TLAPS

(*------------------------------- Uploads ----------------------------------*)

NameOrNone == Uploads \cup {None}

UploadTypes ==
    /\ handler \in [Clients -> [op : {"none", "request", "cancel", "close"},
                                pc : {"idle", "undo", "join", "create"},
                                file : Files \cup {None}]]
    /\ up \in [Clients -> [name : NameOrNone, fd : NameOrNone, inProgress : BOOLEAN]]
    /\ disk \in [Clients -> [Uploads -> {"absent", "partial", "complete"}]]
    /\ overtaken \in [Clients -> SUBSET Uploads]

Current(c, u) ==
    /\ c \in alive /\ handler[c].op # "close"
    /\ up[c] = [name |-> u, fd |-> u, inProgress |-> TRUE]

(* A client with half a file is in the middle of its upload, which the     *)
(* handler of its end has not begun to close, or was when the next one     *)
(* came.  An open descriptor is that of an upload in progress.             *)
UploadInv ==
    /\ UploadTypes
    /\ \A c \in Clients, u \in Uploads :
         disk[c][u] = "partial" => u \in overtaken[c] \/ Current(c, u)

(* An action that leaves the other clients alone only has to be looked at  *)
(* for its own.                                                            *)
LEMMA OneClient ==
  ASSUME UploadInv, UploadTypes', NEW c \in Clients,
         \A d \in Clients \ {c} :
            /\ disk'[d] = disk[d] /\ up'[d] = up[d] /\ handler'[d] = handler[d]
            /\ overtaken'[d] = overtaken[d] /\ (d \in alive => d \in alive'),
         \A u \in Uploads : disk'[c][u] = "partial" => u \in overtaken'[c] \/ Current(c, u)'
  PROVE  UploadInv'
  <1>1. ASSUME NEW d \in Clients \ {c}, NEW u \in Uploads, disk'[d][u] = "partial"
        PROVE  u \in overtaken'[d] \/ Current(d, u)'
    BY <1>1 DEF UploadInv, Current
  <1> QED BY <1>1 DEF UploadInv

\* Half a file is the current upload of its client, if no other one has come.
LEMMA PartialIsCurrent ==
  ASSUME UploadInv, NEW c \in Clients, NEW u \in Uploads, disk[c][u] = "partial"
  PROVE  \/ u \in overtaken[c]
         \/ up[c].name = u /\ up[c].fd = u /\ up[c].inProgress = TRUE
  <1>1. u \in overtaken[c] \/ up[c] = [name |-> u, fd |-> u, inProgress |-> TRUE]
    BY DEF UploadInv, Current
  <1> QED BY <1>1

\* CloseUndoneFileUpload leaves no half of a file but those overtaken before.
LEMMA CloseUndoneDeletes ==
  ASSUME UploadInv, NEW c \in Clients, CloseUndoneFileUpload(c)
  PROVE  /\ up' \in [Clients -> [name : NameOrNone, fd : NameOrNone, inProgress : BOOLEAN]]
         /\ disk' \in [Clients -> [Uploads -> {"absent", "partial", "complete"}]]
         /\ \A u \in Uploads : disk'[c][u] = "partial" => u \in overtaken[c]
         /\ \A d \in Clients \ {c} : disk'[d] = disk[d] /\ up'[d] = up[d]
  <1>1. \A u \in Uploads : disk[c][u] = "partial" =>
            u \in overtaken[c] \/ (up[c].inProgress /\ up[c].name = u)
    BY PartialIsCurrent
  <1>2. NoUpload \in [name : NameOrNone, fd : NameOrNone, inProgress : BOOLEAN]
    BY DEF NoUpload, NameOrNone
  <1>3. CASE up[c].inProgress /\ up[c].name # None
    <2>1. up[c].name \in Uploads
      BY <1>3 DEF UploadInv, UploadTypes, NameOrNone
    <2>2. disk' = [disk EXCEPT ![c][up[c].name] = "absent"] /\ up' = [up EXCEPT ![c] = NoUpload]
      BY <1>3 DEF CloseUndoneFileUpload
    <2> QED BY <1>1, <1>2, <2>1, <2>2 DEF UploadInv, UploadTypes
  <1>4. CASE up[c].inProgress /\ up[c].name = None
    <2>1. disk' = disk /\ up' = [up EXCEPT ![c] = NoUpload]
      BY <1>4 DEF CloseUndoneFileUpload
    <2> QED BY <1>1, <1>2, <1>4, <2>1, TightAssumption DEF UploadInv, UploadTypes
  <1>5. CASE ~up[c].inProgress
    BY <1>1, <1>5 DEF CloseUndoneFileUpload, UploadInv, UploadTypes
  <1> QED BY <1>3, <1>4, <1>5

\* There are no files at first.
LEMMA InitUpload == TightInit => UploadInv
  BY DEF TightInit, UploadInv, UploadTypes, Idle, NoUpload, NameOrNone

(* The handlers that have nothing to do with uploads: Return is the only   *)
(* one that takes a client away, once it is closed.                        *)
LEMMA ReturnKeeps ==
  ASSUME UploadInv, NEW c \in Clients, Return(c), UNCHANGED uploadVars
  PROVE  UploadInv'
  <1>1. UploadTypes'
    BY DEF Return, uploadVars, UploadInv, UploadTypes, Idle
  <1>2. /\ \A d \in Clients \ {c} : handler'[d] = handler[d] /\ (d \in alive => d \in alive')
        /\ handler[c].op # "close" => handler'[c].op # "close" /\ (c \in alive => c \in alive')
    BY DEF Return, UploadInv, UploadTypes, Idle
  <1>3. UNCHANGED <<up, disk, overtaken>>
    BY DEF uploadVars
  <1>4. \A u \in Uploads : disk'[c][u] = "partial" => u \in overtaken'[c] \/ Current(c, u)'
    BY <1>2, <1>3 DEF UploadInv, Current
  <1> QED BY <1>1, <1>2, <1>3, <1>4, OneClient

\* A file that is created, or begun once more, is the upload.
LEMMA Begun ==
  ASSUME UploadInv, NEW c \in Clients, NEW u \in Uploads, UploadTypes',
         c \in alive, alive' = alive, handler' = handler, handler[c].op # "close",
         up' = [up EXCEPT ![c] = [name |-> u, fd |-> u, inProgress |-> TRUE]],
         disk' = [disk EXCEPT ![c][u] = "partial"],
         overtaken' = [overtaken EXCEPT ![c] = (@ \cup {up[c].fd}) \ {u, None}]
  PROVE  UploadInv'
  <1>1. \A d \in Clients \ {c} : disk'[d] = disk[d] /\ up'[d] = up[d] /\ overtaken'[d] = overtaken[d]
    BY DEF UploadInv, UploadTypes
  <1>2. overtaken'[c] = (overtaken[c] \cup {up[c].fd}) \ {u, None}
        /\ up'[c] = [name |-> u, fd |-> u, inProgress |-> TRUE]
    BY DEF UploadInv, UploadTypes
  <1>3. ASSUME NEW v \in Uploads, disk'[c][v] = "partial"
        PROVE  v \in overtaken'[c] \/ Current(c, v)'
    <2>1. CASE v = u
      BY <1>2, <2>1 DEF Current
    <2>2. CASE v # u
      <3>1. disk[c][v] = "partial"
        BY <1>3, <2>2 DEF UploadInv, UploadTypes
      <3>2. v \in overtaken[c] \/ up[c].fd = v
        BY <3>1, PartialIsCurrent
      <3> QED BY <1>2, <2>2, <3>2, TightAssumption
    <2> QED BY <2>1, <2>2
  <1> QED BY <1>1, <1>3, OneClient

\* HandleFileUploadRequest.
LEMMA UploadKeeps ==
  ASSUME UploadInv, NEW c \in Clients, NEW u \in Uploads, Upload(c, u)
  PROVE  UploadInv'
  <1>1. /\ c \in alive /\ handler[c] = Idle /\ alive' = alive /\ handler' = handler
        /\ handler[c].op # "close"
    BY DEF Upload, Handles, downloadVars, Idle
  <1>2. up[c].fd \in NameOrNone /\ handler' \in [Clients -> [op : {"none", "request", "cancel", "close"},
                                pc : {"idle", "undo", "join", "create"}, file : Files \cup {None}]]
    BY <1>1 DEF UploadInv, UploadTypes
  <1>3. CASE /\ up' = [up EXCEPT ![c] = [name |-> u, fd |-> u, inProgress |-> TRUE]]
             /\ disk' = [disk EXCEPT ![c][u] = "partial"]
             /\ overtaken' = [overtaken EXCEPT ![c] = (@ \cup {up[c].fd}) \ {u, None}]
    <2>1. UploadTypes'
      BY <1>2, <1>3 DEF UploadInv, UploadTypes, NameOrNone
    <2> QED BY <1>1, <1>3, <2>1, Begun
  <1>4. CASE /\ \/ up' = [up EXCEPT ![c] = [NoUpload EXCEPT !.name = u]]
                \/ up' = [up EXCEPT ![c].name = None]
             /\ overtaken' = [overtaken EXCEPT ![c] = (@ \cup {up[c].fd}) \ {None}]
             /\ disk' = disk
    <2>1. up' \in [Clients -> [name : NameOrNone, fd : NameOrNone, inProgress : BOOLEAN]]
      <3>1. CASE up' = [up EXCEPT ![c] = [NoUpload EXCEPT !.name = u]]
        <4>1. [NoUpload EXCEPT !.name = u] \in [name : NameOrNone, fd : NameOrNone, inProgress : BOOLEAN]
          BY DEF NoUpload, NameOrNone
        <4> QED BY <3>1, <4>1 DEF UploadInv, UploadTypes
      <3>2. CASE up' = [up EXCEPT ![c].name = None]
        BY ZenonT(30), <3>2 DEF UploadInv, UploadTypes, NameOrNone
      <3> QED BY <1>4, <3>1, <3>2
    <2>2. UploadTypes'
      BY <1>2, <1>4, <2>1 DEF UploadInv, UploadTypes, NameOrNone
    <2>3. \A d \in Clients \ {c} : up'[d] = up[d] /\ overtaken'[d] = overtaken[d]
      BY <1>4 DEF UploadInv, UploadTypes
    <2>4. overtaken'[c] = (overtaken[c] \cup {up[c].fd}) \ {None}
      BY <1>4 DEF UploadInv, UploadTypes
    <2>5. ASSUME NEW v \in Uploads, disk'[c][v] = "partial" PROVE v \in overtaken'[c]
      <3>1. v \in overtaken[c] \/ up[c].fd = v
        BY <1>4, <2>5, PartialIsCurrent
      <3> QED BY <2>4, <3>1, TightAssumption
    <2> QED BY <1>1, <1>4, <2>2, <2>3, <2>5, OneClient
  <1> QED BY <1>3, <1>4 DEF Upload

\* Either ends the upload or leaves it alone.
LEMMA UndoKeeps ==
  ASSUME UploadInv, NEW c \in Clients, UNCHANGED <<alive, handler, overtaken>>,
         CloseUndoneFileUpload(c) \/ UNCHANGED <<disk, up>>
  PROVE  UploadInv'
  <1>1. CASE UNCHANGED <<disk, up>>
    BY <1>1 DEF UploadInv, UploadTypes, Current
  <1>2. CASE CloseUndoneFileUpload(c)
    <2>1. UploadTypes'
      BY <1>2, CloseUndoneDeletes DEF UploadInv, UploadTypes
    <2> QED BY <1>2, <2>1, CloseUndoneDeletes, OneClient
  <1> QED BY <1>1, <1>2

\* HandleFileUploadDataRequest.
LEMMA UploadDataKeeps ==
  ASSUME UploadInv, NEW c \in Clients, UploadData(c)
  PROVE  UploadInv'
  BY UndoKeeps DEF UploadData, downloadVars

\* FileUpdateComplete: the file is whole.
LEMMA UploadEndKeeps ==
  ASSUME UploadInv, NEW c \in Clients, UploadEnd(c)
  PROVE  UploadInv'
  <1>1. /\ UNCHANGED <<alive, handler, overtaken>> /\ up[c].fd # None
        /\ disk' = [disk EXCEPT ![c][up[c].fd] = "complete"]
        /\ up' = [up EXCEPT ![c].fd = None, ![c].inProgress = FALSE]
    BY DEF UploadEnd, downloadVars
  <1>2. up[c].fd \in Uploads
    BY <1>1 DEF UploadInv, UploadTypes, NameOrNone
  <1>3. UploadTypes'
    <2>1. up' \in [Clients -> [name : NameOrNone, fd : NameOrNone, inProgress : BOOLEAN]]
      BY ZenonT(30), <1>1 DEF UploadInv, UploadTypes, NameOrNone
    <2>2. [disk[c] EXCEPT ![up[c].fd] = "complete"]
            \in [Uploads -> {"absent", "partial", "complete"}]
      BY <1>2 DEF UploadInv, UploadTypes
    <2>3. disk' = [disk EXCEPT ![c] = [disk[c] EXCEPT ![up[c].fd] = "complete"]]
      BY <1>1 DEF UploadInv, UploadTypes
    <2>4. disk' \in [Clients -> [Uploads -> {"absent", "partial", "complete"}]]
      BY <2>2, <2>3 DEF UploadInv, UploadTypes
    <2> QED BY <1>1, <2>1, <2>4 DEF UploadInv, UploadTypes
  <1>4. ASSUME NEW v \in Uploads, disk'[c][v] = "partial" PROVE v \in overtaken'[c]
    <2>1. v # up[c].fd /\ disk[c][v] = "partial"
      BY <1>1, <1>2, <1>4 DEF UploadInv, UploadTypes
    <2> QED BY <1>1, <2>1, PartialIsCurrent
  <1>5. \A d \in Clients \ {c} : disk'[d] = disk[d] /\ up'[d] = up[d]
    BY <1>1 DEF UploadInv, UploadTypes
  <1> QED BY <1>1, <1>3, <1>4, <1>5, OneClient

\* HandleFileUploadFailedRequest.
LEMMA UploadFailedKeeps ==
  ASSUME UploadInv, NEW c \in Clients, NEW reasonLen \in {0, 1}, UploadFailed(c, reasonLen)
  PROVE  UploadInv'
  BY UndoKeeps DEF UploadFailed, downloadVars

\* The end of the connection.
LEMMA CloseKeeps ==
  ASSUME UploadInv, NEW c \in Clients, Close(c)
  PROVE  UploadInv'
  <1>1. /\ UNCHANGED <<alive, overtaken>> /\ CloseUndoneFileUpload(c)
        /\ handler' = [handler EXCEPT ![c] = [op |-> "close", pc |-> "undo", file |-> None]]
    BY DEF Close
  <1>2. UploadTypes'
    BY <1>1, CloseUndoneDeletes DEF UploadInv, UploadTypes
  <1>3. \A d \in Clients \ {c} : handler'[d] = handler[d]
    BY <1>1 DEF UploadInv, UploadTypes
  <1> QED BY <1>1, <1>2, <1>3, CloseUndoneDeletes, OneClient

(* A step of a download only moves the handler of a client.                *)
LEMMA HandlerKeeps ==
  ASSUME UploadInv, NEW c \in Clients, UNCHANGED <<alive, uploadVars>>, UploadTypes',
         \A d \in Clients : handler'[d].op = "close" => handler[d].op = "close"
  PROVE  UploadInv'
  BY DEF UploadInv, uploadVars, Current

\* HandleFileDownloadRequest.
LEMMA RequestKeeps ==
  ASSUME UploadInv, NEW c \in Clients, NEW file \in Files, Request(c, file)
  PROVE  UploadInv'
  <1>1. /\ UNCHANGED <<alive, uploadVars>>
        /\ \/ handler' = handler
           \/ handler' = [handler EXCEPT ![c] = [op |-> "request", pc |-> "undo", file |-> file]]
    BY DEF Request
  <1>2. CASE handler' = handler
    <2>1. UploadTypes' /\ \A d \in Clients : handler'[d].op = "close" => handler[d].op = "close"
      BY <1>1, <1>2 DEF UploadInv, UploadTypes, uploadVars
    <2> QED BY <1>1, <2>1, HandlerKeeps
  <1>3. CASE handler' = [handler EXCEPT ![c] = [op |-> "request", pc |-> "undo", file |-> file]]
    <2>1. UploadTypes' /\ \A d \in Clients : handler'[d].op = "close" => handler[d].op = "close"
      BY <1>1, <1>3 DEF UploadInv, UploadTypes, uploadVars
    <2> QED BY <1>1, <2>1, HandlerKeeps
  <1> QED BY <1>1, <1>2, <1>3

\* HandleFileDownloadCancelRequest.
LEMMA CancelKeeps ==
  ASSUME UploadInv, NEW c \in Clients, Cancel(c)
  PROVE  UploadInv'
  <1>1. /\ UNCHANGED <<alive, uploadVars>>
        /\ handler' = [handler EXCEPT ![c] = [op |-> "cancel", pc |-> "undo", file |-> None]]
    BY DEF Cancel
  <1>2. UploadTypes' /\ \A d \in Clients : handler'[d].op = "close" => handler[d].op = "close"
    BY <1>1 DEF UploadInv, UploadTypes, uploadVars
  <1> QED BY <1>1, <1>2, HandlerKeeps

\* The rest of a handler.
LEMMA HandlerStepKeeps ==
  ASSUME UploadInv, NEW c \in Clients, Handler(c)
  PROVE  UploadInv'
  <1>1. CASE Return(c) /\ UNCHANGED uploadVars
    BY <1>1, ReturnKeeps
  <1>2. CASE /\ handler' = [handler EXCEPT ![c].pc = "join"] /\ UNCHANGED <<alive, uploadVars>>
    <2>1. [handler[c] EXCEPT !.pc = "join"] \in [op : {"none", "request", "cancel", "close"},
                                pc : {"idle", "undo", "join", "create"}, file : Files \cup {None}]
          /\ [handler[c] EXCEPT !.pc = "join"].op = handler[c].op
      BY DEF UploadInv, UploadTypes
    <2>2. handler' = [handler EXCEPT ![c] = [handler[c] EXCEPT !.pc = "join"]]
          /\ UNCHANGED <<up, disk, overtaken>>
      BY <1>2 DEF UploadInv, UploadTypes, uploadVars
    <2>3. UploadTypes' /\ \A d \in Clients : handler'[d].op = "close" => handler[d].op = "close"
      BY <2>1, <2>2 DEF UploadInv, UploadTypes
    <2> QED BY <1>2, <2>3, HandlerKeeps
  <1>3. CASE handler' = [handler EXCEPT ![c] = Idle] /\ UNCHANGED <<alive, uploadVars>>
    <2>1. UploadTypes' /\ \A d \in Clients : handler'[d].op = "close" => handler[d].op = "close"
      BY <1>3 DEF UploadInv, UploadTypes, uploadVars, Idle
    <2> QED BY <1>3, <2>1, HandlerKeeps
  <1> QED BY <1>1, <1>2, <1>3 DEF Handler, Undo, Join, Create

\* Every step keeps the uploads.
LEMMA StepUpload == UploadInv /\ [TightNext]_tightVars => UploadInv'
  <1> SUFFICES ASSUME UploadInv, [TightNext]_tightVars PROVE UploadInv'
    OBVIOUS
  <1>1. CASE UNCHANGED tightVars
    BY <1>1 DEF tightVars, downloadVars, uploadVars, UploadInv, UploadTypes, Current
  <1>2. ASSUME NEW c \in Clients, Thread(c) PROVE UploadInv'
    <2>1. UNCHANGED <<alive, uploadVars>> /\ handler' = handler
      BY <1>2 DEF Thread, Read, Send, Check
    <2> QED BY <2>1 DEF UploadInv, UploadTypes, uploadVars, Current
  <1> QED BY <1>1, <1>2, RequestKeeps, CancelKeeps, UploadKeeps, UploadDataKeeps, UploadEndKeeps,
             UploadFailedKeeps, CloseKeeps, HandlerStepKeeps DEF TightNext

(* Whatever ends an upload, its completion, an error, the viewer or the    *)
(* end of the connection (CloseUndoneFileUpload), no half-written file     *)
(* stays that is not the current upload of a live client, or was it when   *)
(* the client began another one (HandleFileUpload).                        *)
THEOREM UploadsWhole == TightSpec => []UploadWhole
  <1>1. UploadInv => UploadWhole
    BY DEF UploadInv, UploadWhole, Current
  <1> QED BY <1>1, InitUpload, StepUpload, PTL DEF TightSpec

(*------------------------------ Downloads ---------------------------------*)

\* What a request has sent so far: the request and the first blocks of its file.
OnlyBlocks(log) ==
    /\ log # <<>> /\ log[1].file \in Files
    /\ \A i \in 2 .. Len(log) : log[i] = Message("block", log[1].file, i - 1)

InOrder(log) ==
    \A i \in 2 .. Len(log) :
        LET msg == log[i] file == log[1].file IN
        /\ msg.kind = "block" => msg.n = i - 1 /\ msg.file = file
        /\ msg.kind = "end" => i = Size[file] + 2
        /\ msg.kind # "block" => i = Len(log)

Reads(t, d, h, log) ==
    /\ OnlyBlocks(log)
    /\ \/ d.inProgress /\ d.fd = log[1].file /\ d.pos = Len(log) - 1
       \/ ~d.inProgress /\ h.pc = "join"
       \/ ~d.inProgress /\ h.pc # "join" /\ d.name \in {log[1].file, None} /\ Len(log) = 1

Sends(t, d, h, log) ==
    /\ OnlyBlocks(log)
    /\ \/ /\ t.msg = Message("block", log[1].file, Len(log))
          /\ IF d.inProgress THEN d.fd = log[1].file /\ d.pos = Len(log) ELSE h.pc = "join"
       \/ ~d.inProgress /\ t.msg = FailedMessage
       \/ ~d.inProgress /\ t.msg = EndMessage /\ Len(log) = Size[log[1].file] + 1

Checks(t, d, h, log) ==
    d.inProgress => OnlyBlocks(log) /\ d.fd = log[1].file /\ d.pos = Len(log) - 1

InFlight(t, d, h, log) ==
    /\ t.pc = "read" => Reads(t, d, h, log)
    /\ t.pc = "send" => Sends(t, d, h, log)
    /\ t.pc = "check" => Checks(t, d, h, log)

HandlerOK(c) ==
    LET h == handler[c] d == dl[c] IN
    /\ h.op = "none" <=> h.pc = "idle"
    /\ h.pc = "create" => h.op = "request"
    /\ h.op = "request" => /\ h.file \in Files
                           /\ d.name = h.file \/ (h.pc = "create" /\ d.name = None)
    /\ d.fd # None <=> d.inProgress \/ h.pc = "join"
    /\ h.pc = "join" => ~d.inProgress
    /\ d.thread = Len(threads[c])

LogOK(c) ==
    /\ InOrder(sent[c])
    /\ \A i \in DOMAIN threads[c] : Running(c, i) =>
         i = dl[c].thread /\ handler[c].pc # "create"
           /\ InFlight(threads[c][i], dl[c], handler[c], sent[c])
    /\ handler[c].pc = "create" =>
         sent[c] = <<Message("request", handler[c].file, 0)>> /\ ~dl[c].inProgress

DownloadInv == \A c \in Clients : HandlerOK(c) /\ (~crossed[c] => LogOK(c))

FileOrNone == Files \cup {None}
Requests == {Message("request", f, 0) : f \in Files}

DownloadTypes ==
    /\ dl \in [Clients -> [name : FileOrNone, fd : FileOrNone, pos : Nat, inProgress : BOOLEAN,
                           thread : Nat]]
    /\ threads \in [Clients -> Seq([pc : {"read", "send", "check", "ended"}, msg : Messages])]
    /\ sent \in [Clients -> Seq(Messages \cup Requests)]
    /\ crossed \in [Clients -> BOOLEAN]
    /\ handler \in [Clients -> [op : {"none", "request", "cancel", "close"},
                                pc : {"idle", "undo", "join", "create"},
                                file : Files \cup {None}]]

\* A step of one thread changes that thread alone.
LEMMA StepShape ==
  ASSUME DownloadTypes, NEW c \in Clients, NEW i \in DOMAIN threads[c], NEW pc, NEW msg,
         Step(c, i, pc, msg), pc \in {"read", "send", "check", "ended"}, msg \in Messages
  PROVE  /\ threads' \in [Clients -> Seq([pc : {"read", "send", "check", "ended"}, msg : Messages])]
         /\ Len(threads'[c]) = Len(threads[c])
         /\ DOMAIN threads'[c] = DOMAIN threads[c]
         /\ threads'[c][i] = [pc |-> pc, msg |-> msg]
         /\ \A j \in DOMAIN threads[c] \ {i} : threads'[c][j] = threads[c][j]
         /\ \A d \in Clients \ {c} : threads'[d] = threads[d]
  <1> DEFINE T == [pc : {"read", "send", "check", "ended"}, msg : Messages]
             new == [pc |-> pc, msg |-> msg]
  <1>1. threads[c] \in Seq(T) /\ new \in T
    BY DEF DownloadTypes
  <1>2. DOMAIN threads[c] = 1 .. Len(threads[c])
    BY <1>1
  <1>3. [threads[c] EXCEPT ![i] = new] \in Seq(T)
    BY <1>1, <1>2, ExceptSeq
  <1>4. threads' = [threads EXCEPT ![c] = [threads[c] EXCEPT ![i] = new]]
    BY DEF Step
  <1>5. threads'[c] = [threads[c] EXCEPT ![i] = new]
    BY <1>4 DEF DownloadTypes
  <1>6. threads' \in [Clients -> Seq(T)]
    BY <1>3, <1>4 DEF DownloadTypes
  <1>7. DOMAIN threads'[c] = DOMAIN threads[c]
    BY <1>5
  <1>8. Len(threads'[c]) = Len(threads[c])
    BY <1>1, <1>2, <1>3, <1>5, <1>7
  <1> QED BY <1>2, <1>4, <1>5, <1>6, <1>7, <1>8 DEF DownloadTypes

\* A thread's step leaves the log of its client in order.
LEMMA ThreadKeepsLog ==
  ASSUME DownloadTypes, DownloadInv, NEW c \in Clients, NEW i \in DOMAIN threads[c], NEW pc, NEW msg,
         Step(c, i, pc, msg), pc \in {"read", "send", "check", "ended"}, msg \in Messages,
         Running(c, i), handler' = handler, crossed'[c] = crossed[c],
         \A d \in Clients \ {c} : sent'[d] = sent[d] /\ dl'[d] = dl[d] /\ crossed'[d] = crossed[d],
         HandlerOK(c)', dl'[c].thread = dl[c].thread,
         ~crossed[c] /\ InFlight(threads[c][i], dl[c], handler[c], sent[c]) =>
            /\ InOrder(sent'[c])
            /\ InFlight([pc |-> pc, msg |-> msg], dl'[c], handler[c], sent'[c])
  PROVE  DownloadInv'
  <1>1. /\ Len(threads'[c]) = Len(threads[c])
        /\ DOMAIN threads'[c] = DOMAIN threads[c]
        /\ threads'[c][i] = [pc |-> pc, msg |-> msg]
        /\ \A j \in DOMAIN threads[c] \ {i} : threads'[c][j] = threads[c][j]
        /\ \A d \in Clients \ {c} : threads'[d] = threads[d]
    BY StepShape
  <1>2. ASSUME ~crossed[c] PROVE LogOK(c)'
    <2>1. LogOK(c)
      BY <1>2 DEF DownloadInv
    <2>2. i = dl[c].thread /\ handler[c].pc # "create"
          /\ InFlight(threads[c][i], dl[c], handler[c], sent[c])
      BY <2>1 DEF LogOK
    <2>3. /\ InOrder(sent'[c])
          /\ InFlight([pc |-> pc, msg |-> msg], dl'[c], handler[c], sent'[c])
      BY <1>2, <2>2
    <2>4. ASSUME NEW j \in DOMAIN threads'[c], Running(c, j)'
          PROVE  /\ j = dl'[c].thread /\ handler'[c].pc # "create"
                 /\ InFlight(threads'[c][j], dl'[c], handler'[c], sent'[c])
      <3>1. j = i
        <4>1. j # i => Running(c, j)
          BY <1>1, <2>4 DEF Running
        <4> QED BY <1>1, <2>1, <2>2, <2>4, <4>1 DEF LogOK
      <3> QED BY <1>1, <2>2, <2>3, <3>1
    <2> QED BY <2>2, <2>3, <2>4 DEF LogOK
  <1>3. ASSUME NEW d \in Clients, d # c
        PROVE  HandlerOK(d)' /\ (~crossed'[d] => LogOK(d)')
    <2>1. /\ threads'[d] = threads[d] /\ sent'[d] = sent[d] /\ dl'[d] = dl[d] /\ crossed'[d] = crossed[d]
          /\ handler'[d] = handler[d]
      BY <1>1, <1>3
    <2>2. HandlerOK(d)'
      BY <2>1 DEF DownloadInv, HandlerOK
    <2>3. ASSUME ~crossed[d] PROVE LogOK(d)'
      <3>1. LogOK(d)
        BY <2>3 DEF DownloadInv
      <3> QED BY <2>1, <3>1 DEF LogOK, Running
    <2> QED BY <2>1, <2>2, <2>3
  <1> QED BY <1>2, <1>3 DEF DownloadInv

\* GetFileDownloadResponseMsgInBlocks reads the next block, or the end.
LEMMA ReadBlockKeeps ==
  ASSUME DownloadTypes, DownloadInv, NEW c \in Clients, NEW i \in DOMAIN threads[c],
         NEW file \in Files, NEW pos \in Nat, ReadBlock(c, i, file, pos),
         threads[c][i].pc = "read", UNCHANGED <<handler, sent, crossed>>,
         handler[c].pc # "join",
         ~crossed[c] => OnlyBlocks(sent[c]) /\ sent[c][1].file = file /\ pos = Len(sent[c]) - 1
  PROVE  DownloadTypes' /\ DownloadInv'
  <1>1. \E msg \in Messages :
           /\ Step(c, i, "send", msg)
           /\ \/ /\ dl' = [dl EXCEPT ![c].fd = file, ![c].pos = pos + 1, ![c].inProgress = TRUE]
                 /\ msg = Message("block", file, pos + 1)
              \/ /\ dl' = [dl EXCEPT ![c].fd = None, ![c].inProgress = FALSE]
                 /\ msg = FailedMessage \/ (msg = EndMessage /\ pos = Size[file])
    <2>1. Message("block", file, pos + 1) \in Messages \/ ~(pos < Size[file])
      <3>1. CASE pos < Size[file]
        <4>1. pos + 1 \in 1 .. Size[file]
          BY <3>1, TightAssumption
        <4>2. Message("block", file, pos + 1) \in {Message("block", file, n) : n \in 1 .. Size[file]}
          BY <4>1
        <4> QED BY <4>2 DEF Messages
      <3> QED BY <3>1
    <2>2. FailedMessage \in Messages /\ EndMessage \in Messages
      BY DEF Messages
    <2> QED BY <2>1, <2>2 DEF ReadBlock
  <1>2. PICK msg \in Messages :
           /\ Step(c, i, "send", msg)
           /\ \/ /\ dl' = [dl EXCEPT ![c].fd = file, ![c].pos = pos + 1, ![c].inProgress = TRUE]
                 /\ msg = Message("block", file, pos + 1)
              \/ /\ dl' = [dl EXCEPT ![c].fd = None, ![c].inProgress = FALSE]
                 /\ msg = FailedMessage \/ (msg = EndMessage /\ pos = Size[file])
    BY <1>1
  <1>3. /\ dl' \in [Clients -> [name : FileOrNone, fd : FileOrNone, pos : Nat, inProgress : BOOLEAN,
                                thread : Nat]]
        /\ \A d \in Clients \ {c} : dl'[d] = dl[d]
        /\ dl'[c].thread = dl[c].thread /\ dl'[c].name = dl[c].name
        /\ (dl'[c].fd # None <=> dl'[c].inProgress)
        /\ \/ /\ dl'[c].fd = file /\ dl'[c].pos = pos + 1 /\ dl'[c].inProgress
              /\ msg = Message("block", file, pos + 1)
           \/ /\ ~dl'[c].inProgress
              /\ msg = FailedMessage \/ (msg = EndMessage /\ pos = Size[file])
    <2>0. /\ dl[c] \in [name : FileOrNone, fd : FileOrNone, pos : Nat, inProgress : BOOLEAN, thread : Nat]
          /\ file \in FileOrNone /\ None \in FileOrNone /\ file # None
      BY TightAssumption DEF DownloadTypes, FileOrNone
    <2>1. CASE /\ dl' = [dl EXCEPT ![c].fd = file, ![c].pos = pos + 1, ![c].inProgress = TRUE]
               /\ msg = Message("block", file, pos + 1)
      <3> DEFINE p == pos + 1
      <3>1. p \in Nat
        OBVIOUS
      <3>2. dl' = [dl EXCEPT ![c].fd = file, ![c].pos = p, ![c].inProgress = TRUE]
        BY <2>1
      <3> HIDE DEF p
      <3>3. dl' \in [Clients -> [name : FileOrNone, fd : FileOrNone, pos : Nat, inProgress : BOOLEAN,
                                 thread : Nat]]
            /\ \A d \in Clients \ {c} : dl'[d] = dl[d]
        BY <2>0, <3>1, <3>2 DEF DownloadTypes
      <3>4. dl'[c].fd = file /\ dl'[c].pos = p /\ dl'[c].inProgress = TRUE
            /\ dl'[c].thread = dl[c].thread /\ dl'[c].name = dl[c].name
        BY <2>0, <3>1, <3>2 DEF DownloadTypes
      <3> QED BY <2>0, <2>1, <3>3, <3>4 DEF p
    <2>2. CASE /\ dl' = [dl EXCEPT ![c].fd = None, ![c].inProgress = FALSE]
               /\ msg = FailedMessage \/ (msg = EndMessage /\ pos = Size[file])
      BY <2>0, <2>2 DEF DownloadTypes
    <2> QED BY <1>2, <2>1, <2>2
  <1>4. DownloadTypes'
    <2>1. threads' \in [Clients -> Seq([pc : {"read", "send", "check", "ended"}, msg : Messages])]
      BY <1>2, StepShape
    <2> QED BY <1>3, <2>1 DEF DownloadTypes
  <1>5. HandlerOK(c)'
    <2>1. Len(threads'[c]) = Len(threads[c])
      BY <1>2, StepShape
    <2> QED BY <1>3, <2>1 DEF DownloadInv, HandlerOK
  <1>6. ASSUME ~crossed[c]
        PROVE  /\ InOrder(sent[c])
               /\ InFlight([pc |-> "send", msg |-> msg], dl'[c], handler[c], sent[c])
    <2>1. OnlyBlocks(sent[c]) /\ sent[c][1].file = file /\ pos = Len(sent[c]) - 1
      BY <1>6
    <2>2. InOrder(sent[c])
      BY <1>6 DEF DownloadInv, LogOK
    <2>3. Len(sent[c]) \in Nat
      BY DEF DownloadTypes
    <2>4. Sends([pc |-> "send", msg |-> msg], dl'[c], handler[c], sent[c])
      BY <1>3, <2>1, <2>3 DEF Sends
    <2> QED BY <2>2, <2>4 DEF InFlight
  <1>7. Running(c, i)
    BY DEF Running
  <1> QED BY <1>2, <1>3, <1>4, <1>5, <1>6, <1>7, ThreadKeepsLog

\* GetFileDownloadResponseMsgInBlocks.
LEMMA ReadKeeps ==
  ASSUME DownloadTypes, DownloadInv, NEW c \in Clients, NEW i \in DOMAIN threads[c], Read(c, i)
  PROVE  DownloadTypes' /\ DownloadInv'
  <1>1. threads[c][i].pc = "read" /\ UNCHANGED <<handler, sent, crossed>>
    BY DEF Read
  <1>2. HandlerOK(c) /\ dl[c].fd \in FileOrNone /\ dl[c].name \in FileOrNone /\ dl[c].pos \in Nat
        /\ dl[c].inProgress \in BOOLEAN
    BY DEF DownloadInv, DownloadTypes
  <1>3. ~crossed[c] => LogOK(c) /\ Reads(threads[c][i], dl[c], handler[c], sent[c])
    BY <1>1 DEF DownloadInv, LogOK, Running, InFlight
  <1>4. CASE ~dl[c].inProgress /\ dl[c].fd = None /\ dl[c].name # None
             /\ ReadBlock(c, i, dl[c].name, 0)
    <2>1. dl[c].name \in Files /\ handler[c].pc # "join"
      BY <1>2, <1>4 DEF HandlerOK, FileOrNone
    <2>2. ~crossed[c] => OnlyBlocks(sent[c]) /\ sent[c][1].file = dl[c].name /\ 0 = Len(sent[c]) - 1
      BY <1>3, <1>4, <2>1 DEF Reads
    <2> QED BY <1>1, <1>4, <2>1, <2>2, ReadBlockKeeps
  <1>5. CASE dl[c].inProgress /\ dl[c].fd # None /\ ReadBlock(c, i, dl[c].fd, dl[c].pos)
    <2>1. dl[c].fd \in Files /\ handler[c].pc # "join"
      BY <1>2, <1>5 DEF HandlerOK, FileOrNone
    <2>2. ~crossed[c] => OnlyBlocks(sent[c]) /\ sent[c][1].file = dl[c].fd /\ dl[c].pos = Len(sent[c]) - 1
      BY <1>3, <1>5 DEF Reads
    <2> QED BY <1>1, <1>2, <1>5, <2>1, <2>2, ReadBlockKeeps
  <1>6. CASE (~dl[c].inProgress \/ dl[c].fd = None) /\ Step(c, i, "send", FailedMessage) /\ UNCHANGED dl
    <2>0. FailedMessage \in Messages
      BY DEF Messages
    <2>1. DownloadTypes' /\ Len(threads'[c]) = Len(threads[c])
      BY <1>1, <1>6, <2>0, StepShape DEF DownloadTypes
    <2>2. HandlerOK(c)'
      BY <1>1, <1>2, <1>6, <2>1 DEF HandlerOK
    <2>3. ~dl[c].inProgress
      BY <1>2, <1>6 DEF HandlerOK
    <2>4. ~crossed[c] => /\ InOrder(sent[c])
                         /\ InFlight([pc |-> "send", msg |-> FailedMessage], dl[c], handler[c], sent[c])
      <3>1. ~crossed[c] => InOrder(sent[c]) /\ OnlyBlocks(sent[c])
        BY <1>3 DEF LogOK, Reads
      <3>2. ~crossed[c] => Sends([pc |-> "send", msg |-> FailedMessage], dl[c], handler[c], sent[c])
        BY <2>3, <3>1 DEF Sends
      <3> QED BY <3>1, <3>2 DEF InFlight
    <2>5. Running(c, i)
      BY <1>1 DEF Running
    <2> QED BY <1>1, <1>6, <2>0, <2>1, <2>2, <2>4, <2>5, ThreadKeepsLog
  <1> QED BY <1>4, <1>5, <1>6 DEF Read

\* A block that follows the last one, an end or a failure keep the order.
LEMMA LogGrows ==
  ASSUME NEW log \in Seq(Messages \cup Requests), NEW msg \in Messages, OnlyBlocks(log),
         \/ msg = Message("block", log[1].file, Len(log))
         \/ msg = FailedMessage
         \/ msg = EndMessage /\ Len(log) = Size[log[1].file] + 1
  PROVE  /\ Append(log, msg) \in Seq(Messages \cup Requests)
         /\ InOrder(Append(log, msg))
         /\ Append(log, msg)[1] = log[1] /\ Len(Append(log, msg)) = Len(log) + 1
         /\ msg = Message("block", log[1].file, Len(log)) => OnlyBlocks(Append(log, msg))
  <1> DEFINE new == Append(log, msg)
             f == log[1].file
  <1>0. f \in Files
    BY DEF OnlyBlocks
  <1>1. /\ new \in Seq(Messages \cup Requests) /\ new # <<>> /\ Len(new) = Len(log) + 1
        /\ \A i \in 1 .. Len(log) : new[i] = log[i]
        /\ new[Len(log) + 1] = msg
    BY AppendProperties
  <1>2. Len(log) \in Nat /\ Len(log) >= 1
    BY DEF OnlyBlocks
  <1>3. new[1] = log[1]
    BY <1>1, <1>2
  <1> HIDE DEF new
  <1>4. \A i \in 2 .. Len(log) : new[i] = Message("block", f, i - 1)
    BY <1>1 DEF OnlyBlocks
  <1>5. Size[f] \in Nat
    BY <1>0, TightAssumption
  <1>6. InOrder(new)
    <2> SUFFICES ASSUME NEW i \in 2 .. Len(new)
                 PROVE  /\ new[i].kind = "block" => new[i].n = i - 1 /\ new[i].file = f
                        /\ new[i].kind = "end" => i = Size[f] + 2
                        /\ new[i].kind # "block" => i = Len(new)
      <3>1. new[1].file = f
        BY <1>3
      <3> QED BY <3>1 DEF InOrder
    <2>1. CASE i \in 2 .. Len(log)
      <3>1. new[i] = Message("block", f, i - 1)
        BY <1>4, <2>1
      <3>2. new[i].kind = "block" /\ new[i].n = i - 1 /\ new[i].file = f
        BY <3>1 DEF Message
      <3> QED BY <3>2
    <2>2. CASE i = Len(log) + 1
      <3>1. CASE msg = Message("block", f, Len(log))
        BY <1>1, <1>2, <2>2, <3>1 DEF Message
      <3>2. CASE msg = FailedMessage
        BY <1>1, <1>2, <2>2, <3>2 DEF Message, FailedMessage
      <3>3. CASE msg = EndMessage /\ Len(log) = Size[f] + 1
        BY <1>1, <1>2, <1>5, <2>2, <3>3 DEF Message, EndMessage
      <3> QED BY <3>1, <3>2, <3>3
    <2> QED BY <1>1, <1>2, <2>1, <2>2
  <1>7. ASSUME msg = Message("block", f, Len(log)) PROVE OnlyBlocks(new)
    <2>1. \A i \in 2 .. Len(new) : new[i] = Message("block", f, i - 1)
      BY <1>1, <1>2, <1>4, <1>7
    <2> QED BY <1>1, <1>3, <2>1 DEF OnlyBlocks
  <1> QED BY <1>1, <1>3, <1>6, <1>7 DEF new

\* The message is written, and follows the log.
LEMMA SendKeeps ==
  ASSUME DownloadTypes, DownloadInv, NEW c \in Clients, NEW i \in DOMAIN threads[c], Send(c, i)
  PROVE  DownloadTypes' /\ DownloadInv'
  <1> DEFINE msg == threads[c][i].msg
             log == sent[c]
  <1>1. threads[c][i].pc = "send" /\ UNCHANGED <<handler, dl, crossed>> /\ Running(c, i)
    BY DEF Send, Running
  <1>2. msg \in Messages /\ EndMessage \in Messages /\ log \in Seq(Messages \cup Requests)
    <2>1. threads[c] \in Seq([pc : {"read", "send", "check", "ended"}, msg : Messages])
      BY DEF DownloadTypes
    <2>3. i \in 1 .. Len(threads[c])
      BY <2>1
    <2>2. threads[c][i] \in [pc : {"read", "send", "check", "ended"}, msg : Messages]
      BY <2>1, <2>3, ElementOfSeq
    <2> QED BY <2>2 DEF DownloadTypes, Messages
  <1>3. HandlerOK(c)
    BY DEF DownloadInv
  <1>4. ~crossed[c] => LogOK(c)
    BY DEF DownloadInv
  <1>5. ASSUME NEW pc \in {"check", "ended"}, Step(c, i, pc, EndMessage),
               sent' \in [Clients -> Seq(Messages \cup Requests)],
               \A d \in Clients \ {c} : sent'[d] = sent[d],
               ~crossed[c] /\ InFlight(threads[c][i], dl[c], handler[c], sent[c]) =>
                  InOrder(sent'[c]) /\ (pc = "check" => Checks([pc |-> pc, msg |-> EndMessage], dl[c], handler[c], sent'[c]))
        PROVE  DownloadTypes' /\ DownloadInv'
    <2>1. /\ threads' \in [Clients -> Seq([pc : {"read", "send", "check", "ended"}, msg : Messages])]
          /\ Len(threads'[c]) = Len(threads[c])
      BY <1>2, <1>5, StepShape
    <2>2. DownloadTypes'
      BY <1>1, <1>5, <2>1 DEF DownloadTypes
    <2>3. HandlerOK(c)'
      BY <1>1, <1>3, <2>1 DEF HandlerOK
    <2>4. ~crossed[c] /\ InFlight(threads[c][i], dl[c], handler[c], sent[c]) =>
             /\ InOrder(sent'[c])
             /\ InFlight([pc |-> pc, msg |-> EndMessage], dl'[c], handler[c], sent'[c])
      BY <1>1, <1>5 DEF InFlight
    <2> QED BY <1>1, <1>2, <1>5, <2>2, <2>3, <2>4, ThreadKeepsLog
  <1>6. CASE /\ sent' = IF crossed[c] THEN sent ELSE [sent EXCEPT ![c] = Append(@, msg)]
             /\ Step(c, i, "check", EndMessage)
    <2>1. Append(log, msg) \in Seq(Messages \cup Requests)
      BY <1>2, AppendProperties
    <2>2. /\ sent' \in [Clients -> Seq(Messages \cup Requests)]
          /\ \A d \in Clients \ {c} : sent'[d] = sent[d]
          /\ ~crossed[c] => sent'[c] = Append(log, msg)
      BY <1>6, <2>1 DEF DownloadTypes
    <2>3. ASSUME ~crossed[c], InFlight(threads[c][i], dl[c], handler[c], sent[c])
          PROVE  InOrder(sent'[c]) /\ Checks([pc |-> "check", msg |-> EndMessage], dl[c], handler[c], sent'[c])
      <3>1. Sends(threads[c][i], dl[c], handler[c], log)
        BY <1>1, <2>3 DEF InFlight
      <3>2. /\ OnlyBlocks(log)
            /\ \/ msg = Message("block", log[1].file, Len(log))
               \/ msg = FailedMessage
               \/ msg = EndMessage /\ Len(log) = Size[log[1].file] + 1
        BY <3>1 DEF Sends
      <3>3. dl[c].inProgress => /\ msg = Message("block", log[1].file, Len(log))
                                /\ dl[c].fd = log[1].file /\ dl[c].pos = Len(log)
        BY <3>1 DEF Sends
      <3>5. /\ InOrder(Append(log, msg))
            /\ Append(log, msg)[1] = log[1] /\ Len(Append(log, msg)) = Len(log) + 1
            /\ msg = Message("block", log[1].file, Len(log)) => OnlyBlocks(Append(log, msg))
        BY <1>2, <3>2, LogGrows
      <3>6. Len(log) \in Nat
        BY <1>2
      <3>7. InOrder(sent'[c])
        BY <2>2, <2>3, <3>5
      <3>8. ASSUME dl[c].inProgress
            PROVE  /\ OnlyBlocks(sent'[c]) /\ dl[c].fd = sent'[c][1].file
                   /\ dl[c].pos = Len(sent'[c]) - 1
        <4>1. sent'[c] = Append(log, msg)
          BY <2>2, <2>3
        <4> HIDE DEF msg, log
        <4> QED BY <3>3, <3>5, <3>6, <3>8, <4>1
      <3> QED BY <3>7, <3>8 DEF Checks
    <2> QED BY <1>5, <1>6, <2>2, <2>3
  <1>7. CASE Step(c, i, "ended", EndMessage) /\ UNCHANGED sent
    <2>1. ~crossed[c] => InOrder(sent'[c])
      BY <1>4, <1>7 DEF LogOK
    <2>2. sent' \in [Clients -> Seq(Messages \cup Requests)]
      BY <1>7 DEF DownloadTypes
    <2> QED BY <1>5, <1>7, <2>1, <2>2
  <1> QED BY <1>6, <1>7 DEF Send

\* The condition of the loop.
LEMMA CheckKeeps ==
  ASSUME DownloadTypes, DownloadInv, NEW c \in Clients, NEW i \in DOMAIN threads[c], Check(c, i)
  PROVE  DownloadTypes' /\ DownloadInv'
  <1> DEFINE pc == IF dl[c].inProgress THEN "read" ELSE "ended"
  <1>1. /\ threads[c][i].pc = "check" /\ UNCHANGED <<handler, dl, sent, crossed>> /\ Running(c, i)
        /\ Step(c, i, pc, EndMessage)
    BY DEF Check, Running
  <1>2. EndMessage \in Messages /\ pc \in {"read", "ended"}
    BY DEF Messages
  <1>3. HandlerOK(c)
    BY DEF DownloadInv
  <1>4. ~crossed[c] => LogOK(c)
    BY DEF DownloadInv
  <1>5. /\ threads' \in [Clients -> Seq([pc : {"read", "send", "check", "ended"}, msg : Messages])]
        /\ Len(threads'[c]) = Len(threads[c])
    BY <1>1, <1>2, StepShape
  <1>6. DownloadTypes'
    BY <1>1, <1>5 DEF DownloadTypes
  <1>7. HandlerOK(c)'
    BY <1>1, <1>3, <1>5 DEF HandlerOK
  <1>8. ASSUME ~crossed[c], InFlight(threads[c][i], dl[c], handler[c], sent[c])
        PROVE  /\ InOrder(sent[c])
               /\ InFlight([pc |-> pc, msg |-> EndMessage], dl[c], handler[c], sent[c])
    <2>1. InOrder(sent[c])
      BY <1>4, <1>8 DEF LogOK
    <2>2. Checks(threads[c][i], dl[c], handler[c], sent[c])
      BY <1>1, <1>8 DEF InFlight
    <2>3. CASE dl[c].inProgress
      <3>1. Reads([pc |-> pc, msg |-> EndMessage], dl[c], handler[c], sent[c]) /\ pc = "read"
        BY <2>2, <2>3 DEF Checks, Reads
      <3> QED BY <2>1, <3>1 DEF InFlight
    <2>4. CASE ~dl[c].inProgress
      BY <2>1, <2>4 DEF InFlight
    <2> QED BY <2>3, <2>4
  <1> HIDE DEF pc
  <1> QED BY <1>1, <1>2, <1>6, <1>7, <1>8, ThreadKeepsLog

\* What a handler does for one client leaves the others alone.
LEMMA OtherLogs ==
  ASSUME DownloadInv, NEW c \in Clients, HandlerOK(c)', ~crossed'[c] => LogOK(c)',
         \A d \in Clients \ {c} :
            /\ threads'[d] = threads[d] /\ sent'[d] = sent[d] /\ dl'[d] = dl[d]
            /\ crossed'[d] = crossed[d] /\ handler'[d] = handler[d]
  PROVE  DownloadInv'
  <1>1. ASSUME NEW d \in Clients, d # c
        PROVE  HandlerOK(d)' /\ (~crossed'[d] => LogOK(d)')
    <2>1. HandlerOK(d)'
      BY <1>1 DEF DownloadInv, HandlerOK
    <2>2. ASSUME ~crossed[d] PROVE LogOK(d)'
      <3>1. LogOK(d)
        BY <2>2 DEF DownloadInv
      <3> QED BY <1>1, <3>1 DEF LogOK, Running
    <2> QED BY <1>1, <2>1, <2>2
  <1> QED BY <1>1 DEF DownloadInv

\* Where a handler stands makes a difference to a thread only while it joins.
LEMMA LogSeesJoin ==
  ASSUME DownloadInv, NEW c \in Clients, ~crossed[c], UNCHANGED <<threads, dl, sent>>,
         handler[c].pc # "join", handler[c].pc # "create",
         handler'[c].pc # "join", handler'[c].pc # "create"
  PROVE  LogOK(c)'
  <1>1. LogOK(c)
    BY DEF DownloadInv
  <1> QED BY <1>1 DEF LogOK, Running, InFlight, Reads, Sends, Checks

\* HandleFileDownloadRequest: a new name, and a stray thread crosses the log.
LEMMA RequestKeepsLog ==
  ASSUME DownloadTypes, DownloadInv, NEW c \in Clients, NEW file \in Files, Request(c, file)
  PROVE  DownloadTypes' /\ DownloadInv'
  <1>1. /\ handler[c] = Idle
        /\ UNCHANGED <<threads, sent>>
        /\ dl' = [dl EXCEPT ![c].name = file]
        /\ crossed' = [crossed EXCEPT ![c] = @ \/ Stray(c)]
        /\ handler' = handler
             \/ handler' = [handler EXCEPT ![c] = [op |-> "request", pc |-> "undo", file |-> file]]
    BY DEF Request, Handles
  <1>2. Stray(c) \in BOOLEAN
    BY DEF Stray
  <1>3. /\ dl' \in [Clients -> [name : FileOrNone, fd : FileOrNone, pos : Nat, inProgress : BOOLEAN,
                                thread : Nat]]
        /\ \A d \in Clients \ {c} : dl'[d] = dl[d]
        /\ dl'[c].name = file /\ dl'[c].fd = dl[c].fd /\ dl'[c].pos = dl[c].pos
        /\ dl'[c].inProgress = dl[c].inProgress /\ dl'[c].thread = dl[c].thread
    <2>1. file \in FileOrNone
      BY DEF FileOrNone
    <2>2. dl' = [dl EXCEPT ![c].name = file]
      BY <1>1
    <2> QED BY <2>1, <2>2 DEF DownloadTypes
  <1>9. /\ crossed' \in [Clients -> BOOLEAN]
        /\ \A d \in Clients \ {c} : crossed'[d] = crossed[d]
        /\ ~crossed'[c] => ~crossed[c] /\ ~Stray(c)
    <2> DEFINE b == crossed[c] \/ Stray(c)
    <2>1. b \in BOOLEAN /\ (~b => ~crossed[c] /\ ~Stray(c))
      BY <1>2 DEF DownloadTypes
    <2>2. crossed' = [crossed EXCEPT ![c] = b]
      BY <1>1
    <2> HIDE DEF b
    <2> QED BY <2>1, <2>2 DEF DownloadTypes
  <1>4. /\ handler' \in [Clients -> [op : {"none", "request", "cancel", "close"},
                                     pc : {"idle", "undo", "join", "create"}, file : FileOrNone]]
        /\ \A d \in Clients \ {c} : handler'[d] = handler[d]
        /\ \/ handler'[c] = handler[c]
           \/ handler'[c] = [op |-> "request", pc |-> "undo", file |-> file]
    <2>1. [op |-> "request", pc |-> "undo", file |-> file]
             \in [op : {"none", "request", "cancel", "close"},
                  pc : {"idle", "undo", "join", "create"}, file : FileOrNone]
      BY DEF FileOrNone
    <2>2. handler \in [Clients -> [op : {"none", "request", "cancel", "close"},
                                  pc : {"idle", "undo", "join", "create"}, file : FileOrNone]]
      BY DEF DownloadTypes, FileOrNone
    <2> QED BY <1>1, <2>1, <2>2
  <1>5. DownloadTypes'
    BY <1>1, <1>3, <1>4, <1>9 DEF DownloadTypes, FileOrNone
  <1>6. handler[c].pc = "idle" /\ handler'[c].pc \in {"idle", "undo"} /\ HandlerOK(c)
    BY <1>1, <1>4 DEF Idle, DownloadInv
  <1>7. HandlerOK(c)'
    BY <1>1, <1>3, <1>4, <1>6 DEF HandlerOK
  <1>8. ASSUME ~crossed[c], ~Stray(c) PROVE LogOK(c)'
    <2>1. LogOK(c)
      BY <1>8 DEF DownloadInv
    <2>2. ASSUME NEW i \in DOMAIN threads[c], Running(c, i)
          PROVE  /\ i = dl'[c].thread
                 /\ InFlight(threads[c][i], dl'[c], handler'[c], sent[c])
      <3>1. dl[c].inProgress
        BY <1>6, <1>8, <2>2 DEF Stray
      <3>2. i = dl[c].thread /\ InFlight(threads[c][i], dl[c], handler[c], sent[c])
        BY <2>1, <2>2 DEF LogOK
      <3> QED BY <1>3, <3>1, <3>2 DEF InFlight, Reads, Sends, Checks
    <2> QED BY <1>1, <1>6, <2>1, <2>2 DEF LogOK, Running
  <1> QED BY <1>1, <1>3, <1>4, <1>5, <1>7, <1>8, <1>9, OtherLogs

\* A handler that is about to call CloseUndoneFileDownload.
LEMMA UndoBeginsKeepsLog ==
  ASSUME DownloadTypes, DownloadInv, NEW c \in Clients, Handles(c), NEW op \in {"cancel", "close"},
         handler' = [handler EXCEPT ![c] = [op |-> op, pc |-> "undo", file |-> None]],
         UNCHANGED <<dl, threads, sent, crossed>>
  PROVE  DownloadTypes' /\ DownloadInv'
  <1>1. handler[c] = Idle
    BY DEF Handles
  <1>2. /\ handler' \in [Clients -> [op : {"none", "request", "cancel", "close"},
                                     pc : {"idle", "undo", "join", "create"}, file : FileOrNone]]
        /\ handler'[c] = [op |-> op, pc |-> "undo", file |-> None]
        /\ \A d \in Clients \ {c} : handler'[d] = handler[d]
    BY DEF DownloadTypes, FileOrNone
  <1>3. DownloadTypes'
    BY <1>2 DEF DownloadTypes, FileOrNone
  <1>4. handler[c].pc = "idle" /\ handler'[c].pc = "undo" /\ handler'[c].op = op /\ HandlerOK(c)
    BY <1>1, <1>2 DEF Idle, DownloadInv
  <1>5. HandlerOK(c)'
    BY <1>4 DEF HandlerOK
  <1>6. ~crossed[c] => LogOK(c)'
    BY <1>4, LogSeesJoin
  <1> QED BY <1>2, <1>3, <1>5, <1>6, OtherLogs

\* The handlers keep the shapes of the state.
LEMMA HandlerTypes ==
  ASSUME DownloadTypes, NEW c \in Clients
  PROVE  /\ handler[c] \in [op : {"none", "request", "cancel", "close"},
                            pc : {"idle", "undo", "join", "create"}, file : FileOrNone]
         /\ dl[c] \in [name : FileOrNone, fd : FileOrNone, pos : Nat, inProgress : BOOLEAN, thread : Nat]
         /\ handler \in [Clients -> [op : {"none", "request", "cancel", "close"},
                            pc : {"idle", "undo", "join", "create"}, file : FileOrNone]]
         /\ sent[c] \in Seq(Messages \cup Requests)
  BY DEF DownloadTypes, FileOrNone

\* A request that comes through begins a new log, and every thread that still
\* runs is a stray one.
LEMMA ReturnKeepsLog ==
  ASSUME DownloadTypes, DownloadInv, NEW c \in Clients, Return(c), UNCHANGED threads,
         handler[c].pc \in {"undo", "join"},
         handler[c].pc = "join" => ~Running(c, dl[c].thread),
         ~dl[c].inProgress,
         dl' \in [Clients -> [name : FileOrNone, fd : FileOrNone, pos : Nat, inProgress : BOOLEAN,
                              thread : Nat]],
         \A d \in Clients \ {c} : dl'[d] = dl[d],
         ~dl'[c].inProgress, dl'[c].fd = None, dl'[c].thread = dl[c].thread,
         dl'[c].name \in {dl[c].name, None},
         handler[c].pc = "undo" => dl' = dl
  PROVE  DownloadTypes' /\ DownloadInv'
  <1> DEFINE op == handler[c].op
             H == [op : {"none", "request", "cancel", "close"},
                   pc : {"idle", "undo", "join", "create"}, file : FileOrNone]
             log == <<Message("request", handler[c].file, 0)>>
  <1>0. HandlerOK(c) /\ op # "none"
    BY HandlerTypes DEF DownloadInv, HandlerOK
  <1>1. CASE op = "request"
    <2> DEFINE h == [handler[c] EXCEPT !.pc = "create"]
    <2>1. /\ handler' = [handler EXCEPT ![c] = h]
          /\ sent' = [sent EXCEPT ![c] = log]
          /\ crossed' = [crossed EXCEPT ![c] = Stray(c)]
      BY <1>1 DEF Return
    <2>2. handler[c].file \in Files /\ dl[c].name = handler[c].file
      BY <1>0, <1>1 DEF HandlerOK
    <2>3. log \in Seq(Messages \cup Requests) /\ Len(log) = 1
          /\ log[1] = Message("request", handler[c].file, 0)
      BY <2>2 DEF Requests
    <2>4. h \in H /\ h.op = "request" /\ h.pc = "create" /\ h.file = handler[c].file
      BY <1>1, HandlerTypes
    <2>5. Stray(c) \in BOOLEAN
      BY DEF Stray
    <2> HIDE DEF h, log
    <2>6. /\ handler' \in [Clients -> H] /\ handler'[c] = h
          /\ \A d \in Clients \ {c} : handler'[d] = handler[d]
      BY <2>1, <2>4, HandlerTypes
    <2>7. /\ sent' \in [Clients -> Seq(Messages \cup Requests)] /\ sent'[c] = log
          /\ \A d \in Clients \ {c} : sent'[d] = sent[d]
      BY <2>1, <2>3 DEF DownloadTypes
    <2>8. /\ crossed' \in [Clients -> BOOLEAN] /\ crossed'[c] = Stray(c)
          /\ \A d \in Clients \ {c} : crossed'[d] = crossed[d]
      BY <2>1, <2>5 DEF DownloadTypes
    <2>9. DownloadTypes'
      BY <2>6, <2>7, <2>8 DEF DownloadTypes, FileOrNone
    <2>10. HandlerOK(c)'
      BY <1>0, <1>1, <2>2, <2>4, <2>6 DEF HandlerOK
    <2>11. ASSUME ~Stray(c) PROVE LogOK(c)'
      <3>1. \A i \in DOMAIN threads[c] : ~Running(c, i)
        BY <2>11, HandlerTypes DEF Stray
      <3>2. InOrder(log)
        BY <2>3 DEF InOrder
      <3>3. sent'[c] = <<Message("request", handler'[c].file, 0)>>
        BY <2>4, <2>6, <2>7 DEF log
      <3> QED BY <2>7, <3>1, <3>2, <3>3 DEF LogOK, Running
    <2> QED BY <2>6, <2>7, <2>8, <2>9, <2>10, <2>11, OtherLogs
  <1>2. CASE op # "request"
    <2>1. handler' = [handler EXCEPT ![c] = Idle] /\ UNCHANGED <<sent, crossed>>
      BY <1>2 DEF Return
    <2>2. Idle \in H /\ Idle.op = "none" /\ Idle.pc = "idle"
      BY DEF Idle, FileOrNone
    <2>3. /\ handler' \in [Clients -> H] /\ handler'[c] = Idle
          /\ \A d \in Clients \ {c} : handler'[d] = handler[d]
      BY <2>1, <2>2, HandlerTypes
    <2>4. DownloadTypes'
      BY <2>1, <2>3 DEF DownloadTypes, FileOrNone
    <2>5. HandlerOK(c)'
      BY <1>0, <2>2, <2>3 DEF HandlerOK
    <2>6. ASSUME ~crossed[c] PROVE LogOK(c)'
      <3>1. LogOK(c)
        BY <2>6 DEF DownloadInv
      <3>2. CASE handler[c].pc = "undo"
        BY <2>1, <2>2, <2>3, <2>6, <3>2, LogSeesJoin
      <3>3. CASE handler[c].pc = "join"
        <4>1. \A i \in DOMAIN threads[c] : ~Running(c, i)
          BY <3>1, <3>3 DEF LogOK
        <4> QED BY <2>1, <2>2, <2>3, <3>1, <4>1 DEF LogOK, Running
      <3> QED BY <3>2, <3>3
    <2> QED BY <2>1, <2>3, <2>4, <2>5, <2>6, OtherLogs
  <1> QED BY <1>1, <1>2

\* CloseUndoneFileDownload, up to pthread_join.
LEMMA UndoKeepsLog ==
  ASSUME DownloadTypes, DownloadInv, NEW c \in Clients, Undo(c)
  PROVE  DownloadTypes' /\ DownloadInv'
  <1>1. handler[c].pc = "undo" /\ UNCHANGED threads /\ HandlerOK(c)
    BY DEF Undo, DownloadInv
  <1>2. CASE dl[c].inProgress
    <2>1. /\ dl' = [dl EXCEPT ![c].inProgress = FALSE]
          /\ handler' = [handler EXCEPT ![c].pc = "join"]
          /\ UNCHANGED <<sent, crossed>>
      BY <1>2 DEF Undo
    <2>2. /\ dl' \in [Clients -> [name : FileOrNone, fd : FileOrNone, pos : Nat, inProgress : BOOLEAN,
                                  thread : Nat]]
          /\ \A d \in Clients \ {c} : dl'[d] = dl[d]
          /\ dl'[c].name = dl[c].name /\ dl'[c].fd = dl[c].fd /\ ~dl'[c].inProgress
          /\ dl'[c].thread = dl[c].thread
      BY <2>1 DEF DownloadTypes
    <2>3. /\ handler' \in [Clients -> [op : {"none", "request", "cancel", "close"},
                                       pc : {"idle", "undo", "join", "create"}, file : FileOrNone]]
          /\ \A d \in Clients \ {c} : handler'[d] = handler[d]
          /\ handler'[c].op = handler[c].op /\ handler'[c].pc = "join"
          /\ handler'[c].file = handler[c].file
      BY <2>1, HandlerTypes
    <2>4. DownloadTypes'
      BY <1>1, <2>1, <2>2, <2>3 DEF DownloadTypes, FileOrNone
    <2>5. HandlerOK(c)'
      BY <1>1, <1>2, <2>2, <2>3 DEF HandlerOK
    <2>6. ASSUME ~crossed[c] PROVE LogOK(c)'
      <3>1. LogOK(c)
        BY <2>6 DEF DownloadInv
      <3>2. ASSUME NEW i \in DOMAIN threads[c], Running(c, i)
            PROVE  /\ i = dl'[c].thread
                   /\ InFlight(threads[c][i], dl'[c], handler'[c], sent[c])
        <4>1. i = dl[c].thread /\ InFlight(threads[c][i], dl[c], handler[c], sent[c])
          BY <3>1, <3>2 DEF LogOK
        <4>2. threads[c][i].pc = "read" => Reads(threads[c][i], dl'[c], handler'[c], sent[c])
          BY <2>2, <2>3, <4>1 DEF InFlight, Reads
        <4>3. threads[c][i].pc = "send" => Sends(threads[c][i], dl'[c], handler'[c], sent[c])
          BY <1>2, <2>2, <2>3, <4>1 DEF InFlight, Sends
        <4>4. Checks(threads[c][i], dl'[c], handler'[c], sent[c])
          BY <2>2 DEF Checks
        <4> QED BY <2>2, <4>1, <4>2, <4>3, <4>4 DEF InFlight
      <3> QED BY <1>1, <2>1, <2>3, <3>1, <3>2 DEF LogOK, Running
    <2> QED BY <1>1, <2>1, <2>2, <2>3, <2>4, <2>5, <2>6, OtherLogs
  <1>3. CASE ~dl[c].inProgress
    <2>1. Return(c) /\ UNCHANGED dl
      BY <1>3 DEF Undo
    <2>2. dl[c].fd = None
      BY <1>1, <1>3 DEF HandlerOK
    <2>3. dl \in [Clients -> [name : FileOrNone, fd : FileOrNone, pos : Nat, inProgress : BOOLEAN,
                              thread : Nat]]
      BY DEF DownloadTypes
    <2> QED BY <1>1, <1>3, <2>1, <2>2, <2>3, ReturnKeepsLog
  <1> QED BY <1>2, <1>3, HandlerTypes

\* ... and after it: the thread has ended.
LEMMA JoinKeepsLog ==
  ASSUME DownloadTypes, DownloadInv, NEW c \in Clients, Join(c)
  PROVE  DownloadTypes' /\ DownloadInv'
  <1>1. /\ handler[c].pc = "join" /\ ~Running(c, dl[c].thread) /\ Return(c) /\ UNCHANGED threads
        /\ dl' = [dl EXCEPT ![c].fd = None, ![c].name = None]
    BY DEF Join
  <1>2. ~dl[c].inProgress
    BY <1>1 DEF DownloadInv, HandlerOK
  <1>3. /\ dl' \in [Clients -> [name : FileOrNone, fd : FileOrNone, pos : Nat, inProgress : BOOLEAN,
                                thread : Nat]]
        /\ \A d \in Clients \ {c} : dl'[d] = dl[d]
        /\ dl'[c].name = None /\ dl'[c].fd = None /\ dl'[c].inProgress = dl[c].inProgress
        /\ dl'[c].thread = dl[c].thread
    <2>1. None \in FileOrNone
      BY DEF FileOrNone
    <2> QED BY ZenonT(30), <1>1, <2>1 DEF DownloadTypes
  <1> QED BY <1>1, <1>2, <1>3, ReturnKeepsLog

\* pthread_create: the new thread begins the log.
LEMMA CreateKeepsLog ==
  ASSUME DownloadTypes, DownloadInv, NEW c \in Clients, Create(c)
  PROVE  DownloadTypes' /\ DownloadInv'
  <1> DEFINE T == [pc : {"read", "send", "check", "ended"}, msg : Messages]
             new == [pc |-> "read", msg |-> EndMessage]
  <1>1. /\ handler[c].pc = "create" /\ handler' = [handler EXCEPT ![c] = Idle]
        /\ UNCHANGED <<sent, crossed>> /\ HandlerOK(c)
    BY DEF Create, DownloadInv
  <1>2. /\ handler' \in [Clients -> [op : {"none", "request", "cancel", "close"},
                                     pc : {"idle", "undo", "join", "create"}, file : FileOrNone]]
        /\ handler'[c] = Idle /\ \A d \in Clients \ {c} : handler'[d] = handler[d]
        /\ Idle.op = "none" /\ Idle.pc = "idle"
    <2>1. Idle \in [op : {"none", "request", "cancel", "close"},
                    pc : {"idle", "undo", "join", "create"}, file : FileOrNone]
          /\ Idle.op = "none" /\ Idle.pc = "idle"
      BY DEF Idle, FileOrNone
    <2> QED BY <1>1, <2>1, HandlerTypes
  <1>3. handler[c].op = "request" /\ handler[c].file \in Files
        /\ dl[c].name \in {handler[c].file, None} /\ dl[c].thread = Len(threads[c])
        /\ (dl[c].fd # None <=> dl[c].inProgress)
    BY <1>1 DEF HandlerOK
  <1>4. ~crossed[c] => /\ LogOK(c) /\ \A i \in DOMAIN threads[c] : ~Running(c, i)
                       /\ sent[c] = <<Message("request", handler[c].file, 0)>> /\ ~dl[c].inProgress
    BY <1>1 DEF DownloadInv, LogOK
  <1>5. CASE UNCHANGED <<threads, dl>>
    <2>1. DownloadTypes'
      BY <1>1, <1>2, <1>5 DEF DownloadTypes, FileOrNone
    <2>2. HandlerOK(c)'
      BY <1>2, <1>3, <1>5 DEF HandlerOK
    <2>3. ~crossed[c] => LogOK(c)'
      BY <1>1, <1>2, <1>4, <1>5 DEF LogOK, Running
    <2> QED BY <1>1, <1>2, <1>5, <2>1, <2>2, <2>3, OtherLogs
  <1>6. CASE /\ threads' = [threads EXCEPT ![c] = Append(@, new)]
             /\ dl' = [dl EXCEPT ![c].thread = Len(threads[c]) + 1]
    <2>1. threads[c] \in Seq(T) /\ new \in T
      BY DEF DownloadTypes, Messages
    <2>2. /\ Append(threads[c], new) \in Seq(T)
          /\ Len(Append(threads[c], new)) = Len(threads[c]) + 1
          /\ \A i \in 1 .. Len(threads[c]) : Append(threads[c], new)[i] = threads[c][i]
          /\ Append(threads[c], new)[Len(threads[c]) + 1] = new
      BY <2>1, AppendProperties
    <2>3. /\ threads' \in [Clients -> Seq(T)] /\ threads'[c] = Append(threads[c], new)
          /\ \A d \in Clients \ {c} : threads'[d] = threads[d]
      BY <1>6, <2>2 DEF DownloadTypes
    <2>4. Len(threads[c]) \in Nat /\ Len(threads[c]) + 1 \in Nat
      BY <2>1
    <2>5. /\ dl' \in [Clients -> [name : FileOrNone, fd : FileOrNone, pos : Nat, inProgress : BOOLEAN,
                                  thread : Nat]]
          /\ \A d \in Clients \ {c} : dl'[d] = dl[d]
          /\ dl'[c].name = dl[c].name /\ dl'[c].fd = dl[c].fd /\ dl'[c].inProgress = dl[c].inProgress
          /\ dl'[c].thread = Len(threads[c]) + 1
      <3> DEFINE n == Len(threads[c]) + 1
      <3>1. n \in Nat /\ dl' = [dl EXCEPT ![c].thread = n]
        BY <1>6, <2>4
      <3> HIDE DEF n
      <3>2. /\ dl' \in [Clients -> [name : FileOrNone, fd : FileOrNone, pos : Nat, inProgress : BOOLEAN,
                                    thread : Nat]]
            /\ \A d \in Clients \ {c} : dl'[d] = dl[d]
            /\ dl'[c].name = dl[c].name /\ dl'[c].fd = dl[c].fd /\ dl'[c].inProgress = dl[c].inProgress
            /\ dl'[c].thread = n
        BY <3>1 DEF DownloadTypes
      <3> QED BY <3>2 DEF n
    <2>6. DownloadTypes'
      BY <1>1, <1>2, <2>3, <2>5 DEF DownloadTypes, FileOrNone
    <2>7. HandlerOK(c)'
      BY <1>2, <1>3, <2>2, <2>3, <2>5 DEF HandlerOK
    <2>8. ASSUME ~crossed[c] PROVE LogOK(c)'
      <3> DEFINE log == sent[c]
      <3>1. log = <<Message("request", handler[c].file, 0)>> /\ InOrder(log)
        BY <1>4, <2>8 DEF LogOK
      <3>2. OnlyBlocks(log) /\ log[1].file = handler[c].file /\ Len(log) = 1
        BY <1>3, <3>1 DEF OnlyBlocks, Message
      <3>3. InFlight(new, dl'[c], Idle, log)
        <4>1. Reads(new, dl'[c], Idle, log)
          BY <1>2, <1>3, <1>4, <2>5, <2>8, <3>2 DEF Reads
        <4> QED BY <4>1 DEF InFlight
      <3>4. ASSUME NEW i \in DOMAIN threads'[c], Running(c, i)'
            PROVE  i = Len(threads[c]) + 1
        <4>1. i \in 1 .. Len(threads[c]) + 1
          BY <2>2, <2>3
        <4>2. ASSUME i \in 1 .. Len(threads[c]) PROVE FALSE
          <5>1. threads'[c][i] = threads[c][i] /\ i \in DOMAIN threads[c]
            BY <2>1, <2>2, <2>3, <4>2
          <5> QED BY <1>4, <2>8, <3>4, <5>1 DEF Running
        <4> QED BY <2>4, <4>1, <4>2
      <3>5. ASSUME NEW i \in DOMAIN threads'[c], Running(c, i)'
            PROVE  i = dl'[c].thread /\ InFlight(threads'[c][i], dl'[c], handler'[c], sent'[c])
        BY <1>1, <1>2, <2>2, <2>3, <2>5, <3>3, <3>4, <3>5
      <3> QED BY <1>1, <1>2, <3>1, <3>5 DEF LogOK
    <2> QED BY <1>1, <1>2, <2>3, <2>5, <2>6, <2>7, <2>8, OtherLogs
  <1> QED BY <1>5, <1>6 DEF Create

\* Nothing is downloaded at first.
LEMMA InitLog == TightInit => DownloadTypes /\ DownloadInv
  <1> SUFFICES ASSUME TightInit PROVE DownloadTypes /\ DownloadInv
    OBVIOUS
  <1>1. DownloadTypes
    BY DEF TightInit, DownloadTypes, FileOrNone, Idle
  <1>2. ASSUME NEW c \in Clients PROVE HandlerOK(c) /\ LogOK(c)
    BY DEF TightInit, HandlerOK, LogOK, InOrder, Idle
  <1> QED BY <1>1, <1>2 DEF DownloadInv

\* Every step keeps the logs.
LEMMA LogStep ==
  DownloadTypes /\ DownloadInv /\ [TightNext]_tightVars => DownloadTypes' /\ DownloadInv'
  <1> SUFFICES ASSUME DownloadTypes, DownloadInv, [TightNext]_tightVars
               PROVE  DownloadTypes' /\ DownloadInv'
    OBVIOUS
  <1>1. CASE UNCHANGED downloadVars
    BY ZenonT(30), <1>1 DEF downloadVars, DownloadTypes, DownloadInv, HandlerOK, LogOK, Running
  <1>2. ASSUME NEW c \in Clients, Thread(c) PROVE DownloadTypes' /\ DownloadInv'
    BY <1>2, ReadKeeps, SendKeeps, CheckKeeps DEF Thread
  <1>3. ASSUME NEW c \in Clients, Handler(c) PROVE DownloadTypes' /\ DownloadInv'
    BY <1>3, UndoKeepsLog, JoinKeepsLog, CreateKeepsLog DEF Handler
  <1>4. ASSUME NEW c \in Clients, Cancel(c) \/ Close(c) PROVE DownloadTypes' /\ DownloadInv'
    <2>1. /\ Handles(c) /\ UNCHANGED <<dl, threads, sent, crossed>>
          /\ \E op \in {"cancel", "close"} :
                handler' = [handler EXCEPT ![c] = [op |-> op, pc |-> "undo", file |-> None]]
      BY <1>4 DEF Cancel, Close
    <2> QED BY <2>1, UndoBeginsKeepsLog
  <1>5. ASSUME NEW c \in Clients, (\E u \in Uploads : Upload(c, u)) \/ UploadData(c)
                  \/ UploadEnd(c) \/ (\E reasonLen \in {0, 1} : UploadFailed(c, reasonLen))
        PROVE  UNCHANGED downloadVars
    BY <1>5 DEF Upload, UploadData, UploadEnd, UploadFailed
  <1>6. CASE UNCHANGED tightVars
    BY <1>1, <1>6 DEF tightVars
  <1> QED BY <1>1, <1>2, <1>3, <1>4, <1>5, <1>6, RequestKeepsLog DEF TightNext

\* What a client is sent for a download are the blocks of the file it asked
\* for, in order.
THEOREM DownloadsInOrder == TightSpec => []DownloadInOrder
  <1>1. DownloadInv => DownloadInOrder
    BY DEF DownloadInv, LogOK, InOrder, DownloadInOrder
  <1> QED BY <1>1, InitLog, LogStep, PTL DEF TightSpec

(*------------------------- Handlers and the mutex -------------------------*)

\* The handler that holds the mutex is that of a cancel, and a file is open for
\* a client that is in the middle of an upload.
ControlOK(c) ==
    /\ handler[c] = Idle \/ c \in alive
    /\ handler[c].op = "cancel" <=> fileDownloadMutex = c
    /\ handler[c].op = "close" => ~up[c].inProgress
    /\ up[c].inProgress <=> up[c].fd # None
    /\ up[c].inProgress => up[c].name \in {up[c].fd, None} /\ c \in alive
ControlInv ==
    /\ alive \subseteq Clients
    /\ downloads \in 0 .. MaxDownloads
    /\ \A c \in Clients : ControlOK(c)

\* What a step does for one client leaves the others alone.
LEMMA OtherControls ==
  ASSUME ControlInv, NEW c \in Clients, ControlOK(c)',
         \A d \in Clients \ {c} :
            /\ handler'[d] = handler[d] /\ up'[d] = up[d]
            /\ d \in alive <=> d \in alive'
            /\ (fileDownloadMutex' = d <=> fileDownloadMutex = d)
  PROVE  \A d \in Clients : ControlOK(d)'
  BY DEF ControlInv, ControlOK

\* A handler that is set is that of one client.
LEMMA HandlerShape ==
  ASSUME UploadTypes, NEW c \in Clients, NEW h, handler' = [handler EXCEPT ![c] = h]
  PROVE  handler'[c] = h /\ \A d \in Clients \ {c} : handler'[d] = handler[d]
  BY DEF UploadTypes

\* The end of CloseUndoneFileDownload: of its callers, the cancel gives back the mutex.
LEMMA ReturnControls ==
  ASSUME UploadTypes, ControlInv, NEW c \in Clients, Return(c), handler[c].pc \in {"undo", "join"},
         UNCHANGED <<downloads, uploadVars>>
  PROVE  ControlInv'
  <1>0. UNCHANGED <<downloads, up>> /\ ControlOK(c) /\ alive \subseteq Clients
    BY DEF uploadVars, ControlInv
  <1>1. handler[c] # Idle /\ c \in alive
    BY <1>0 DEF Idle, ControlOK
  <1>2. handler[c].op # "none" \/ handler[c].op = "none"
    OBVIOUS
  <1>3. CASE handler[c].op = "request"
    <2>1. /\ handler' = [handler EXCEPT ![c] = [handler[c] EXCEPT !.pc = "create"]]
          /\ UNCHANGED <<fileDownloadMutex, alive>>
      BY <1>3 DEF Return
    <2>2. handler'[c].op = "request" /\ \A d \in Clients \ {c} : handler'[d] = handler[d]
      BY <1>3, <2>1 DEF UploadTypes
    <2>3. ControlOK(c)'
      BY <1>0, <1>1, <1>3, <2>1, <2>2 DEF ControlOK
    <2> QED BY <1>0, <2>1, <2>2, <2>3, OtherControls DEF ControlInv
  <1>4. CASE handler[c].op # "request"
    <2>1. /\ handler' = [handler EXCEPT ![c] = Idle]
          /\ fileDownloadMutex' = IF handler[c].op = "cancel" THEN None ELSE fileDownloadMutex
          /\ alive' = IF handler[c].op = "close" THEN alive \ {c} ELSE alive
      BY <1>4 DEF Return
    <2>2. handler'[c] = Idle /\ \A d \in Clients \ {c} : handler'[d] = handler[d]
      BY <2>1, HandlerShape
    <2>3. fileDownloadMutex' # c
      BY <1>0, <2>1, TightAssumption DEF ControlOK
    <2>4. ControlOK(c)'
      BY <1>0, <2>1, <2>2, <2>3 DEF ControlOK, Idle
    <2>5. alive' \subseteq Clients
      BY <1>0, <2>1
    <2>6. \A d \in Clients \ {c} : fileDownloadMutex' = d <=> fileDownloadMutex = d
      BY <1>0, <2>1, TightAssumption DEF ControlOK
    <2>7. \A d \in Clients \ {c} : d \in alive <=> d \in alive'
      BY <2>1
    <2>8. \A d \in Clients : ControlOK(d)'
      BY <1>0, <2>2, <2>4, <2>6, <2>7, OtherControls
    <2> QED BY <1>0, <2>5, <2>8 DEF ControlInv
  <1> QED BY <1>3, <1>4

\* The messages of an upload change the descriptor and the flag together.
LEMMA UploadControls ==
  ASSUME UploadTypes, ControlInv, NEW c \in Clients, c \in alive,
         UNCHANGED <<alive, fileDownloadMutex, downloads>>,
         \A d \in Clients \ {c} : up'[d] = up[d] /\ handler'[d] = handler[d],
         handler'[c].op = "cancel" <=> handler[c].op = "cancel",
         handler'[c].op = "close" => ~up'[c].inProgress,
         up'[c].inProgress <=> up'[c].fd # None,
         up'[c].inProgress => up'[c].name \in {up'[c].fd, None}
  PROVE  ControlInv'
  <1>1. ControlOK(c)'
    BY DEF ControlInv, ControlOK
  <1> QED BY <1>1, OtherControls DEF ControlInv

\* CloseUndoneFileUpload leaves no open file.
LEMMA CloseUndoneUp ==
  ASSUME UploadTypes, ControlInv, NEW c \in Clients, CloseUndoneFileUpload(c)
  PROVE  /\ \A d \in Clients \ {c} : up'[d] = up[d]
         /\ ~up'[c].inProgress /\ up'[c].fd = None
  <1>1. CASE up[c].inProgress
    <2>1. up' = [up EXCEPT ![c] = NoUpload]
      BY <1>1 DEF CloseUndoneFileUpload
    <2>2. up'[c] = NoUpload /\ \A d \in Clients \ {c} : up'[d] = up[d]
      BY <2>1 DEF UploadTypes
    <2> QED BY <2>2 DEF NoUpload
  <1>2. CASE ~up[c].inProgress
    BY <1>2 DEF CloseUndoneFileUpload, ControlInv, ControlOK
  <1> QED BY <1>1, <1>2

\* The messages of uploads, and the end of the connection.
LEMMA UploadMessageControls ==
  ASSUME UploadTypes, ControlInv, NEW c \in Clients,
         (\E u \in Uploads : Upload(c, u)) \/ UploadData(c) \/ UploadEnd(c)
            \/ (\E reasonLen \in {0, 1} : UploadFailed(c, reasonLen)) \/ Close(c)
  PROVE  ControlInv'
  <1>1. c \in alive /\ handler[c] = Idle /\ UNCHANGED <<alive, fileDownloadMutex, downloads>>
    BY DEF Upload, UploadData, UploadEnd, UploadFailed, Close, Handles, downloadVars
  <1>2. ControlOK(c) /\ Idle.op = "none" /\ None \notin Uploads
    BY TightAssumption DEF ControlInv, Idle
  <1>3. ASSUME NEW u \in Uploads, Upload(c, u) PROVE ControlInv'
    <2>1. handler' = handler
      BY <1>3 DEF Upload, downloadVars
    <2>2. CASE up' = [up EXCEPT ![c] = [name |-> u, fd |-> u, inProgress |-> TRUE]]
      <3>1. /\ up'[c] = [name |-> u, fd |-> u, inProgress |-> TRUE]
            /\ \A d \in Clients \ {c} : up'[d] = up[d]
        BY <2>2 DEF UploadTypes
      <3> QED BY <1>1, <1>2, <2>1, <3>1, UploadControls
    <2>3. CASE up' = [up EXCEPT ![c] = [NoUpload EXCEPT !.name = u]]
      <3>1. /\ up'[c] = [NoUpload EXCEPT !.name = u]
            /\ \A d \in Clients \ {c} : up'[d] = up[d]
        BY <2>3 DEF UploadTypes
      <3>2. up'[c].fd = None /\ up'[c].inProgress = FALSE
        BY <3>1 DEF NoUpload
      <3> QED BY <1>1, <1>2, <2>1, <3>1, <3>2, UploadControls
    <2>4. CASE up' = [up EXCEPT ![c].name = None]
      <3>1. /\ up'[c].fd = up[c].fd /\ up'[c].inProgress = up[c].inProgress /\ up'[c].name = None
            /\ \A d \in Clients \ {c} : up'[d] = up[d]
        BY <2>4 DEF UploadTypes
      <3> QED BY <1>1, <1>2, <2>1, <3>1, UploadControls DEF ControlOK
    <2> QED BY <1>3, <2>2, <2>3, <2>4 DEF Upload
  <1>4. CASE UploadData(c)
    <2>1. handler' = handler
      BY <1>4 DEF UploadData, downloadVars
    <2>2. CASE up' = up
      BY <1>1, <1>2, <2>1, <2>2, UploadControls DEF ControlOK
    <2>3. CASE CloseUndoneFileUpload(c)
      BY <1>1, <1>2, <2>1, <2>3, CloseUndoneUp, UploadControls
    <2> QED BY <1>4, <2>2, <2>3 DEF UploadData
  <1>5. CASE UploadEnd(c)
    <2>1. handler' = handler /\ up' = [up EXCEPT ![c].fd = None, ![c].inProgress = FALSE]
      BY <1>5 DEF UploadEnd, downloadVars
    <2>2. /\ up'[c].fd = None /\ up'[c].inProgress = FALSE
          /\ \A d \in Clients \ {c} : up'[d] = up[d]
      BY <2>1 DEF UploadTypes
    <2> QED BY <1>1, <1>2, <2>1, <2>2, UploadControls
  <1>6. ASSUME NEW reasonLen \in {0, 1}, UploadFailed(c, reasonLen) PROVE ControlInv'
    <2>1. handler' = handler /\ (up' = up \/ CloseUndoneFileUpload(c))
      BY <1>6 DEF UploadFailed, downloadVars
    <2>2. CASE up' = up
      BY <1>1, <1>2, <2>1, <2>2, UploadControls DEF ControlOK
    <2>3. CASE CloseUndoneFileUpload(c)
      BY <1>1, <1>2, <2>1, <2>3, CloseUndoneUp, UploadControls
    <2> QED BY <2>1, <2>2, <2>3
  <1>7. CASE Close(c)
    <2>1. /\ handler' = [handler EXCEPT ![c] = [op |-> "close", pc |-> "undo", file |-> None]]
          /\ CloseUndoneFileUpload(c)
      BY <1>7 DEF Close
    <2>2. handler'[c].op = "close" /\ \A d \in Clients \ {c} : handler'[d] = handler[d]
      <3> DEFINE h == [op |-> "close", pc |-> "undo", file |-> None]
      <3>1. h.op = "close" /\ handler' = [handler EXCEPT ![c] = h]
        BY <2>1
      <3> HIDE DEF h
      <3> QED BY <3>1, HandlerShape
    <2> QED BY <1>1, <1>2, <2>1, <2>2, CloseUndoneUp, UploadControls
  <1> QED BY <1>3, <1>4, <1>5, <1>6, <1>7

\* The messages of downloads.
LEMMA DownloadMessageControls ==
  ASSUME UploadTypes, ControlInv, NEW c \in Clients, (\E file \in Files : Request(c, file)) \/ Cancel(c)
  PROVE  ControlInv'
  <1>1. c \in alive /\ handler[c] = Idle /\ UNCHANGED <<alive, uploadVars>>
    BY DEF Request, Cancel, Handles
  <1>2. ControlOK(c) /\ Idle.op = "none" /\ Idle.pc = "idle" /\ UNCHANGED up
    BY <1>1 DEF ControlInv, Idle, uploadVars
  <1>3. ASSUME NEW file \in Files, Request(c, file) PROVE ControlInv'
    <2>1. /\ downloads' \in 0 .. MaxDownloads /\ fileDownloadMutex' = fileDownloadMutex
          /\ handler' = handler
               \/ handler' = [handler EXCEPT ![c] = [op |-> "request", pc |-> "undo", file |-> file]]
      BY <1>3, TightAssumption DEF Request, ControlInv
    <2>2. /\ handler'[c] = handler[c] \/ handler'[c].op = "request"
          /\ \A d \in Clients \ {c} : handler'[d] = handler[d]
      BY <2>1, HandlerShape
    <2>3. ControlOK(c)'
      BY <1>1, <1>2, <2>1, <2>2 DEF ControlOK
    <2> QED BY <1>1, <1>2, <2>1, <2>2, <2>3, OtherControls DEF ControlInv
  <1>4. CASE Cancel(c)
    <2>1. /\ downloads' = downloads /\ fileDownloadMutex = None /\ fileDownloadMutex' = c
          /\ handler' = [handler EXCEPT ![c] = [op |-> "cancel", pc |-> "undo", file |-> None]]
      BY <1>4 DEF Cancel
    <2>2. handler'[c].op = "cancel" /\ \A d \in Clients \ {c} : handler'[d] = handler[d]
      <3> DEFINE h == [op |-> "cancel", pc |-> "undo", file |-> None]
      <3>1. h.op = "cancel" /\ handler' = [handler EXCEPT ![c] = h]
        BY <2>1
      <3> HIDE DEF h
      <3> QED BY <3>1, HandlerShape
    <2>3. ControlOK(c)'
      BY <1>1, <1>2, <2>1, <2>2 DEF ControlOK
    <2>4. \A d \in Clients \ {c} : fileDownloadMutex' = d <=> fileDownloadMutex = d
      BY <2>1, TightAssumption
    <2> QED BY <1>1, <1>2, <2>1, <2>2, <2>3, <2>4, OtherControls DEF ControlInv
  <1> QED BY <1>3, <1>4

\* The rest of a handler.
LEMMA HandlerControls ==
  ASSUME UploadTypes, DownloadInv, ControlInv, NEW c \in Clients, Handler(c)
  PROVE  ControlInv'
  <1>1. CASE Return(c) /\ handler[c].pc \in {"undo", "join"} /\ UNCHANGED <<downloads, uploadVars>>
    BY <1>1, ReturnControls
  <1>2. CASE /\ Undo(c) /\ dl[c].inProgress
    <2>1. /\ handler' = [handler EXCEPT ![c].pc = "join"] /\ handler[c].pc = "undo"
          /\ UNCHANGED <<alive, fileDownloadMutex, downloads, uploadVars>>
      BY <1>2 DEF Undo
    <2>2. handler'[c].op = handler[c].op /\ \A d \in Clients \ {c} : handler'[d] = handler[d]
      BY <2>1 DEF UploadTypes
    <2>3. ControlOK(c)'
      BY <2>1, <2>2 DEF ControlInv, ControlOK, Idle, uploadVars
    <2> QED BY <2>1, <2>2, <2>3, OtherControls DEF ControlInv, uploadVars
  <1>3. CASE Create(c)
    <2>1. /\ handler' = [handler EXCEPT ![c] = Idle] /\ handler[c].pc = "create"
          /\ UNCHANGED <<alive, fileDownloadMutex, downloads, uploadVars>>
      BY <1>3 DEF Create
    <2>2. handler'[c] = Idle /\ \A d \in Clients \ {c} : handler'[d] = handler[d]
      BY <2>1, HandlerShape
    <2>3. handler[c].op # "cancel"
      BY <2>1 DEF DownloadInv, HandlerOK
    <2>4. ControlOK(c)'
      BY <2>1, <2>2, <2>3 DEF ControlInv, ControlOK, Idle, uploadVars
    <2> QED BY <2>1, <2>2, <2>4, OtherControls DEF ControlInv, uploadVars
  <1> QED BY <1>1, <1>2, <1>3 DEF Handler, Undo, Join

\* At first, no handler is at work.
LEMMA InitControls == TightInit => ControlInv
  BY TightAssumption DEF TightInit, ControlInv, ControlOK, Idle, NoUpload

\* Every step keeps the handlers and their mutex.
LEMMA ControlStep ==
  UploadTypes /\ DownloadInv /\ ControlInv /\ [TightNext]_tightVars => ControlInv'
  <1> SUFFICES ASSUME UploadTypes, DownloadInv, ControlInv, [TightNext]_tightVars PROVE ControlInv'
    OBVIOUS
  <1>1. CASE UNCHANGED tightVars
    BY <1>1 DEF tightVars, downloadVars, uploadVars, ControlInv, ControlOK
  <1>2. ASSUME NEW c \in Clients, Thread(c) PROVE ControlInv'
    <2>1. UNCHANGED <<alive, uploadVars, handler, fileDownloadMutex, downloads>>
      BY <1>2 DEF Thread, Read, Send, Check
    <2> QED BY <2>1 DEF uploadVars, ControlInv, ControlOK
  <1> QED BY <1>1, <1>2, HandlerControls, UploadMessageControls, DownloadMessageControls DEF TightNext

\* Together with the shapes of the downloads, the ranges of the extension.
LEMMA TightRanges ==
  ASSUME UploadTypes, DownloadTypes, DownloadInv, ControlInv
  PROVE  TightTypeOK
  <1>1. ASSUME NEW c \in Clients
        PROVE  /\ handler[c].pc \in {"idle", "undo", "join", "create"}
               /\ dl[c].name \in Files \cup {None} /\ dl[c].fd \in Files \cup {None}
               /\ dl[c].thread \in 0 .. Len(threads[c])
               /\ \A i \in DOMAIN threads[c] :
                    /\ threads[c][i].pc \in {"read", "send", "check", "ended"}
                    /\ threads[c][i].msg \in Messages
    <2>1. threads[c] \in Seq([pc : {"read", "send", "check", "ended"}, msg : Messages])
      BY DEF DownloadTypes
    <2>2. dl[c].thread = Len(threads[c])
      BY DEF DownloadInv, HandlerOK
    <2>3. \A i \in DOMAIN threads[c] :
             threads[c][i] \in [pc : {"read", "send", "check", "ended"}, msg : Messages]
      <3> DEFINE T == [pc : {"read", "send", "check", "ended"}, msg : Messages]
      <3> HIDE DEF T
      <3>1. threads[c] \in Seq(T)
        BY <2>1 DEF T
      <3>2. \A i \in DOMAIN threads[c] : threads[c][i] \in T
        BY <3>1
      <3> QED BY <3>2 DEF T
    <2> QED BY <2>1, <2>2, <2>3 DEF UploadTypes, DownloadTypes, FileOrNone
  <1> QED BY <1>1 DEF ControlInv, ControlOK, TightTypeOK

(* The handler that holds the mutex is that of a cancel, and the state of  *)
(* the extension stays in its ranges.                                      *)
THEOREM TightTyped == TightSpec => []TightTypeOK
  <1>1. UploadInv => UploadTypes
    BY DEF UploadInv
  <1> QED BY <1>1, InitUpload, StepUpload, InitLog, LogStep, InitControls, ControlStep, TightRanges, PTL
          DEF TightSpec

(*--------------------------- UltraVNC transfers ---------------------------*)

Begins == {"FileTransferRequest", "FileTransferOffer"}
Headers == {"FileHeader", "FileAcceptHeader"}
Finals == {"EndOfFile", "AbortFileTransfer"}
Progress == {"FilePacket"} \cup Finals

\* What makes the server close the file of a transfer.
Closes(msg) == msg.type \in Finals \/ msg = Msg("FileHeader", "error")

\* The messages for the server before the n-th leave it with no open file.
ClosedBefore(n) ==
    /\ \A i \in 1 .. n - 1 : toServer[i].type \notin Begins
    /\ fileTransfer.fd = Closed \/ \E i \in 1 .. n - 1 : Closes(toServer[i])

NoHeader == \A i \in DOMAIN toViewer : toViewer[i].type \notin Headers

Asked == IF viewer.step = "header" THEN Msg("FileTransferRequest", viewer.file)
         ELSE Msg("FileTransferOffer", "upload")

\* The request has not come to the server yet ...
Waiting ==
    /\ connected /\ toServer # <<>> /\ NoHeader
    /\ toServer[Len(toServer)] = Asked
    /\ ClosedBefore(Len(toServer))

\* ... has been answered ...
Answer(h) ==
    /\ toViewer[h].type = IF viewer.step = "header" THEN "FileHeader" ELSE "FileAcceptHeader"
    /\ \A i \in DOMAIN toViewer \ {h} : toViewer[i].type \notin Headers
    /\ viewer.step = "header" => \A i \in DOMAIN toViewer : i > h => toViewer[i].type \notin Progress
    /\ connected =>
         /\ toServer = <<>>
         /\ IF toViewer[h].arg # "ok" THEN fileTransfer.fd = Closed
            ELSE viewer.step = "header" =>
                   /\ fileTransfer.fd = viewer.file /\ fileTransfer.pos = 0
                   /\ ~fileTransfer.sending
Answered == \E h \in DOMAIN toViewer : Answer(h)

\* ... or never will be.
Lost == ~connected /\ NoHeader

\* The blocks on their way to the viewer follow those it has: at[i] of them have
\* come before the i-th message.
Stream(at) ==
    /\ at[1] = Len(viewer.got)
    /\ \A i \in 1 .. Len(toViewer) :
         IF toViewer[i].type = "FilePacket"
         THEN /\ toViewer[i].arg = <<viewer.file, at[i] + 1>>
              /\ at[i] < Blocks[viewer.file] /\ at[i + 1] = at[i] + 1
         ELSE at[i + 1] = at[i]
    /\ \A i \in 1 .. Len(toViewer) : toViewer[i].type \in Finals =>
         /\ toViewer[i].type = "EndOfFile" => at[i] = Blocks[viewer.file]
         /\ \A j \in 1 .. Len(toViewer) : j > i => toViewer[j].type \notin Progress

Sending(at) ==
    /\ fileTransfer.fd = viewer.file /\ fileTransfer.pos = at[Len(toViewer) + 1]
    /\ \A i \in 1 .. Len(toViewer) : toViewer[i].type \notin Finals
    /\ toServer = <<>> \/ (toServer = <<Msg("FileHeader", "ok")>> /\ ~fileTransfer.sending)

Receiving(at) ==
    /\ Stream(at)
    /\ connected => Sending(at) \/ (toServer = <<>> /\ fileTransfer.fd = Closed)

ServerMsgs ==
    [type : {"FileTransferRequest"}, arg : SharedFiles]
    \cup [type : {"FileTransferOffer"}, arg : {"upload"}]
    \cup [type : {"FilePacket"}, arg : Nat]
    \cup [type : {"FileHeader", "EndOfFile", "AbortFileTransfer"}, arg : {"ok", "error", "ask"}]

ViewerMsgs ==
    [type : {"FilePacket"}, arg : SharedFiles \X Nat]
    \cup [type : {"FileHeader", "FileAcceptHeader", "sizeHtmp", "Update", "FileTransferAccess"}
                 \cup Finals,
          arg : {"ok", "error"}]

Transfers == [fd : SharedFiles \cup {"upload", Closed}, pos : Nat,
              sending : BOOLEAN, receiving : BOOLEAN]

UltraTypes ==
    /\ connected \in BOOLEAN /\ permitted \in BOOLEAN /\ overwritten \in BOOLEAN
    /\ fileTransfer \in Transfers
    /\ writing \in {<<>>, <<Msg("sizeHtmp", "ok")>>}
    /\ toServer \in Seq(ServerMsgs) /\ toViewer \in Seq(ViewerMsgs)
    /\ viewer \in [step : {"idle", "header", "receiving", "accept", "uploading"},
                   file : SharedFiles, got : Seq(SharedFiles \X Nat), sent : 0 .. OfferBlocks,
                   result : {"idle", "copying", "complete", "failed"}]
    /\ transfers \in 0 .. MaxTransfers

\* A message more ...
LEMMA OneMore ==
  ASSUME NEW S, NEW s \in Seq(S), NEW m \in S
  PROVE  /\ s \o <<m>> \in Seq(S) /\ Len(s \o <<m>>) = Len(s) + 1
         /\ DOMAIN (s \o <<m>>) = 1 .. Len(s) + 1 /\ DOMAIN s = 1 .. Len(s) /\ Len(s) \in Nat
         /\ \A i \in 1 .. Len(s) : (s \o <<m>>)[i] = s[i]
         /\ (s \o <<m>>)[Len(s) + 1] = m
  <1>1. Append(s, m) = s \o <<m>>
    BY AppendIsConcat
  <1>2. /\ Append(s, m) \in Seq(S) /\ Len(Append(s, m)) = Len(s) + 1
        /\ \A i \in 1 .. Len(s) : Append(s, m)[i] = s[i]
        /\ Append(s, m)[Len(s) + 1] = m
    BY AppendProperties
  <1> QED BY <1>1, <1>2

\* ... and a message less.
LEMMA OneLess ==
  ASSUME NEW S, NEW s \in Seq(S), s # <<>>
  PROVE  /\ Head(s) \in S /\ Head(s) = s[1] /\ Tail(s) \in Seq(S)
         /\ Len(s) \in Nat \ {0} /\ Len(Tail(s)) = Len(s) - 1
         /\ DOMAIN s = 1 .. Len(s) /\ DOMAIN Tail(s) = 1 .. Len(s) - 1
         /\ \A i \in 1 .. Len(s) - 1 : Tail(s)[i] = s[i + 1]
  <1>1. /\ Head(s) \in S /\ Tail(s) \in Seq(S) /\ Len(Tail(s)) = Len(s) - 1
        /\ \A i \in 1 .. Len(Tail(s)) : Tail(s)[i] = s[i + 1]
    BY HeadTailProperties
  <1>2. Len(s) \in Nat \ {0} /\ Head(s) = s[1]
    BY EmptySeq
  <1> QED BY <1>1, <1>2

(* The messages on their way to the viewer.                                *)

\* A message that goes on with the stream goes behind it.
LEMMA StreamGrows ==
  ASSUME UltraTypes, NEW at \in [1 .. Len(toViewer) + 1 -> Nat], Stream(at), NEW m \in ViewerMsgs,
         toViewer' = toViewer \o <<m>>, viewer' = viewer,
         m.type = "FilePacket" => /\ m.arg = <<viewer.file, at[Len(toViewer) + 1] + 1>>
                                  /\ at[Len(toViewer) + 1] < Blocks[viewer.file],
         m.type = "EndOfFile" => at[Len(toViewer) + 1] = Blocks[viewer.file],
         m.type \in Progress => \A i \in 1 .. Len(toViewer) : toViewer[i].type \notin Finals
  PROVE  \E more \in [1 .. Len(toViewer') + 1 -> Nat] :
            /\ Stream(more)'
            /\ more[Len(toViewer') + 1] = IF m.type = "FilePacket" THEN at[Len(toViewer) + 1] + 1
                                          ELSE at[Len(toViewer) + 1]
  <1> DEFINE n == Len(toViewer)
             last == IF m.type = "FilePacket" THEN at[n + 1] + 1 ELSE at[n + 1]
  <1>1. /\ Len(toViewer') = n + 1 /\ n \in Nat
        /\ \A i \in 1 .. n : toViewer'[i] = toViewer[i]
        /\ toViewer'[n + 1] = m
    BY OneMore DEF UltraTypes
  <1>2. last \in Nat /\ at[n + 1] \in Nat
    BY <1>1
  <1> HIDE DEF n, last
  <1>3. PICK more \in [1 .. n + 2 -> Nat] : more[n + 2] = last /\ \A i \in 1 .. n + 1 : more[i] = at[i]
    <2> DEFINE f == [i \in 1 .. n + 2 |-> IF i = n + 2 THEN last ELSE at[i]]
    <2>1. f \in [1 .. n + 2 -> Nat] /\ f[n + 2] = last /\ \A i \in 1 .. n + 1 : f[i] = at[i]
      BY <1>1, <1>2 DEF n
    <2> QED BY <2>1
  <1>4. more[1] = Len(viewer'.got)
    BY <1>1, <1>3 DEF Stream
  <1>5. ASSUME NEW i \in 1 .. n + 1
        PROVE  IF toViewer'[i].type = "FilePacket"
               THEN /\ toViewer'[i].arg = <<viewer'.file, more[i] + 1>>
                    /\ more[i] < Blocks[viewer'.file] /\ more[i + 1] = more[i] + 1
               ELSE more[i + 1] = more[i]
    <2>1. CASE i \in 1 .. n
      <3>1. more[i] = at[i] /\ more[i + 1] = at[i + 1] /\ toViewer'[i] = toViewer[i]
        BY <1>1, <1>3, <2>1
      <3>2. IF toViewer[i].type = "FilePacket"
            THEN /\ toViewer[i].arg = <<viewer.file, at[i] + 1>>
                 /\ at[i] < Blocks[viewer.file] /\ at[i + 1] = at[i] + 1
            ELSE at[i + 1] = at[i]
        BY <2>1 DEF Stream, n
      <3> QED BY <3>1, <3>2
    <2>2. CASE i = n + 1
      <3>1. more[i] = at[n + 1] /\ more[i + 1] = last /\ toViewer'[i] = m
        BY <1>1, <1>3, <2>2
      <3>2. CASE m.type = "FilePacket"
        <4>1. m.arg = <<viewer.file, at[n + 1] + 1>> /\ at[n + 1] < Blocks[viewer.file]
              /\ last = at[n + 1] + 1
          BY <3>2 DEF n, last
        <4> QED BY <3>1, <3>2, <4>1
      <3>3. CASE m.type # "FilePacket"
        <4>1. last = at[n + 1]
          BY <3>3 DEF last
        <4> QED BY <3>1, <3>3, <4>1
      <3> QED BY <3>2, <3>3
    <2>3. i \in 1 .. n \/ i = n + 1
      BY <1>1
    <2> QED BY <2>1, <2>2, <2>3
  <1>6. ASSUME NEW i \in 1 .. n + 1, toViewer'[i].type \in Finals
        PROVE  /\ toViewer'[i].type = "EndOfFile" => more[i] = Blocks[viewer'.file]
               /\ \A j \in 1 .. n + 1 : j > i => toViewer'[j].type \notin Progress
    <2>1. CASE i \in 1 .. n
      <3>1. more[i] = at[i] /\ toViewer'[i] = toViewer[i] /\ toViewer[i].type \in Finals
        BY <1>1, <1>3, <1>6, <2>1
      <3>2. /\ toViewer[i].type = "EndOfFile" => at[i] = Blocks[viewer.file]
            /\ \A j \in 1 .. n : j > i => toViewer[j].type \notin Progress
        BY <2>1, <3>1 DEF Stream, n
      <3>3. m.type \notin Progress
        BY <2>1, <3>1 DEF n
      <3> QED BY <1>1, <3>1, <3>2, <3>3
    <2>2. CASE i = n + 1
      <3>1. more[i] = at[n + 1] /\ toViewer'[i] = m
        BY <1>1, <1>3, <2>2
      <3> QED BY <1>1, <2>2, <3>1 DEF n
    <2> QED BY SMTT(30), <1>1, <2>1, <2>2
  <1>7. Stream(more)'
    BY <1>1, <1>4, <1>5, <1>6 DEF Stream
  <1>8. Len(toViewer') + 1 = n + 2
    BY <1>1
  <1>9. more[Len(toViewer') + 1] = IF m.type = "FilePacket" THEN at[Len(toViewer) + 1] + 1
                                   ELSE at[Len(toViewer) + 1]
    BY <1>3, <1>8 DEF n, last
  <1> QED BY <1>3, <1>7, <1>8, <1>9

\* What is true of a transfer, whatever its messages.
Steady ==
    /\ viewer.step \in {"header", "receiving"} <=> viewer.result = "copying"
    /\ viewer.step = "header" => viewer.got = <<>>
Descriptor ==
    /\ fileTransfer.fd = "upload" => fileTransfer.receiving /\ ~fileTransfer.sending
    /\ fileTransfer.fd \in SharedFiles => fileTransfer.pos <= Blocks[fileTransfer.fd]
Stage ==
    /\ viewer.step \in {"header", "accept"} => Waiting \/ Answered \/ Lost
    /\ viewer.step \in {"idle", "uploading"} =>
         /\ NoHeader
         /\ connected => \A i \in DOMAIN toServer : toServer[i].type \notin Begins
    /\ viewer.step = "receiving" =>
         NoHeader /\ \E at \in [1 .. Len(toViewer) + 1 -> Nat] : Receiving(at)
    /\ viewer.step = "idle" /\ connected => ClosedBefore(Len(toServer) + 1)
    /\ viewer.step = "uploading" /\ connected =>
         \A i \in DOMAIN toServer : toServer[i].type = "FilePacket"
    /\ connected => \A i \in DOMAIN toServer :
         toServer[i].type = "FileHeader" => fileTransfer.fd # "upload"
TransferInv == Stage /\ Steady /\ Descriptor

\* Once the connection is gone, only what is on its way to the viewer counts.
LEMMA StageBroken ==
  ASSUME UltraTypes, Stage, ~connected', UNCHANGED <<toViewer, viewer>>
  PROVE  Stage'
  <1>1. UNCHANGED <<NoHeader, viewer>> /\ \A at : Stream(at) => Stream(at)'
    BY DEF NoHeader, Stream
  <1>2. Answered => Answered'
    BY DEF Answered, Answer
  <1>3. Waiting => Lost'
    BY <1>1 DEF Waiting, Lost
  <1>4. Lost => Lost'
    BY <1>1 DEF Lost
  <1>5. \A at : Receiving(at) => Receiving(at)'
    BY <1>1 DEF Receiving
  <1> QED BY <1>1, <1>2, <1>3, <1>4, <1>5 DEF Stage

\* A message that no transfer waits for.
LEMMA StageHarmless ==
  ASSUME UltraTypes, Stage, NEW m \in ViewerMsgs, m.type \notin Headers \cup Progress,
         toViewer' = toViewer \o <<m>>, UNCHANGED <<connected, fileTransfer, toServer, viewer>>
  PROVE  Stage'
  <1>1. /\ Len(toViewer') = Len(toViewer) + 1 /\ Len(toViewer) \in Nat
        /\ DOMAIN toViewer = 1 .. Len(toViewer) /\ DOMAIN toViewer' = 1 .. Len(toViewer) + 1
        /\ \A i \in 1 .. Len(toViewer) : toViewer'[i] = toViewer[i]
        /\ toViewer'[Len(toViewer) + 1] = m
    BY OneMore DEF UltraTypes
  <1>2. NoHeader => NoHeader'
    BY <1>1 DEF NoHeader
  <1>3. Waiting => Waiting'
    BY <1>2 DEF Waiting, Asked, ClosedBefore
  <1>4. ASSUME NEW h \in DOMAIN toViewer, Answer(h) PROVE Answered'
    <2>1. h \in DOMAIN toViewer' /\ toViewer'[h] = toViewer[h]
      BY <1>1
    <2>2. \A i \in DOMAIN toViewer' \ {h} : toViewer'[i].type \notin Headers
      BY <1>1, <1>4 DEF Answer
    <2>3. viewer.step = "header" => \A i \in DOMAIN toViewer' : i > h => toViewer'[i].type \notin Progress
      BY <1>1, <1>4 DEF Answer
    <2>4. Answer(h)'
      BY <1>4, <2>1, <2>2, <2>3 DEF Answer
    <2> QED BY <2>1, <2>4 DEF Answered
  <1>5. Lost => Lost'
    BY <1>2 DEF Lost
  <1>6. ASSUME NEW at \in [1 .. Len(toViewer) + 1 -> Nat], Receiving(at)
        PROVE  \E more \in [1 .. Len(toViewer') + 1 -> Nat] : Receiving(more)'
    <2>1. m.type # "FilePacket" /\ m.type # "EndOfFile" /\ m.type \notin Progress
      BY DEF Progress, Finals
    <2>2. PICK more \in [1 .. Len(toViewer') + 1 -> Nat] :
             Stream(more)' /\ more[Len(toViewer') + 1] = at[Len(toViewer) + 1]
      BY <1>6, <2>1, StreamGrows DEF Receiving
    <2>3. Sending(at) => Sending(more)'
      BY <1>1, <2>1, <2>2 DEF Sending, Progress
    <2> QED BY <1>6, <2>2, <2>3 DEF Receiving
  <1> QED BY <1>2, <1>3, <1>4, <1>5, <1>6 DEF Stage, Answered, ClosedBefore

\* A block, or the end of the file: the server has an open file that it sends.
LEMMA StageProgress ==
  ASSUME UltraTypes, Stage, connected, NEW m \in ViewerMsgs, m.type \in Progress,
         toViewer' = toViewer \o <<m>>, UNCHANGED <<connected, viewer>>,
         toServer' = toServer,
         fileTransfer.fd # Closed, fileTransfer.sending,
         \/ /\ fileTransfer.fd \in SharedFiles
            /\ fileTransfer.pos < Blocks[fileTransfer.fd]
            /\ fileTransfer' = [fileTransfer EXCEPT !.pos = @ + 1]
            /\ m = Msg("FilePacket", <<fileTransfer.fd, fileTransfer.pos + 1>>)
         \/ /\ fileTransfer' = NoTransfer /\ m.type \in Finals
            /\ m.type = "EndOfFile" => fileTransfer.pos = Blocks[fileTransfer.fd]
  PROVE  Stage'
  <1>1. /\ Len(toViewer') = Len(toViewer) + 1 /\ Len(toViewer) \in Nat
        /\ DOMAIN toViewer = 1 .. Len(toViewer) /\ DOMAIN toViewer' = 1 .. Len(toViewer) + 1
        /\ \A i \in 1 .. Len(toViewer) : toViewer'[i] = toViewer[i]
        /\ toViewer'[Len(toViewer) + 1] = m
    BY OneMore DEF UltraTypes
  <1>2. /\ fileTransfer'.fd \in {fileTransfer.fd, Closed}
        /\ fileTransfer'.sending \in BOOLEAN
    <2>1. CASE fileTransfer' = [fileTransfer EXCEPT !.pos = @ + 1]
      BY <2>1 DEF UltraTypes, Transfers
    <2>2. CASE fileTransfer' = NoTransfer
      BY <2>2 DEF NoTransfer
    <2> QED BY <2>1, <2>2
  <1>3. m.type \notin Headers
    BY DEF Headers, Progress, Finals
  <1>4. NoHeader => NoHeader'
    BY <1>1, <1>3 DEF NoHeader
  <1>5. \A n : ClosedBefore(n) => ClosedBefore(n)'
    BY <1>2 DEF ClosedBefore
  <1>6. Waiting => Waiting'
    BY <1>4, <1>5 DEF Waiting, Asked
  <1>7. ASSUME NEW h \in DOMAIN toViewer, Answer(h), viewer.step \in {"header", "accept"} PROVE Answered'
    <2>1. h \in DOMAIN toViewer' /\ toViewer'[h] = toViewer[h]
      BY <1>1
    <2>2. \A i \in DOMAIN toViewer' \ {h} : toViewer'[i].type \notin Headers
      BY <1>1, <1>3, <1>7 DEF Answer
    <2>3. viewer.step # "header"
      BY <1>7 DEF Answer
    <2>4. toViewer[h].arg # "ok" => FALSE
      BY <1>7 DEF Answer
    <2>5. Answer(h)'
      BY <1>7, <2>1, <2>2, <2>3, <2>4 DEF Answer
    <2> QED BY <2>1, <2>5 DEF Answered
  <1>8. ASSUME NEW at \in [1 .. Len(toViewer) + 1 -> Nat], Receiving(at)
        PROVE  \E more \in [1 .. Len(toViewer') + 1 -> Nat] : Receiving(more)'
    <2>1. Sending(at) /\ toServer = <<>>
      BY <1>8 DEF Receiving, Sending
    <2>2. /\ fileTransfer.fd = viewer.file /\ fileTransfer.pos = at[Len(toViewer) + 1]
          /\ \A i \in 1 .. Len(toViewer) : toViewer[i].type \notin Finals
      BY <2>1 DEF Sending
    <2>3. /\ m.type = "FilePacket" => /\ m.arg = <<viewer.file, at[Len(toViewer) + 1] + 1>>
                                      /\ at[Len(toViewer) + 1] < Blocks[viewer.file]
          /\ m.type = "EndOfFile" => at[Len(toViewer) + 1] = Blocks[viewer.file]
      BY <2>2 DEF Msg, Finals
    <2>4. PICK more \in [1 .. Len(toViewer') + 1 -> Nat] :
             /\ Stream(more)'
             /\ more[Len(toViewer') + 1] = IF m.type = "FilePacket" THEN at[Len(toViewer) + 1] + 1
                                           ELSE at[Len(toViewer) + 1]
      BY <1>8, <2>2, <2>3, StreamGrows DEF Receiving
    <2>5. CASE fileTransfer' = NoTransfer
      BY <2>1, <2>4, <2>5 DEF Receiving, NoTransfer
    <2>6. CASE /\ fileTransfer' = [fileTransfer EXCEPT !.pos = @ + 1]
               /\ m = Msg("FilePacket", <<fileTransfer.fd, fileTransfer.pos + 1>>)
      <3>1. /\ fileTransfer'.fd = viewer'.file /\ fileTransfer'.pos = at[Len(toViewer) + 1] + 1
            /\ m.type = "FilePacket" /\ m.type \notin Finals
        BY <2>2, <2>6 DEF Msg, Finals, UltraTypes, Transfers
      <3>2. Sending(more)'
        BY <1>1, <2>1, <2>2, <2>4, <3>1 DEF Sending
      <3> QED BY <2>4, <3>2 DEF Receiving
    <2> QED BY <2>5, <2>6
  <1>9. connected' => \A i \in DOMAIN toServer' :
           toServer'[i].type = "FileHeader" => fileTransfer'.fd # "upload"
    BY <1>2, UltraAssumption DEF Stage
  <1>10. ~Lost
    BY DEF Lost
  <1> QED BY <1>4, <1>5, <1>6, <1>7, <1>8, <1>9, <1>10 DEF Stage, Answered

(* The viewer's steps.  They leave the server's descriptor alone.          *)

\* What the viewer says.
LEMMA SayShape ==
  ASSUME UltraTypes, NEW m \in ServerMsgs, toServer' = Append(toServer, m)
  PROVE  /\ toServer' \in Seq(ServerMsgs) /\ toServer' # <<>>
         /\ Len(toServer') = Len(toServer) + 1 /\ Len(toServer) \in Nat
         /\ DOMAIN toServer = 1 .. Len(toServer) /\ DOMAIN toServer' = 1 .. Len(toServer) + 1
         /\ \A i \in 1 .. Len(toServer) : toServer'[i] = toServer[i]
         /\ toServer'[Len(toServer) + 1] = m
  BY AppendProperties DEF UltraTypes

\* The file stays closed until the next request, and is closed after a message
\* that says so.
LEMMA StaysClosed ==
  ASSUME UltraTypes, NEW m \in ServerMsgs, toServer' = Append(toServer, m), fileTransfer' = fileTransfer,
         ClosedBefore(Len(toServer) + 1)
  PROVE  /\ ClosedBefore(Len(toServer))'
         /\ m.type \notin Begins => ClosedBefore(Len(toServer) + 1)'
  <1>1. /\ Len(toServer') = Len(toServer) + 1 /\ Len(toServer) \in Nat
        /\ \A i \in 1 .. Len(toServer) : toServer'[i] = toServer[i]
        /\ toServer'[Len(toServer) + 1] = m
    BY SayShape
  <1>2. /\ \A i \in 1 .. Len(toServer) : toServer'[i].type \notin Begins
        /\ fileTransfer'.fd = Closed \/ \E i \in 1 .. Len(toServer) : Closes(toServer'[i])
    BY <1>1 DEF ClosedBefore
  <1>3. Len(toServer') - 1 = Len(toServer) /\ Len(toServer') + 1 - 1 = Len(toServer) + 1
    BY <1>1
  <1>4. ClosedBefore(Len(toServer))'
    BY <1>2, <1>3 DEF ClosedBefore, Closes
  <1>5. ASSUME m.type \notin Begins PROVE ClosedBefore(Len(toServer) + 1)'
    <2>1. \A i \in 1 .. Len(toServer) + 1 : toServer'[i].type \notin Begins
      BY <1>1, <1>2, <1>5
    <2>2. fileTransfer'.fd = Closed \/ \E i \in 1 .. Len(toServer) + 1 : Closes(toServer'[i])
      BY <1>1, <1>2
    <2> QED BY <1>3, <2>1, <2>2 DEF ClosedBefore, Closes
  <1> QED BY <1>4, <1>5

\* What closes the file closes it before whatever comes next.
LEMMA SaysClosed ==
  ASSUME UltraTypes, NEW m \in ServerMsgs, toServer' = Append(toServer, m), fileTransfer' = fileTransfer,
         \A i \in DOMAIN toServer : toServer[i].type \notin Begins, m.type \notin Begins, Closes(m)
  PROVE  /\ ClosedBefore(Len(toServer) + 1)'
         /\ \A i \in DOMAIN toServer' : toServer'[i].type \notin Begins
  <1>1. /\ Len(toServer') = Len(toServer) + 1 /\ Len(toServer) \in Nat
        /\ DOMAIN toServer = 1 .. Len(toServer) /\ DOMAIN toServer' = 1 .. Len(toServer) + 1
        /\ \A i \in 1 .. Len(toServer) : toServer'[i] = toServer[i]
        /\ toServer'[Len(toServer) + 1] = m
    BY SayShape
  <1>2. \A i \in 1 .. Len(toServer) + 1 : toServer'[i].type \notin Begins
    BY <1>1
  <1>3. Closes(toServer'[Len(toServer) + 1]) /\ Len(toServer) + 1 \in 1 .. Len(toServer) + 1
    BY <1>1
  <1>4. Len(toServer') + 1 - 1 = Len(toServer) + 1
    BY <1>1
  <1> QED BY <1>1, <1>2, <1>3, <1>4 DEF ClosedBefore, Closes

\* A transfer begins when the one before it is over, and its file closed.
LEMMA BeginStage ==
  ASSUME UltraTypes, TransferInv, BeginTransfer,
         \/ \E file \in SharedFiles : Download(file)
         \/ Offer
  PROVE  TransferInv'
  <1>1. /\ connected /\ viewer.step = "idle"
        /\ UNCHANGED <<connected, permitted, fileTransfer, writing, overwritten, toViewer>>
    BY DEF BeginTransfer, ServerUnchanged
  <1>2. /\ NoHeader /\ ClosedBefore(Len(toServer) + 1) /\ Descriptor
        /\ viewer.result # "copying"
        /\ \A i \in DOMAIN toServer : toServer[i].type = "FileHeader" => fileTransfer.fd # "upload"
    BY <1>1 DEF TransferInv, Stage, Steady
  <1>3. \E m \in ServerMsgs :
           /\ toServer' = Append(toServer, m) /\ m.type # "FileHeader" /\ Asked' = m
           /\ viewer'.step \in {"header", "accept"}
           /\ Steady'
    <2>1. ASSUME NEW file \in SharedFiles, Download(file)
          PROVE  LET m == Msg("FileTransferRequest", file) IN
                 /\ m \in ServerMsgs /\ m.type = "FileTransferRequest"
                 /\ toServer' = Append(toServer, m) /\ Asked' = m
                 /\ viewer'.step = "header" /\ Steady'
      <3>1. viewer'.step = "header" /\ viewer'.file = file /\ viewer'.result = "copying"
            /\ viewer'.got = <<>>
        BY <2>1 DEF Download
      <3> QED BY <2>1, <3>1 DEF Download, Say, Msg, ServerMsgs, Asked, Steady
    <2>2. ASSUME Offer
          PROVE  LET m == Msg("FileTransferOffer", "upload") IN
                 /\ m \in ServerMsgs /\ m.type = "FileTransferOffer"
                 /\ toServer' = Append(toServer, m) /\ Asked' = m
                 /\ viewer'.step = "accept" /\ Steady'
      <3>1. viewer'.step = "accept" /\ viewer'.result = viewer.result
        BY <2>2 DEF Offer, UltraTypes
      <3> QED BY <1>2, <2>2, <3>1 DEF Offer, Say, Msg, ServerMsgs, Asked, Steady
    <2> QED BY <2>1, <2>2
  <1>4. PICK m \in ServerMsgs :
           /\ toServer' = Append(toServer, m) /\ m.type # "FileHeader" /\ Asked' = m
           /\ viewer'.step \in {"header", "accept"}
           /\ Steady'
    BY <1>3
  <1>5. /\ toServer' # <<>> /\ Len(toServer') = Len(toServer) + 1 /\ Len(toServer) \in Nat
        /\ DOMAIN toServer = 1 .. Len(toServer) /\ DOMAIN toServer' = 1 .. Len(toServer) + 1
        /\ \A i \in 1 .. Len(toServer) : toServer'[i] = toServer[i]
        /\ toServer'[Len(toServer) + 1] = m
    BY <1>4, SayShape
  <1>6. Waiting'
    <2>1. ClosedBefore(Len(toServer))' /\ NoHeader'
      BY <1>1, <1>2, <1>4, StaysClosed DEF NoHeader
    <2> QED BY <1>1, <1>4, <1>5, <2>1 DEF Waiting
  <1>7. \A i \in DOMAIN toServer' : toServer'[i].type = "FileHeader" => fileTransfer'.fd # "upload"
    BY <1>1, <1>2, <1>4, <1>5
  <1>8. Stage'
    BY <1>4, <1>6, <1>7 DEF Stage
  <1> QED BY <1>1, <1>2, <1>4, <1>8 DEF TransferInv, Descriptor

\* The viewer asks for the permission.
LEMMA AskStage ==
  ASSUME UltraTypes, TransferInv, AskPermission
  PROVE  TransferInv'
  <1> DEFINE m == Msg("AbortFileTransfer", "ask")
  <1>1. /\ connected /\ viewer.step = "idle" /\ viewer' = viewer
        /\ UNCHANGED <<connected, permitted, fileTransfer, writing, overwritten, toViewer>>
        /\ toServer' = Append(toServer, m)
    BY DEF AskPermission, BeginTransfer, ServerUnchanged, Say
  <1>2. m \in ServerMsgs /\ m.type = "AbortFileTransfer" /\ Closes(m) /\ m.type \notin Begins
    BY DEF Msg, ServerMsgs, Closes, Finals, Begins
  <1> HIDE DEF m
  <1>3. /\ NoHeader /\ \A i \in DOMAIN toServer : toServer[i].type \notin Begins
        /\ \A i \in DOMAIN toServer : toServer[i].type = "FileHeader" => fileTransfer.fd # "upload"
    BY <1>1 DEF TransferInv, Stage
  <1>4. /\ DOMAIN toServer = 1 .. Len(toServer) /\ DOMAIN toServer' = 1 .. Len(toServer) + 1
        /\ \A i \in 1 .. Len(toServer) : toServer'[i] = toServer[i]
        /\ toServer'[Len(toServer) + 1] = m /\ Len(toServer) \in Nat
    BY <1>1, <1>2, SayShape
  <1>5. /\ ClosedBefore(Len(toServer) + 1)' /\ NoHeader'
        /\ \A i \in DOMAIN toServer' : toServer'[i].type \notin Begins
    BY <1>1, <1>2, <1>3, SaysClosed DEF NoHeader
  <1>6. \A i \in DOMAIN toServer' : toServer'[i].type = "FileHeader" => fileTransfer'.fd # "upload"
    BY <1>1, <1>2, <1>3, <1>4
  <1>7. Stage'
    BY <1>1, <1>5, <1>6 DEF Stage
  <1> QED BY <1>1, <1>7 DEF TransferInv, Steady, Descriptor

\* The viewer sends a block of its file, or its end.
LEMMA UploadBlockStage ==
  ASSUME UltraTypes, TransferInv, UploadBlock
  PROVE  TransferInv'
  <1>1. /\ viewer.step = "uploading"
        /\ UNCHANGED <<connected, permitted, fileTransfer, writing, overwritten, toViewer>>
    BY DEF UploadBlock, ServerUnchanged
  <1>2. /\ NoHeader /\ viewer.result # "copying"
        /\ connected => \A i \in DOMAIN toServer : toServer[i].type = "FilePacket"
    BY <1>1 DEF TransferInv, Stage, Steady
  <1>3. CASE /\ viewer' = [viewer EXCEPT !.sent = @ + 1] /\ viewer.sent < OfferBlocks
             /\ toServer' = Append(toServer, Msg("FilePacket", viewer.sent + 1))
    <2> DEFINE m == Msg("FilePacket", viewer.sent + 1)
    <2>1. m \in ServerMsgs /\ m.type = "FilePacket"
      BY <1>3 DEF Msg, ServerMsgs, UltraTypes
    <2>2. viewer'.step = "uploading" /\ viewer'.result = viewer.result
      BY <1>1, <1>3 DEF UltraTypes
    <2> HIDE DEF m
    <2>3. /\ DOMAIN toServer = 1 .. Len(toServer) /\ DOMAIN toServer' = 1 .. Len(toServer) + 1
          /\ \A i \in 1 .. Len(toServer) : toServer'[i] = toServer[i]
          /\ toServer'[Len(toServer) + 1] = m /\ Len(toServer) \in Nat
      BY <1>3, <2>1, SayShape DEF m
    <2>4. connected => \A i \in DOMAIN toServer' : toServer'[i].type = "FilePacket"
      BY <1>2, <2>1, <2>3
    <2>5. Stage'
      BY <1>1, <1>2, <2>2, <2>4 DEF Stage, NoHeader, Begins
    <2> QED BY <1>1, <1>2, <2>2, <2>5 DEF TransferInv, Steady, Descriptor
  <1>4. CASE /\ viewer' = [viewer EXCEPT !.step = "idle"]
             /\ toServer' = Append(toServer, Msg("EndOfFile", "ok"))
    <2> DEFINE m == Msg("EndOfFile", "ok")
    <2>1. m \in ServerMsgs /\ m.type = "EndOfFile" /\ Closes(m) /\ m.type \notin Begins
      BY DEF Msg, ServerMsgs, Closes, Finals, Begins
    <2>2. viewer'.step = "idle" /\ viewer'.result = viewer.result
      BY <1>1, <1>4 DEF UltraTypes
    <2> HIDE DEF m
    <2>3. /\ DOMAIN toServer = 1 .. Len(toServer) /\ DOMAIN toServer' = 1 .. Len(toServer) + 1
          /\ \A i \in 1 .. Len(toServer) : toServer'[i] = toServer[i]
          /\ toServer'[Len(toServer) + 1] = m /\ Len(toServer) \in Nat
      BY <1>4, <2>1, SayShape DEF m
    <2>4. connected => /\ ClosedBefore(Len(toServer) + 1)'
                       /\ \A i \in DOMAIN toServer' : toServer'[i].type \notin Begins
      BY <1>1, <1>2, <1>4, <2>1, SaysClosed DEF m, Begins
    <2>5. connected => \A i \in DOMAIN toServer' : toServer'[i].type # "FileHeader"
      BY <1>2, <2>1, <2>3
    <2>6. Stage'
      BY <1>1, <1>2, <2>2, <2>4, <2>5 DEF Stage, NoHeader
    <2> QED BY <1>1, <1>2, <2>2, <2>6 DEF TransferInv, Steady, Descriptor
  <1> QED BY <1>3, <1>4 DEF UploadBlock, Say

\* The user gives up.
LEMMA AbortStage ==
  ASSUME UltraTypes, TransferInv, Abort
  PROVE  TransferInv'
  <1> DEFINE m == Msg("AbortFileTransfer", "ok")
  <1>1. /\ viewer.step \in {"receiving", "uploading"}
        /\ UNCHANGED <<connected, permitted, fileTransfer, writing, overwritten, toViewer>>
        /\ toServer' = Append(toServer, m)
    BY DEF Abort, ServerUnchanged, Say
  <1>2. viewer'.step = "idle" /\ viewer'.result # "copying"
    BY <1>1 DEF Abort, TransferInv, Steady, UltraTypes
  <1>3. m \in ServerMsgs /\ m.type = "AbortFileTransfer" /\ Closes(m) /\ m.type \notin Begins
    BY DEF Msg, ServerMsgs, Closes, Finals, Begins
  <1> HIDE DEF m
  <1>4. /\ NoHeader
        /\ connected => \A i \in DOMAIN toServer :
             /\ toServer[i].type \notin Begins
             /\ toServer[i].type = "FileHeader" => fileTransfer.fd # "upload"
    <2>1. CASE viewer.step = "uploading"
      BY <2>1 DEF TransferInv, Stage
    <2>2. CASE viewer.step = "receiving"
      <3>1. PICK at \in [1 .. Len(toViewer) + 1 -> Nat] : Receiving(at)
        BY <2>2 DEF TransferInv, Stage
      <3>2. connected => toServer = <<>> \/ toServer = <<Msg("FileHeader", "ok")>>
        BY <3>1 DEF Receiving, Sending
      <3>3. connected => \A i \in DOMAIN toServer : toServer[i].type \notin Begins
        BY <3>2 DEF Msg, Begins
      <3> QED BY <2>2, <3>3 DEF TransferInv, Stage
    <2> QED BY <1>1, <2>1, <2>2
  <1>5. /\ DOMAIN toServer = 1 .. Len(toServer) /\ DOMAIN toServer' = 1 .. Len(toServer) + 1
        /\ \A i \in 1 .. Len(toServer) : toServer'[i] = toServer[i]
        /\ toServer'[Len(toServer) + 1] = m /\ Len(toServer) \in Nat
    BY <1>1, <1>3, SayShape
  <1>6. connected => /\ ClosedBefore(Len(toServer) + 1)'
                     /\ \A i \in DOMAIN toServer' : toServer'[i].type \notin Begins
    BY <1>1, <1>3, <1>4, SaysClosed
  <1>7. connected => \A i \in DOMAIN toServer' : toServer'[i].type = "FileHeader" => fileTransfer'.fd # "upload"
    BY <1>1, <1>3, <1>4, <1>5
  <1>8. Stage'
    BY <1>1, <1>2, <1>4, <1>6, <1>7 DEF Stage, NoHeader
  <1> QED BY <1>1, <1>2, <1>8 DEF TransferInv, Steady, Descriptor

\* The stream without its first message.
LEMMA StreamShrinks ==
  ASSUME UltraTypes, NEW at \in [1 .. Len(toViewer) + 1 -> Nat], Stream(at),
         toViewer # <<>>, toViewer' = Tail(toViewer), viewer'.file = viewer.file,
         Len(viewer'.got) = at[2]
  PROVE  \E rest \in [1 .. Len(toViewer') + 1 -> Nat] :
            Stream(rest)' /\ rest[Len(toViewer') + 1] = at[Len(toViewer) + 1]
  <1> DEFINE n == Len(toViewer)
  <1>1. /\ n \in Nat \ {0} /\ Len(toViewer') = n - 1
        /\ \A i \in 1 .. n - 1 : toViewer'[i] = toViewer[i + 1]
    BY OneLess DEF UltraTypes
  <1> HIDE DEF n
  <1>2. PICK rest \in [1 .. n -> Nat] : \A i \in 1 .. n : rest[i] = at[i + 1]
    <2> DEFINE f == [i \in 1 .. n |-> at[i + 1]]
    <2>1. f \in [1 .. n -> Nat]
      BY <1>1 DEF n
    <2> QED BY <2>1
  <1>3. rest[1] = Len(viewer'.got)
    BY <1>1, <1>2
  <1>4. ASSUME NEW i \in 1 .. n - 1
        PROVE  IF toViewer'[i].type = "FilePacket"
               THEN /\ toViewer'[i].arg = <<viewer'.file, rest[i] + 1>>
                    /\ rest[i] < Blocks[viewer'.file] /\ rest[i + 1] = rest[i] + 1
               ELSE rest[i + 1] = rest[i]
    <2>1. i + 1 \in 1 .. n /\ i \in 1 .. n
      BY <1>1
    <2>2. rest[i] = at[i + 1] /\ rest[i + 1] = at[(i + 1) + 1] /\ toViewer'[i] = toViewer[i + 1]
      BY <1>1, <1>2, <2>1
    <2>3. IF toViewer[i + 1].type = "FilePacket"
          THEN /\ toViewer[i + 1].arg = <<viewer.file, at[i + 1] + 1>>
               /\ at[i + 1] < Blocks[viewer.file] /\ at[(i + 1) + 1] = at[i + 1] + 1
          ELSE at[(i + 1) + 1] = at[i + 1]
      BY <2>1 DEF Stream, n
    <2> QED BY <2>2, <2>3
  <1>5. ASSUME NEW i \in 1 .. n - 1, toViewer'[i].type \in Finals
        PROVE  /\ toViewer'[i].type = "EndOfFile" => rest[i] = Blocks[viewer'.file]
               /\ \A j \in 1 .. n - 1 : j > i => toViewer'[j].type \notin Progress
    <2>1. i + 1 \in 1 .. n /\ i \in 1 .. n
      BY <1>1
    <2>2. rest[i] = at[i + 1] /\ toViewer'[i] = toViewer[i + 1]
      BY <1>1, <1>2, <2>1
    <2>3. /\ toViewer[i + 1].type = "EndOfFile" => at[i + 1] = Blocks[viewer.file]
          /\ \A j \in 1 .. n : j > i + 1 => toViewer[j].type \notin Progress
      BY <1>5, <2>1, <2>2 DEF Stream, n
    <2>4. ASSUME NEW j \in 1 .. n - 1, j > i PROVE toViewer'[j].type \notin Progress
      <3>1. j + 1 \in 1 .. n /\ j + 1 > i + 1 /\ toViewer'[j] = toViewer[j + 1]
        BY <1>1, <2>4
      <3> QED BY <2>3, <3>1
    <2> QED BY <2>2, <2>3, <2>4
  <1>6. Stream(rest)'
    BY <1>1, <1>3, <1>4, <1>5 DEF Stream
  <1>7. Len(toViewer') + 1 = n /\ n \in 1 .. n
    BY <1>1
  <1>8. rest[Len(toViewer') + 1] = at[n + 1]
    BY <1>2, <1>7
  <1> QED BY <1>2, <1>6, <1>7, <1>8 DEF n

\* What the viewer does not wait for.
LEMMA PassOver ==
  ASSUME UltraTypes, TransferInv, toViewer # <<>>, toViewer' = Tail(toViewer),
         ~Expected(Head(toViewer)), UNCHANGED <<viewer, toServer, connected, fileTransfer>>
  PROVE  TransferInv'
  <1>1. /\ Head(toViewer) = toViewer[1] /\ Len(toViewer) \in Nat \ {0}
        /\ Len(toViewer') = Len(toViewer) - 1
        /\ DOMAIN toViewer = 1 .. Len(toViewer) /\ DOMAIN toViewer' = 1 .. Len(toViewer) - 1
        /\ \A i \in 1 .. Len(toViewer) - 1 : toViewer'[i] = toViewer[i + 1]
    BY OneLess DEF UltraTypes
  <1>2. NoHeader => NoHeader'
    BY <1>1 DEF NoHeader
  <1>3. Waiting => Waiting'
    BY <1>2 DEF Waiting, Asked, ClosedBefore
  <1>4. ASSUME NEW h \in DOMAIN toViewer, Answer(h), viewer.step \in {"header", "accept"} PROVE Answered'
    <2>1. h # 1
      BY <1>1, <1>4 DEF Answer, Expected
    <2>2. h - 1 \in DOMAIN toViewer' /\ toViewer'[h - 1] = toViewer[h]
      BY <1>1, <2>1
    <2>3. \A i \in DOMAIN toViewer' \ {h - 1} : toViewer'[i].type \notin Headers
      <3> SUFFICES ASSUME NEW i \in DOMAIN toViewer', i # h - 1
                   PROVE  toViewer'[i].type \notin Headers
        OBVIOUS
      <3>1. i + 1 \in DOMAIN toViewer \ {h} /\ toViewer'[i] = toViewer[i + 1]
        BY <1>1
      <3> QED BY <1>4, <3>1 DEF Answer
    <2>4. ASSUME viewer.step = "header", NEW i \in DOMAIN toViewer', i > h - 1
          PROVE  toViewer'[i].type \notin Progress
      <3>1. i + 1 \in DOMAIN toViewer /\ i + 1 > h /\ toViewer'[i] = toViewer[i + 1]
        BY <1>1, <2>4
      <3> QED BY <1>4, <2>4, <3>1 DEF Answer
    <2>5. Answer(h - 1)'
      BY <1>4, <2>2, <2>3, <2>4 DEF Answer
    <2> QED BY <2>2, <2>5 DEF Answered
  <1>5. Lost => Lost'
    BY <1>2 DEF Lost
  <1>6. ASSUME NEW at \in [1 .. Len(toViewer) + 1 -> Nat], Receiving(at), viewer.step = "receiving"
        PROVE  \E rest \in [1 .. Len(toViewer') + 1 -> Nat] : Receiving(rest)'
    <2>1. toViewer[1].type \notin Progress
      BY <1>1, <1>6 DEF Expected, Progress, Finals
    <2>2. at[2] = at[1] /\ at[1] = Len(viewer.got)
      <3>1. 1 \in 1 .. Len(toViewer) /\ toViewer[1].type # "FilePacket"
        BY <1>1, <2>1 DEF Progress
      <3>2. at[1 + 1] = at[1]
        BY <1>6, <3>1 DEF Receiving, Stream
      <3> QED BY <1>6, <3>2 DEF Receiving, Stream
    <2>3. PICK rest \in [1 .. Len(toViewer') + 1 -> Nat] :
             Stream(rest)' /\ rest[Len(toViewer') + 1] = at[Len(toViewer) + 1]
      BY <1>6, <2>2, StreamShrinks DEF Receiving
    <2>4. Sending(at) => Sending(rest)'
      BY <1>1, <2>3 DEF Sending
    <2> QED BY <1>6, <2>3, <2>4 DEF Receiving
  <1>7. Stage'
    BY <1>2, <1>3, <1>4, <1>5, <1>6 DEF Stage, Answered, TransferInv, ClosedBefore
  <1> QED BY <1>7 DEF TransferInv, Steady, Descriptor

\* The answer to the request of a transfer.
LEMMA HeaderCame ==
  ASSUME UltraTypes, TransferInv, toViewer # <<>>, toViewer' = Tail(toViewer),
         Head(toViewer).type \in Headers, Expected(Head(toViewer))
  PROVE  /\ Answer(1) /\ toViewer[1] = Head(toViewer) /\ NoHeader'
         /\ viewer.step = "header" => \A i \in DOMAIN toViewer' : toViewer'[i].type \notin Progress
         /\ connected => toServer = <<>>
  <1>1. /\ Head(toViewer) = toViewer[1] /\ Len(toViewer) \in Nat \ {0}
        /\ DOMAIN toViewer = 1 .. Len(toViewer) /\ DOMAIN toViewer' = 1 .. Len(toViewer) - 1
        /\ \A i \in 1 .. Len(toViewer) - 1 : toViewer'[i] = toViewer[i + 1]
    BY OneLess DEF UltraTypes
  <1>2. viewer.step \in {"header", "accept"}
    BY DEF Expected, Headers
  <1>3. ~NoHeader
    BY <1>1 DEF NoHeader
  <1>4. PICK h \in DOMAIN toViewer : Answer(h)
    BY <1>2, <1>3 DEF TransferInv, Stage, Waiting, Lost, Answered
  <1>5. h = 1
    BY <1>1, <1>4 DEF Answer
  <1>6. ASSUME NEW i \in DOMAIN toViewer'
        PROVE  /\ toViewer'[i].type \notin Headers
               /\ viewer.step = "header" => toViewer'[i].type \notin Progress
    <2>1. toViewer'[i] = toViewer[i + 1] /\ i + 1 \in DOMAIN toViewer \ {1} /\ i + 1 > 1
      BY <1>1
    <2> QED BY <1>4, <1>5, <2>1 DEF Answer
  <1> QED BY <1>1, <1>4, <1>5, <1>6 DEF NoHeader, Answer

\* The viewer is ready for the file.
LEMMA ReadyStage ==
  ASSUME UltraTypes, TransferInv, toViewer # <<>>, toViewer' = Tail(toViewer),
         Head(toViewer).type = "FileHeader", Head(toViewer).arg = "ok", viewer.step = "header",
         toServer' = Append(toServer, Msg("FileHeader", "ok")),
         viewer' = [viewer EXCEPT !.step = "receiving"], UNCHANGED <<connected, fileTransfer>>
  PROVE  TransferInv'
  <1>1. /\ Answer(1) /\ toViewer[1] = Head(toViewer) /\ NoHeader'
        /\ \A i \in DOMAIN toViewer' : toViewer'[i].type \notin Progress
        /\ connected => toServer = <<>>
    BY HeaderCame DEF Headers, Expected
  <1>2. /\ viewer'.step = "receiving" /\ viewer'.file = viewer.file /\ viewer'.got = viewer.got
        /\ viewer'.result = viewer.result
    BY DEF UltraTypes
  <1>3. viewer.got = <<>> /\ viewer.result = "copying" /\ viewer.file \in SharedFiles
    BY DEF TransferInv, Steady, UltraTypes
  <1>4. connected => /\ fileTransfer.fd = viewer.file /\ fileTransfer.pos = 0 /\ ~fileTransfer.sending
                     /\ toServer' = <<Msg("FileHeader", "ok")>>
    BY <1>1 DEF Answer
  <1>5. connected => /\ fileTransfer.fd = viewer.file /\ fileTransfer.pos = 0 /\ ~fileTransfer.sending
    BY <1>4
  <1>6. DOMAIN toViewer' = 1 .. Len(toViewer') /\ Len(toViewer') \in Nat
    BY OneLess DEF UltraTypes
  <1>7. PICK at \in [1 .. Len(toViewer') + 1 -> Nat] : \A i \in 1 .. Len(toViewer') + 1 : at[i] = 0
    <2> DEFINE n == Len(toViewer') + 1
               f == [i \in 1 .. n |-> 0]
    <2>1. f \in [1 .. n -> Nat] /\ \A i \in 1 .. n : f[i] = 0
      OBVIOUS
    <2> QED BY <2>1
  <1>8. Stream(at)'
    <2>1. at[1] = Len(viewer'.got)
      BY SMTT(30), <1>2, <1>3, <1>6, <1>7
    <2>2. \A i \in 1 .. Len(toViewer') : toViewer'[i].type \notin Progress /\ at[i + 1] = at[i]
      BY <1>1, <1>6, <1>7
    <2>3. \A i \in 1 .. Len(toViewer') : toViewer'[i].type # "FilePacket" /\ toViewer'[i].type \notin Finals
      BY <2>2 DEF Progress
    <2> QED BY <2>1, <2>2, <2>3 DEF Stream
  <1>9. connected => Sending(at)'
    <2>1. \A i \in 1 .. Len(toViewer') : toViewer'[i].type \notin Finals
      BY <1>1, <1>6 DEF Progress
    <2>2. at[Len(toViewer') + 1] = 0
      BY <1>6, <1>7
    <2> QED BY <1>2, <1>4, <1>5, <2>1, <2>2 DEF Sending
  <1>10. Receiving(at)'
    BY <1>8, <1>9 DEF Receiving
  <1>11. connected => fileTransfer'.fd # "upload"
    BY <1>3, <1>5, UltraAssumption
  <1>12. Stage'
    BY <1>1, <1>2, <1>10, <1>11 DEF Stage
  <1>13. Steady' /\ Descriptor'
    BY <1>2, <1>3 DEF TransferInv, Steady, Descriptor
  <1> QED BY <1>12, <1>13 DEF TransferInv

\* The viewer does not take the file, or there is none.
LEMMA RefuseStage ==
  ASSUME UltraTypes, TransferInv, toViewer # <<>>, toViewer' = Tail(toViewer),
         Head(toViewer).type = "FileHeader", viewer.step = "header",
         IF Head(toViewer).arg = "ok" THEN toServer' = Append(toServer, Msg("FileHeader", "error"))
         ELSE toServer' = toServer,
         viewer' = [viewer EXCEPT !.step = "idle", !.result = "failed"],
         UNCHANGED <<connected, fileTransfer>>
  PROVE  TransferInv'
  <1>1. /\ Answer(1) /\ toViewer[1] = Head(toViewer) /\ NoHeader'
        /\ connected => toServer = <<>>
    BY HeaderCame DEF Headers, Expected
  <1>2. viewer'.step = "idle" /\ viewer'.result = "failed"
    BY DEF UltraTypes
  <1>3. CASE Head(toViewer).arg = "ok"
    <2> DEFINE m == Msg("FileHeader", "error")
    <2>1. m \in ServerMsgs /\ Closes(m) /\ m.type \notin Begins /\ toServer' = Append(toServer, m)
      BY <1>3 DEF Msg, ServerMsgs, Closes, Begins
    <2> HIDE DEF m
    <2>2. connected => /\ ClosedBefore(Len(toServer) + 1)'
                       /\ \A i \in DOMAIN toServer' : toServer'[i].type \notin Begins
      BY <1>1, <2>1, SaysClosed
    <2>3. connected => fileTransfer'.fd # "upload"
      <3>1. connected => fileTransfer.fd = viewer.file
        BY <1>1, <1>3 DEF Answer
      <3> QED BY <3>1, UltraAssumption DEF UltraTypes
    <2> QED BY <1>1, <1>2, <2>2, <2>3 DEF TransferInv, Stage, Steady, Descriptor
  <1>4. CASE Head(toViewer).arg # "ok"
    <2>1. connected => fileTransfer'.fd = Closed /\ toServer' = <<>>
      BY <1>1, <1>4 DEF Answer
    <2>2. connected => ClosedBefore(Len(toServer) + 1)' /\ DOMAIN toServer' = {}
      BY <2>1 DEF ClosedBefore
    <2> QED BY <1>1, <1>2, <2>2 DEF TransferInv, Stage, Steady, Descriptor
  <1> QED BY <1>3, <1>4

\* The server takes the file, or does not.
LEMMA AcceptStage ==
  ASSUME UltraTypes, TransferInv, toViewer # <<>>, toViewer' = Tail(toViewer),
         Head(toViewer).type = "FileAcceptHeader", viewer.step = "accept", toServer' = toServer,
         viewer' = [viewer EXCEPT !.step = IF Head(toViewer).arg = "ok" THEN "uploading" ELSE "idle"],
         UNCHANGED <<connected, fileTransfer>>
  PROVE  TransferInv'
  <1>1. /\ Answer(1) /\ toViewer[1] = Head(toViewer) /\ NoHeader'
        /\ connected => toServer = <<>>
    BY HeaderCame DEF Headers, Expected
  <1>2. viewer'.step = (IF Head(toViewer).arg = "ok" THEN "uploading" ELSE "idle")
        /\ viewer'.result = viewer.result
    BY DEF UltraTypes
  <1>3. connected => DOMAIN toServer' = {} /\ Len(toServer') = 0
    BY <1>1
  <1>4. connected /\ viewer'.step = "idle" => fileTransfer'.fd = Closed
    BY <1>1, <1>2 DEF Answer
  <1>5. connected /\ viewer'.step = "idle" => ClosedBefore(Len(toServer) + 1)'
    BY <1>3, <1>4 DEF ClosedBefore
  <1>6. viewer.result # "copying" /\ Descriptor
    BY DEF TransferInv, Steady
  <1> QED BY <1>1, <1>2, <1>3, <1>5, <1>6 DEF TransferInv, Stage, Steady, Descriptor

\* A block.
LEMMA BlockStage ==
  ASSUME UltraTypes, TransferInv, toViewer # <<>>, toViewer' = Tail(toViewer),
         Head(toViewer).type = "FilePacket", viewer.step = "receiving", toServer' = toServer,
         viewer' = [viewer EXCEPT !.got = Append(@, Head(toViewer).arg)],
         UNCHANGED <<connected, fileTransfer>>
  PROVE  TransferInv' /\ Head(toViewer).arg = <<viewer.file, Len(viewer.got) + 1>>
         /\ Len(viewer.got) < Blocks[viewer.file]
  <1>1. /\ Head(toViewer) = toViewer[1] /\ Len(toViewer) \in Nat \ {0}
        /\ Len(toViewer') = Len(toViewer) - 1
        /\ DOMAIN toViewer = 1 .. Len(toViewer) /\ DOMAIN toViewer' = 1 .. Len(toViewer) - 1
        /\ \A i \in 1 .. Len(toViewer) - 1 : toViewer'[i] = toViewer[i + 1]
    BY OneLess DEF UltraTypes
  <1>2. PICK at \in [1 .. Len(toViewer) + 1 -> Nat] : Receiving(at)
    BY DEF TransferInv, Stage
  <1>3. /\ toViewer[1].arg = <<viewer.file, at[1] + 1>> /\ at[1] < Blocks[viewer.file]
        /\ at[1 + 1] = at[1] + 1 /\ at[1] = Len(viewer.got)
    <2>1. 1 \in 1 .. Len(toViewer) /\ toViewer[1].type = "FilePacket"
      BY <1>1
    <2> QED BY <1>2, <2>1 DEF Receiving, Stream
  <1>4. /\ viewer'.step = "receiving" /\ viewer'.file = viewer.file /\ viewer'.result = viewer.result
        /\ viewer'.got = Append(viewer.got, Head(toViewer).arg)
    BY DEF UltraTypes
  <1>5. Len(viewer'.got) = at[2]
    <2>1. viewer.got \in Seq(SharedFiles \X Nat)
      BY DEF UltraTypes
    <2>2. Len(viewer'.got) = Len(viewer.got) + 1
      BY <1>4, <2>1
    <2> QED BY <1>3, <2>2
  <1>6. PICK rest \in [1 .. Len(toViewer') + 1 -> Nat] :
           Stream(rest)' /\ rest[Len(toViewer') + 1] = at[Len(toViewer) + 1]
    BY <1>2, <1>4, <1>5, StreamShrinks DEF Receiving
  <1>7. Sending(at) => Sending(rest)'
    BY <1>1, <1>4, <1>6 DEF Sending
  <1>8. Receiving(rest)'
    BY <1>2, <1>6, <1>7 DEF Receiving
  <1>9. NoHeader'
    BY <1>1 DEF TransferInv, Stage, NoHeader
  <1>10. Stage'
    BY <1>4, <1>8, <1>9 DEF TransferInv, Stage
  <1>11. Steady' /\ Descriptor'
    BY <1>4 DEF TransferInv, Steady, Descriptor
  <1> QED BY <1>1, <1>3, <1>10, <1>11 DEF TransferInv

\* The server has ended the transfer.
LEMMA EndStage ==
  ASSUME UltraTypes, TransferInv, toViewer # <<>>, toViewer' = Tail(toViewer),
         Head(toViewer).type \in Finals, viewer.step = "receiving", toServer' = toServer,
         viewer' = [viewer EXCEPT !.step = "idle", !.result =
                        IF Head(toViewer).type = "EndOfFile" THEN "complete" ELSE "failed"],
         UNCHANGED <<connected, fileTransfer>>
  PROVE  TransferInv' /\ (Head(toViewer).type = "EndOfFile" => Len(viewer.got) = Blocks[viewer.file])
  <1>1. /\ Head(toViewer) = toViewer[1] /\ Len(toViewer) \in Nat \ {0}
        /\ DOMAIN toViewer = 1 .. Len(toViewer) /\ DOMAIN toViewer' = 1 .. Len(toViewer) - 1
        /\ \A i \in 1 .. Len(toViewer) - 1 : toViewer'[i] = toViewer[i + 1]
    BY OneLess DEF UltraTypes
  <1>2. PICK at \in [1 .. Len(toViewer) + 1 -> Nat] : Receiving(at)
    BY DEF TransferInv, Stage
  <1>3. 1 \in 1 .. Len(toViewer) /\ toViewer[1].type \in Finals
    BY <1>1
  <1>4. /\ Head(toViewer).type = "EndOfFile" => Len(viewer.got) = Blocks[viewer.file]
        /\ connected => toServer' = <<>> /\ fileTransfer'.fd = Closed
    BY <1>1, <1>2, <1>3 DEF Receiving, Stream, Sending
  <1>5. viewer'.step = "idle" /\ viewer'.result # "copying"
    BY DEF UltraTypes
  <1>6. NoHeader'
    BY <1>1 DEF TransferInv, Stage, NoHeader
  <1>7. connected => DOMAIN toServer' = {} /\ ClosedBefore(Len(toServer) + 1)'
    BY <1>4 DEF ClosedBefore
  <1>8. Stage'
    BY <1>5, <1>6, <1>7 DEF Stage
  <1> QED BY <1>4, <1>5, <1>8 DEF TransferInv, Steady, Descriptor

\* A message comes to the viewer.
LEMMA ViewerReceiveStage ==
  ASSUME UltraTypes, TransferInv, ViewerReceive
  PROVE  TransferInv'
  <1>1. /\ toViewer # <<>> /\ toViewer' = Tail(toViewer)
        /\ UNCHANGED <<connected, fileTransfer>>
    BY DEF ViewerReceive, ServerUnchanged
  <1>2. CASE ~Expected(Head(toViewer))
    BY <1>1, <1>2, PassOver DEF ViewerReceive
  <1>3. CASE Expected(Head(toViewer))
    <2>1. OnMessage(Head(toViewer))
      BY <1>3 DEF ViewerReceive
    <2>2. CASE Head(toViewer).type = "FileHeader"
      <3>1. viewer.step = "header"
        BY <1>3, <2>2 DEF Expected
      <3> QED BY <1>1, <2>1, <2>2, <3>1, ReadyStage, RefuseStage DEF OnMessage, Say
    <2>3. CASE Head(toViewer).type = "FilePacket"
      <3>1. viewer.step = "receiving"
        BY <1>3, <2>3 DEF Expected
      <3> QED BY <1>1, <2>1, <2>3, <3>1, BlockStage DEF OnMessage
    <2>4. CASE Head(toViewer).type \in Finals
      <3>1. viewer.step = "receiving"
        BY <1>3, <2>4 DEF Expected, Finals
      <3> QED BY <1>1, <2>1, <2>4, <3>1, EndStage DEF OnMessage, Finals
    <2>5. CASE Head(toViewer).type = "FileAcceptHeader"
      <3>1. viewer.step = "accept"
        BY <1>3, <2>5 DEF Expected
      <3> QED BY <1>1, <2>1, <2>5, <3>1, AcceptStage DEF OnMessage
    <2> QED BY <1>3, <2>2, <2>3, <2>4, <2>5 DEF Expected, Finals
  <1> QED BY <1>2, <1>3

\* Every step of the viewer keeps the transfer.
LEMMA ViewerStage ==
  ASSUME UltraTypes, TransferInv, Viewer
  PROVE  TransferInv'
  <1>1. (\E file \in SharedFiles : Download(file)) \/ Offer => BeginTransfer
    BY DEF Download, Offer
  <1> QED BY <1>1, BeginStage, AskStage, UploadBlockStage, AbortStage, ViewerReceiveStage DEF Viewer

\* What came of a write.
Written(m) == \/ toViewer' = toViewer \o <<m>> /\ connected' = connected
              \/ toViewer' = toViewer /\ connected' = FALSE

\* rfbSendFileTransferMessage writes its message, or closes the client.
LEMMA ReplyShape ==
  ASSUME NEW m
  PROVE  Reply(<<m>>) => Written(m)
  BY DEF Reply, Written

\* A step of a file that is sent: a block of it, or its end.
Sent(ft, m) ==
    \/ /\ ft.pos < Blocks[ft.fd]
       /\ fileTransfer' = [ft EXCEPT !.pos = @ + 1]
       /\ m = Msg("FilePacket", <<ft.fd, ft.pos + 1>>)
    \/ /\ fileTransfer' = NoTransfer /\ m.type \in Finals
       /\ m.type = "EndOfFile" => ft.pos = Blocks[ft.fd]

\* rfbSendFileTransferChunk: a block of an open file, or its end.
LEMMA SendChunkShape ==
  ASSUME UltraTypes, NEW ft \in Transfers, ft.fd \in SharedFiles, ft.pos <= Blocks[ft.fd],
         SendChunk(ft)
  PROVE  /\ fileTransfer' \in Transfers /\ fileTransfer'.fd \in {ft.fd, Closed} /\ Descriptor'
         /\ \E m \in ViewerMsgs : m.type \in Progress /\ Sent(ft, m) /\ Written(m)
  <1>1. NoTransfer \in Transfers /\ NoTransfer.fd = Closed
    BY DEF NoTransfer, Transfers
  <1>2. CASE /\ ft.pos < Blocks[ft.fd]
             /\ fileTransfer' = [ft EXCEPT !.pos = @ + 1]
             /\ Reply(<<Msg("FilePacket", <<ft.fd, ft.pos + 1>>)>>)
    <2> DEFINE p == ft.pos + 1
    <2>1. p \in Nat /\ p <= Blocks[ft.fd]
      BY <1>2, UltraAssumption DEF Transfers
    <2>2. fileTransfer' = [ft EXCEPT !.pos = p]
      BY <1>2
    <2>3. Msg("FilePacket", <<ft.fd, p>>) \in ViewerMsgs /\ Msg("FilePacket", <<ft.fd, p>>).type \in Progress
      BY <2>1 DEF Msg, ViewerMsgs, Progress
    <2>4. Sent(ft, Msg("FilePacket", <<ft.fd, p>>)) /\ Written(Msg("FilePacket", <<ft.fd, p>>))
      BY <1>2, ReplyShape DEF Sent
    <2> HIDE DEF p
    <2>5. fileTransfer' \in Transfers /\ fileTransfer'.fd = ft.fd /\ fileTransfer'.pos = p
      BY <2>1, <2>2 DEF Transfers
    <2>6. Descriptor'
      BY <2>1, <2>5, UltraAssumption DEF Descriptor
    <2> QED BY <2>3, <2>4, <2>5, <2>6
  <1>3. ASSUME NEW type \in Finals, CloseFile, Reply(<<Msg(type, "ok")>>),
               type = "EndOfFile" => ft.pos = Blocks[ft.fd]
        PROVE  /\ fileTransfer' \in Transfers /\ fileTransfer'.fd \in {ft.fd, Closed} /\ Descriptor'
               /\ \E m \in ViewerMsgs : m.type \in Progress /\ Sent(ft, m) /\ Written(m)
    <2> DEFINE m == Msg(type, "ok")
    <2>1. m \in ViewerMsgs /\ m.type \in Progress /\ m.type = type
      BY <1>3 DEF Msg, ViewerMsgs, Progress
    <2>2. Sent(ft, m) /\ Written(m)
      BY <1>3, <2>1, ReplyShape DEF Sent, CloseFile
    <2>3. fileTransfer' = NoTransfer
      BY <1>3 DEF CloseFile
    <2>4. Descriptor'
      BY <1>1, <2>3, UltraAssumption DEF Descriptor
    <2> QED BY <1>1, <2>1, <2>2, <2>3, <2>4
  <1> QED BY <1>2, <1>3 DEF SendChunk, Finals

\* A message that begins no transfer leaves the descriptor as it was, or closes it.
LEMMA ReceiveShape ==
  ASSUME UltraTypes, TransferInv, Receive, permitted, Head(toServer).type \notin Begins
  PROVE  /\ fileTransfer'.fd \in {fileTransfer.fd, Closed}
         /\ Closes(Head(toServer)) => fileTransfer'.fd = Closed
         /\ fileTransfer' \in Transfers /\ Descriptor'
         /\ UNCHANGED <<writing, overwritten>>
         /\ \/ UNCHANGED <<connected, toViewer>>
            \/ \E m \in ViewerMsgs : m.type \notin Headers /\ Written(m)
  <1> DEFINE msg == Head(toServer)
  <1>1. msg = toServer[1] /\ 1 \in DOMAIN toServer /\ msg \in ServerMsgs /\ connected
    BY OneLess DEF Receive, UltraTypes
  <1>2. /\ NoTransfer \in Transfers /\ NoTransfer.fd = Closed
        /\ fileTransfer \in Transfers /\ Descriptor
    BY DEF NoTransfer, Transfers, UltraTypes, TransferInv
  <1>3. ASSUME fileTransfer' = NoTransfer PROVE fileTransfer'.fd = Closed /\ fileTransfer' \in Transfers /\ Descriptor'
    BY <1>2, <1>3, UltraAssumption DEF Descriptor
  <1>4. ASSUME fileTransfer' = fileTransfer
        PROVE  fileTransfer'.fd = fileTransfer.fd /\ fileTransfer' \in Transfers /\ Descriptor'
    BY <1>2, <1>4 DEF Descriptor
  <1>5. CASE msg.type = "FileHeader"
    <2>1. OnFileHeader(msg.arg)
      BY <1>5 DEF Receive, Begins
    <2>2. CASE msg.arg = "error"
      <3>1. fileTransfer' = [fileTransfer EXCEPT !.fd = Closed] /\ Quiet
        BY <2>1, <2>2 DEF OnFileHeader
      <3>2. fileTransfer'.fd = Closed /\ fileTransfer' \in Transfers
        BY <1>2, <3>1 DEF Transfers
      <3>3. Descriptor'
        BY <3>2, UltraAssumption DEF Descriptor
      <3> QED BY <2>1, <3>1, <3>2, <3>3 DEF OnFileHeader, Quiet
    <2>3. CASE msg.arg # "error"
      <3>1. fileTransfer.fd # "upload"
        BY <1>1, <1>5 DEF TransferInv, Stage
      <3>2. ~Closes(msg)
        BY <1>5, <2>3 DEF Closes, Finals, Msg
      <3> DEFINE ready == [fileTransfer EXCEPT !.sending = TRUE]
      <3>3. ready \in Transfers /\ ready.fd = fileTransfer.fd /\ ready.pos = fileTransfer.pos
        BY <1>2 DEF Transfers
      <3>4. UNCHANGED <<writing, overwritten>>
            /\ ((ready.fd # Closed /\ SendChunk(ready)) \/ (fileTransfer' = ready /\ Quiet))
        BY <2>1, <2>3 DEF OnFileHeader
      <3> HIDE DEF ready
      <3>5. CASE ready.fd # Closed /\ SendChunk(ready)
        <4>1. ready.fd \in SharedFiles /\ ready.pos <= Blocks[ready.fd]
          BY <1>2, <3>1, <3>3, <3>5 DEF Transfers, Descriptor
        <4>2. /\ fileTransfer' \in Transfers /\ fileTransfer'.fd \in {ready.fd, Closed} /\ Descriptor'
              /\ \E m \in ViewerMsgs : m.type \in Progress /\ Sent(ready, m) /\ Written(m)
          BY <3>3, <3>5, <4>1, SendChunkShape
        <4> QED BY <3>2, <3>3, <3>4, <4>2 DEF Headers, Progress, Finals
      <3>6. CASE fileTransfer' = ready /\ Quiet
        <4>1. Descriptor'
          BY <1>2, <3>1, <3>3, <3>6 DEF Descriptor
        <4> QED BY <3>2, <3>3, <3>4, <3>6, <4>1 DEF Quiet
      <3> QED BY <3>4, <3>5, <3>6
    <2> QED BY <2>2, <2>3
  <1>6. CASE msg.type = "FilePacket"
    <2>1. OnFilePacket
      BY <1>6 DEF Receive, Begins
    <2>2. ~Closes(msg)
      BY <1>6 DEF Closes, Finals, Msg
    <2>3. UNCHANGED <<connected, toViewer, writing, overwritten>>
      BY <2>1 DEF OnFilePacket, Quiet
    <2>4. fileTransfer' = fileTransfer \/ fileTransfer' = NoTransfer
      BY <2>1 DEF OnFilePacket, CloseFile
    <2>5. CASE fileTransfer' = fileTransfer
      BY <1>4, <2>2, <2>3, <2>5
    <2>6. CASE fileTransfer' = NoTransfer
      BY <1>3, <2>2, <2>3, <2>6
    <2> QED BY <2>4, <2>5, <2>6
  <1>7. CASE msg.type = "EndOfFile"
    <2>1. OnEndOfFile
      BY <1>7 DEF Receive, Begins
    <2> QED BY <1>3, <2>1 DEF OnEndOfFile, CloseFile, Quiet
  <1>8. CASE msg.type = "AbortFileTransfer"
    <2>1. OnAbort(msg.arg)
      BY <1>8 DEF Receive, Begins
    <2>2. CASE fileTransfer.fd # Closed
      BY <1>3, <2>1, <2>2 DEF OnAbort, CloseFile, Quiet
    <2>3. CASE fileTransfer.fd = Closed
      <3> DEFINE m == IF msg.arg = "ok" THEN Msg("AbortFileTransfer", "error")
                      ELSE Msg("FileTransferAccess", "ok")
      <3>1. m \in ViewerMsgs /\ m.type \notin Headers
        BY DEF Msg, ViewerMsgs, Headers, Finals
      <3>2. fileTransfer' = fileTransfer /\ Reply(<<m>>) /\ UNCHANGED <<writing, overwritten>>
        BY <2>1, <2>3 DEF OnAbort
      <3> HIDE DEF m
      <3>3. Written(m)
        BY <3>2, ReplyShape
      <3> QED BY <1>4, <2>3, <3>1, <3>2, <3>3
    <2> QED BY <2>2, <2>3
  <1> QED BY <1>1, <1>5, <1>6, <1>7, <1>8 DEF ServerMsgs, Begins

\* A message less.
LEMMA ClosedShift ==
  ASSUME UltraTypes, toServer # <<>>, toServer' = Tail(toServer),
         fileTransfer'.fd \in {fileTransfer.fd, Closed},
         Closes(Head(toServer)) => fileTransfer'.fd = Closed,
         NEW n \in 2 .. Len(toServer) + 1, ClosedBefore(n)
  PROVE  ClosedBefore(n - 1)'
  <1>1. /\ Head(toServer) = toServer[1] /\ Len(toServer) \in Nat \ {0}
        /\ \A i \in 1 .. Len(toServer) - 1 : toServer'[i] = toServer[i + 1]
    BY OneLess DEF UltraTypes
  <1>2. ASSUME NEW i \in 1 .. (n - 1) - 1 PROVE toServer'[i] = toServer[i + 1] /\ i + 1 \in 1 .. n - 1
    BY <1>1
  <1>3. \A i \in 1 .. (n - 1) - 1 : toServer'[i].type \notin Begins
    BY <1>2 DEF ClosedBefore
  <1>4. fileTransfer'.fd = Closed \/ \E i \in 1 .. (n - 1) - 1 : Closes(toServer'[i])
    <2>1. CASE fileTransfer.fd = Closed
      BY <2>1
    <2>2. CASE \E i \in 1 .. n - 1 : Closes(toServer[i])
      <3>1. PICK i \in 1 .. n - 1 : Closes(toServer[i])
        BY <2>2
      <3>2. CASE i = 1
        BY <1>1, <3>1, <3>2
      <3>3. CASE i # 1
        <4>1. i - 1 \in 1 .. (n - 1) - 1 /\ toServer'[i - 1] = toServer[i]
          BY <1>1, <3>3
        <4> QED BY <3>1, <4>1
      <3> QED BY <3>2, <3>3
    <2> QED BY <2>1, <2>2 DEF ClosedBefore
  <1> QED BY <1>3, <1>4 DEF ClosedBefore, Closes

\* A server that goes on to serve a viewer that is ready for the file.
LEMMA ReadyReceived ==
  ASSUME UltraTypes, TransferInv, Receive, permitted, viewer.step = "receiving", connected'
  PROVE  Stage'
  <1>1. /\ toServer # <<>> /\ connected /\ toServer' = Tail(toServer) /\ viewer' = viewer
        /\ NoHeader /\ connected' = connected
    <2>1. toServer # <<>> /\ connected /\ toServer' = Tail(toServer) /\ viewer' = viewer
      BY DEF Receive
    <2> QED BY <2>1 DEF TransferInv, Stage, UltraTypes
  <1>2. PICK at \in [1 .. Len(toViewer) + 1 -> Nat] : Receiving(at)
    BY DEF TransferInv, Stage
  <1>3. Sending(at) /\ Stream(at) /\ toServer = <<Msg("FileHeader", "ok")>> /\ ~fileTransfer.sending
    BY <1>1, <1>2 DEF Receiving, Sending
  <1>4. Head(toServer).type = "FileHeader" /\ Head(toServer).arg = "ok" /\ toServer' = <<>>
    BY <1>1, <1>3 DEF Msg
  <1> DEFINE ready == [fileTransfer EXCEPT !.sending = TRUE]
  <1>5. /\ ready \in Transfers /\ ready.fd = viewer.file /\ ready.pos = at[Len(toViewer) + 1]
        /\ ready.pos = fileTransfer.pos /\ ready.fd = fileTransfer.fd
        /\ ready.fd \in SharedFiles /\ ready.pos <= Blocks[ready.fd]
    <2>1. ready \in Transfers /\ ready.fd = fileTransfer.fd /\ ready.pos = fileTransfer.pos
      BY DEF UltraTypes, Transfers
    <2>2. fileTransfer.fd = viewer.file /\ fileTransfer.pos = at[Len(toViewer) + 1]
      BY <1>3 DEF Sending
    <2> QED BY <2>1, <2>2 DEF UltraTypes, TransferInv, Descriptor
  <1>6. (ready.fd # Closed /\ SendChunk(ready)) \/ (fileTransfer' = ready /\ Quiet)
    <2>1. OnFileHeader("ok")
      BY <1>4 DEF Receive
    <2> QED BY <2>1 DEF OnFileHeader
  <1> HIDE DEF ready
  <1>7. \A i \in 1 .. Len(toViewer) : toViewer[i].type \notin Finals
    BY <1>3 DEF Sending
  <1>8. CASE fileTransfer' = ready /\ Quiet
    <2>1. Stream(at)' /\ toViewer' = toViewer
      BY <1>1, <1>3, <1>8 DEF Stream, Quiet
    <2>2. Sending(at)'
      BY <1>1, <1>4, <1>5, <1>7, <1>8, <2>1 DEF Sending
    <2>3. Receiving(at)' /\ NoHeader'
      BY <1>1, <2>1, <2>2 DEF Receiving, NoHeader
    <2> QED BY <1>1, <1>2, <1>4, <2>1, <2>3 DEF Stage
  <1>9. CASE SendChunk(ready)
    <2>1. PICK m \in ViewerMsgs : m.type \in Progress /\ Sent(ready, m) /\ Written(m)
      BY <1>5, <1>9, SendChunkShape
    <2>2. toViewer' = toViewer \o <<m>>
      BY <2>1 DEF Written
    <2>3. /\ Len(toViewer') = Len(toViewer) + 1 /\ Len(toViewer) \in Nat
          /\ DOMAIN toViewer = 1 .. Len(toViewer) /\ DOMAIN toViewer' = 1 .. Len(toViewer) + 1
          /\ \A i \in 1 .. Len(toViewer) : toViewer'[i] = toViewer[i]
          /\ toViewer'[Len(toViewer) + 1] = m
      BY <2>2, OneMore DEF UltraTypes
    <2>4. NoHeader'
      <3>1. m.type \notin Headers
        BY <2>1 DEF Headers, Progress, Finals
      <3> QED BY <1>1, <2>3, <3>1 DEF NoHeader
    <2>5. /\ m.type = "FilePacket" => /\ m.arg = <<viewer.file, at[Len(toViewer) + 1] + 1>>
                                      /\ at[Len(toViewer) + 1] < Blocks[viewer.file]
          /\ m.type = "EndOfFile" => at[Len(toViewer) + 1] = Blocks[viewer.file]
      BY <1>5, <2>1 DEF Sent, Msg, Finals
    <2>6. PICK more \in [1 .. Len(toViewer') + 1 -> Nat] :
             /\ Stream(more)'
             /\ more[Len(toViewer') + 1] = IF m.type = "FilePacket" THEN at[Len(toViewer) + 1] + 1
                                           ELSE at[Len(toViewer) + 1]
      BY <1>1, <1>3, <1>7, <2>2, <2>5, StreamGrows
    <2>7. Receiving(more)'
      <3>1. CASE fileTransfer' = NoTransfer
        BY <1>4, <2>6, <3>1 DEF Receiving, NoTransfer
      <3>2. CASE /\ fileTransfer' = [ready EXCEPT !.pos = @ + 1]
                 /\ m = Msg("FilePacket", <<ready.fd, ready.pos + 1>>)
        <4>1. /\ fileTransfer'.fd = viewer'.file /\ fileTransfer'.pos = at[Len(toViewer) + 1] + 1
              /\ m.type = "FilePacket" /\ m.type \notin Finals
          BY <1>1, <1>5, <3>2 DEF Msg, Finals, Transfers
        <4>2. Sending(more)'
          BY <1>4, <1>7, <2>3, <2>6, <4>1 DEF Sending
        <4> QED BY <2>6, <4>2 DEF Receiving
      <3> QED BY <2>1, <3>1, <3>2 DEF Sent
    <2> QED BY <1>1, <1>4, <2>4, <2>6, <2>7 DEF Stage
  <1> QED BY <1>6, <1>8, <1>9

\* The request of a transfer comes when the last one's file is closed.
LEMMA RequestReceived ==
  ASSUME UltraTypes, TransferInv, Receive, permitted, connected, viewer.step \in {"header", "accept"},
         Waiting, Len(toServer) = 1
  PROVE  /\ Stage' /\ Descriptor' /\ overwritten' = overwritten
         /\ fileTransfer' \in Transfers
         /\ writing' \in {<<>>, <<Msg("sizeHtmp", "ok")>>}
         /\ \E m \in ViewerMsgs : Written(m)
  <1>1. /\ toServer' = <<>> /\ viewer' = viewer /\ Head(toServer) = Asked
        /\ fileTransfer.fd = Closed /\ NoHeader
    <2>1. toServer # <<>> /\ Head(toServer) = toServer[1] /\ toServer' = Tail(toServer)
          /\ Len(Tail(toServer)) = 0 /\ Tail(toServer) \in Seq(ServerMsgs)
      BY OneLess DEF UltraTypes, Receive
    <2>2. toServer' = <<>>
      BY <2>1, EmptySeq
    <2> QED BY <2>1, <2>2 DEF Waiting, ClosedBefore, Receive
  <1> DEFINE type == IF viewer.step = "header" THEN "FileHeader" ELSE "FileAcceptHeader"
             fd == IF viewer.step = "header" THEN viewer.file ELSE "upload"
  <1>2. \/ /\ Open(fd) /\ Reply(<<Msg(type, "ok")>>)
           /\ writing' \in {<<>>, <<Msg("sizeHtmp", "ok")>>}
        \/ /\ Open(Closed) /\ Reply(<<Msg(type, "error")>>)
           /\ writing' \in {<<>>, <<Msg("sizeHtmp", "ok")>>}
    <2>1. CASE viewer.step = "header"
      <3>1. OnRequest(viewer.file)
        BY <1>1, <2>1 DEF Receive, Asked, Msg
      <3> QED BY <2>1, <3>1 DEF OnRequest, UltraTypes
    <2>2. CASE viewer.step = "accept"
      <3>1. OnOffer
        BY <1>1, <2>2 DEF Receive, Asked, Msg
      <3> QED BY <2>2, <3>1 DEF OnOffer, UltraTypes
    <2> QED BY <2>1, <2>2
  <1>3. fd \in SharedFiles \cup {"upload"} /\ fd # Closed /\ (viewer.step = "header" => fd = viewer.file /\ fd # "upload")
    BY UltraAssumption DEF UltraTypes
  <1>4. type \in Headers /\ type = IF viewer.step = "header" THEN "FileHeader" ELSE "FileAcceptHeader"
    BY DEF Headers
  <1> HIDE DEF type, fd
  <1>5. PICK arg \in {"ok", "error"} :
           /\ Reply(<<Msg(type, arg)>>) /\ Open(IF arg = "ok" THEN fd ELSE Closed)
           /\ writing' \in {<<>>, <<Msg("sizeHtmp", "ok")>>}
    BY <1>2
  <1>6. /\ fileTransfer' \in Transfers /\ Descriptor' /\ overwritten' = overwritten
        /\ fileTransfer'.fd = IF arg = "ok" THEN fd ELSE Closed
        /\ arg = "ok" /\ viewer.step = "header" =>
             fileTransfer'.pos = 0 /\ ~fileTransfer'.sending
    <2>1. overwritten' = overwritten
      BY <1>1, <1>5 DEF Open, UltraTypes
    <2>2. CASE arg = "ok"
      <3>1. fileTransfer' = [NoTransfer EXCEPT !.fd = fd, !.receiving = (fd = "upload")]
        BY <1>3, <1>5, <2>2 DEF Open
      <3>2. CASE fd = "upload"
        <4>1. fileTransfer' = [NoTransfer EXCEPT !.fd = fd, !.receiving = TRUE]
          BY <3>1, <3>2, Zenon
        <4>2. /\ fileTransfer' \in Transfers /\ fileTransfer'.fd = "upload"
              /\ fileTransfer'.sending = FALSE /\ fileTransfer'.receiving = TRUE
          BY <3>2, <4>1 DEF NoTransfer, Transfers
        <4>3. Descriptor'
          BY <4>2, UltraAssumption DEF Descriptor
        <4> QED BY <1>3, <2>1, <2>2, <3>2, <4>2, <4>3
      <3>3. CASE fd # "upload"
        <4>1. fileTransfer' = [NoTransfer EXCEPT !.fd = fd, !.receiving = FALSE]
          <5>1. (fd = "upload") = FALSE
            BY <3>3
          <5> QED BY <3>1, <5>1, Zenon
        <4>3. /\ fileTransfer' \in Transfers /\ fileTransfer'.fd = fd /\ fileTransfer'.pos = 0
              /\ fileTransfer'.sending = FALSE
          BY <1>3, <4>1 DEF NoTransfer, Transfers
        <4>4. fd \in SharedFiles /\ Blocks[fd] \in Nat
          BY <1>3, <3>3, UltraAssumption
        <4>5. Descriptor'
          BY <3>3, <4>3, <4>4 DEF Descriptor
        <4> QED BY <1>3, <2>1, <2>2, <4>3, <4>5
      <3> QED BY <3>2, <3>3
    <2>3. CASE arg # "ok"
      <3>1. fileTransfer' = [fileTransfer EXCEPT !.fd = Closed]
        BY <1>5, <2>3 DEF Open
      <3>2. fileTransfer' \in Transfers /\ fileTransfer'.fd = Closed
        BY <3>1 DEF UltraTypes, Transfers
      <3>3. Descriptor'
        BY <3>2, UltraAssumption DEF Descriptor
      <3> QED BY <2>1, <2>3, <3>2, <3>3
    <2> QED BY <2>2, <2>3
  <1> DEFINE m == Msg(type, arg)
  <1>7. m \in ViewerMsgs /\ m.type = type /\ m.arg = arg
    BY <1>4 DEF Msg, ViewerMsgs, Headers
  <1>8. Written(m)
    BY <1>5, ReplyShape
  <1> HIDE DEF m
  <1>9. CASE toViewer' = toViewer /\ connected' = FALSE
    <2>1. Stage'
      BY <1>1, <1>9, StageBroken DEF TransferInv
    <2> QED BY <1>5, <1>6, <1>7, <1>8, <2>1
  <1>10. CASE toViewer' = toViewer \o <<m>>
    <2>1. PICK h \in Nat :
             /\ h = Len(toViewer) + 1
             /\ DOMAIN toViewer = 1 .. Len(toViewer) /\ DOMAIN toViewer' = 1 .. h
             /\ \A i \in 1 .. Len(toViewer) : toViewer'[i] = toViewer[i]
             /\ toViewer'[h] = m
      BY <1>7, <1>10, OneMore DEF UltraTypes
    <2>2. h \in DOMAIN toViewer'
      BY <2>1, OneMore DEF UltraTypes
    <2>3. ASSUME NEW i \in DOMAIN toViewer' \ {h} PROVE toViewer'[i].type \notin Headers
      <3>1. i \in DOMAIN toViewer
        BY <2>1
      <3> QED BY <1>1, <2>1, <3>1 DEF NoHeader
    <2>4. \A i \in DOMAIN toViewer' : ~(i > h)
      BY <2>1
    <2>5. Answer(h)'
      <3>1. toViewer'[h].type = IF viewer'.step = "header" THEN "FileHeader" ELSE "FileAcceptHeader"
        BY <1>1, <1>4, <1>7, <2>1
      <3>2. toViewer'[h].arg = arg
        BY <1>7, <2>1
      <3>3. IF toViewer'[h].arg # "ok" THEN fileTransfer'.fd = Closed
            ELSE viewer'.step = "header" =>
                   /\ fileTransfer'.fd = viewer'.file /\ fileTransfer'.pos = 0
                   /\ ~fileTransfer'.sending
        BY <1>1, <1>3, <1>6, <3>2
      <3> QED BY <1>1, <2>3, <2>4, <3>1, <3>3 DEF Answer
    <2>6. Answered'
      BY <2>2, <2>5 DEF Answered
    <2>7. Stage'
      BY <1>1, <2>6 DEF Stage
    <2> QED BY <1>5, <1>6, <1>7, <1>8, <2>7
  <1> QED BY <1>8, <1>9, <1>10 DEF Written

\* A write keeps the shapes of the state.
LEMMA WrittenTypes ==
  ASSUME UltraTypes, NEW m \in ViewerMsgs, Written(m)
  PROVE  toViewer' \in Seq(ViewerMsgs) /\ connected' \in BOOLEAN
  <1>1. CASE toViewer' = toViewer \o <<m>> /\ connected' = connected
    BY <1>1, OneMore DEF UltraTypes
  <1>2. CASE toViewer' = toViewer /\ connected' = FALSE
    BY <1>2 DEF UltraTypes
  <1> QED BY <1>1, <1>2 DEF Written

\* What the server does with a message.
LEMMA ReceiveStage ==
  ASSUME UltraTypes, TransferInv, Receive
  PROVE  UltraTypes' /\ TransferInv' /\ overwritten' = overwritten
  <1>1. /\ connected /\ toServer # <<>> /\ writing = <<>> /\ toServer' = Tail(toServer)
        /\ UNCHANGED <<permitted, viewer, transfers>>
    BY DEF Receive
  <1>2. /\ Head(toServer) = toServer[1] /\ Len(toServer) \in Nat \ {0}
        /\ toServer' \in Seq(ServerMsgs) /\ Len(toServer') = Len(toServer) - 1
        /\ DOMAIN toServer = 1 .. Len(toServer) /\ DOMAIN toServer' = 1 .. Len(toServer) - 1
        /\ \A i \in 1 .. Len(toServer) - 1 : toServer'[i] = toServer[i + 1]
    BY <1>1, OneLess DEF UltraTypes
  <1>3. Steady'
    BY <1>1 DEF TransferInv, Steady
  <1>4. CASE ~permitted
    <2>1. connected' = FALSE /\ UNCHANGED <<fileTransfer, writing, toViewer, overwritten>>
      BY <1>4 DEF Receive
    <2>2. Stage'
      BY <1>1, <2>1, StageBroken DEF TransferInv
    <2>3. UltraTypes'
      BY <1>1, <1>2, <2>1 DEF UltraTypes
    <2> QED BY <1>3, <2>1, <2>2, <2>3 DEF TransferInv, Descriptor
  <1>5. CASE permitted /\ Head(toServer).type \in Begins
    <2>1. viewer.step \in {"header", "accept"} /\ Waiting /\ Len(toServer) = 1
      <3>1. 1 \in DOMAIN toServer /\ toServer[1].type \in Begins
        BY <1>2, <1>5
      <3>2. viewer.step \notin {"idle", "uploading"}
        BY <1>1, <3>1 DEF TransferInv, Stage
      <3>3. viewer.step # "receiving"
        <4>1. toServer # <<Msg("FileHeader", "ok")>>
          BY <1>2, <3>1 DEF Msg, Begins
        <4> QED BY <1>1, <4>1 DEF TransferInv, Stage, Receiving, Sending
      <3>4. viewer.step \in {"header", "accept"}
        BY <3>2, <3>3 DEF UltraTypes
      <3>5. Waiting
        BY <1>1, <3>4 DEF TransferInv, Stage, Answered, Answer, Lost
      <3>6. ~(1 \in 1 .. Len(toServer) - 1)
        BY <3>1, <3>5 DEF Waiting, ClosedBefore
      <3> QED BY <1>2, <3>4, <3>5, <3>6
    <2>2. /\ Stage' /\ Descriptor' /\ overwritten' = overwritten
          /\ fileTransfer' \in Transfers
          /\ writing' \in {<<>>, <<Msg("sizeHtmp", "ok")>>}
          /\ \E m \in ViewerMsgs : Written(m)
      BY <1>1, <1>5, <2>1, RequestReceived
    <2>3. toViewer' \in Seq(ViewerMsgs) /\ connected' \in BOOLEAN
      BY <2>2, WrittenTypes
    <2>4. UltraTypes'
      BY <1>1, <1>2, <2>2, <2>3 DEF UltraTypes
    <2> QED BY <1>3, <2>2, <2>4 DEF TransferInv
  <1>6. CASE permitted /\ Head(toServer).type \notin Begins
    <2>1. /\ fileTransfer'.fd \in {fileTransfer.fd, Closed}
          /\ Closes(Head(toServer)) => fileTransfer'.fd = Closed
          /\ fileTransfer' \in Transfers /\ Descriptor'
          /\ UNCHANGED <<writing, overwritten>>
          /\ \/ UNCHANGED <<connected, toViewer>>
             \/ \E m \in ViewerMsgs : m.type \notin Headers /\ Written(m)
      BY <1>6, ReceiveShape
    <2>2. toViewer' \in Seq(ViewerMsgs) /\ connected' \in BOOLEAN
      BY <2>1, WrittenTypes DEF UltraTypes
    <2>3. UltraTypes'
      BY <1>1, <1>2, <2>1, <2>2 DEF UltraTypes
    <2>4. CASE ~connected'
      <3>1. toViewer' = toViewer
        BY <1>1, <2>1, <2>4 DEF Written
      <3>2. Stage'
        BY <1>1, <2>4, <3>1, StageBroken DEF TransferInv
      <3> QED BY <1>3, <2>1, <2>3, <3>2 DEF TransferInv
    <2>5. CASE connected'
      <3>1. NoHeader => NoHeader'
        <4>1. toViewer' = toViewer \/ \E m \in ViewerMsgs : m.type \notin Headers /\ toViewer' = toViewer \o <<m>>
          BY <2>1, <2>5 DEF Written
        <4>2. ASSUME NEW m \in ViewerMsgs, m.type \notin Headers, toViewer' = toViewer \o <<m>>, NoHeader
              PROVE  NoHeader'
          <5>1. /\ DOMAIN toViewer = 1 .. Len(toViewer) /\ DOMAIN toViewer' = 1 .. Len(toViewer) + 1
                /\ \A i \in 1 .. Len(toViewer) : toViewer'[i] = toViewer[i]
                /\ toViewer'[Len(toViewer) + 1] = m /\ Len(toViewer) \in Nat
            BY <4>2, OneMore DEF UltraTypes
          <5>2. ASSUME NEW i \in 1 .. Len(toViewer) + 1 PROVE toViewer'[i].type \notin Headers
            <6>1. i \in 1 .. Len(toViewer) \/ i = Len(toViewer) + 1
              BY <5>1
            <6> QED BY <4>2, <5>1, <6>1 DEF NoHeader
          <5> QED BY <5>1, <5>2 DEF NoHeader
        <4> QED BY <4>1, <4>2 DEF NoHeader
      <3>2. \A i \in DOMAIN toServer' : toServer'[i] = toServer[i + 1] /\ i + 1 \in DOMAIN toServer
        BY <1>2
      <3>3. \A i \in DOMAIN toServer' : toServer'[i].type = "FileHeader" => fileTransfer'.fd # "upload"
        BY <1>1, <2>1, <3>2, UltraAssumption DEF TransferInv, Stage
      <3>4. CASE viewer.step \in {"header", "accept"}
        <4>1. Waiting
          BY <1>1, <3>4 DEF TransferInv, Stage, Answered, Answer, Lost
        <4>2. Len(toServer) # 1
          BY <1>2, <1>6, <4>1 DEF Waiting, Asked, Msg, Begins
        <4>3. ClosedBefore(Len(toServer))'
          <5>1. PICK n \in 2 .. Len(toServer) + 1 : n = Len(toServer) /\ ClosedBefore(n)
            BY <1>2, <4>1, <4>2 DEF Waiting
          <5>2. ClosedBefore(n - 1)' /\ n - 1 = Len(toServer')
            BY <1>1, <1>2, <2>1, <5>1, ClosedShift
          <5> QED BY <1>2, <5>2 DEF ClosedBefore
        <4>4. toServer' # <<>> /\ toServer'[Len(toServer')] = toServer[Len(toServer)]
          BY <1>2, <4>2
        <4>5. Waiting'
          BY <1>1, <2>5, <3>1, <4>1, <4>3, <4>4 DEF Waiting, Asked
        <4>6. Stage'
          BY <1>1, <3>3, <3>4, <4>5 DEF Stage
        <4> QED BY <1>3, <2>1, <2>3, <4>6 DEF TransferInv
      <3>5. CASE viewer.step = "receiving"
        <4>1. Stage'
          BY <1>6, <2>5, <3>5, ReadyReceived
        <4> QED BY <1>3, <2>1, <2>3, <4>1 DEF TransferInv
      <3>6. CASE viewer.step = "idle"
        <4>1. PICK n \in 2 .. Len(toServer) + 1 : n = Len(toServer) + 1 /\ ClosedBefore(n)
          BY <1>1, <1>2, <3>6 DEF TransferInv, Stage
        <4>2. ClosedBefore(n - 1)' /\ n - 1 = Len(toServer') + 1
          BY <1>1, <1>2, <2>1, <4>1, ClosedShift
        <4>3. ClosedBefore(Len(toServer) + 1)'
          BY <1>2, <4>2 DEF ClosedBefore
        <4>4. Stage'
          BY <1>1, <3>1, <3>2, <3>3, <3>6, <4>3 DEF TransferInv, Stage
        <4> QED BY <1>3, <2>1, <2>3, <4>4 DEF TransferInv
      <3>7. CASE viewer.step = "uploading"
        <4>1. Stage'
          BY <1>1, <3>1, <3>2, <3>3, <3>7 DEF TransferInv, Stage
        <4> QED BY <1>3, <2>1, <2>3, <4>1 DEF TransferInv
      <3> QED BY <3>4, <3>5, <3>6, <3>7 DEF UltraTypes
    <2> QED BY <2>2, <2>4, <2>5
  <1> QED BY <1>4, <1>5, <1>6 DEF UltraTypes

\* A message that no transfer waits for, or the end of the connection.
LEMMA HarmlessReply ==
  ASSUME UltraTypes, TransferInv, NEW m \in ViewerMsgs, m.type \notin Headers \cup Progress, Written(m),
         UNCHANGED <<permitted, fileTransfer, toServer, viewer, overwritten, transfers>>,
         writing' \in {<<>>, <<Msg("sizeHtmp", "ok")>>}
  PROVE  UltraTypes' /\ TransferInv'
  <1>1. UltraTypes'
    BY WrittenTypes DEF UltraTypes
  <1>2. Stage'
    <2>1. CASE toViewer' = toViewer \o <<m>> /\ connected' = connected
      BY <2>1, StageHarmless DEF TransferInv
    <2>2. CASE toViewer' = toViewer /\ connected' = FALSE
      BY <2>2, StageBroken DEF TransferInv
    <2> QED BY <2>1, <2>2 DEF Written
  <1> QED BY <1>1, <1>2 DEF TransferInv, Steady, Descriptor

\* A chunk goes on with the stream.
LEMMA ChunkStage ==
  ASSUME UltraTypes, TransferInv, Chunk
  PROVE  UltraTypes' /\ TransferInv'
  <1>1. /\ connected /\ fileTransfer.fd # Closed /\ fileTransfer.sending /\ SendChunk(fileTransfer)
        /\ UNCHANGED <<permitted, writing, toServer, viewer, overwritten, transfers>>
    BY DEF Chunk
  <1>2. /\ fileTransfer \in Transfers /\ fileTransfer.fd \in SharedFiles
        /\ fileTransfer.pos <= Blocks[fileTransfer.fd]
    BY <1>1 DEF UltraTypes, Transfers, TransferInv, Descriptor
  <1>3. /\ fileTransfer' \in Transfers /\ Descriptor'
        /\ \E m \in ViewerMsgs : m.type \in Progress /\ Sent(fileTransfer, m) /\ Written(m)
    BY <1>1, <1>2, SendChunkShape
  <1>4. PICK m \in ViewerMsgs : m.type \in Progress /\ Sent(fileTransfer, m) /\ Written(m)
    BY <1>3
  <1>5. UltraTypes'
    BY <1>1, <1>3, <1>4, WrittenTypes DEF UltraTypes
  <1>6. Stage'
    <2>1. CASE toViewer' = toViewer \o <<m>> /\ connected' = connected
      BY <1>1, <1>2, <1>4, <2>1, StageProgress DEF TransferInv, Sent
    <2>2. CASE toViewer' = toViewer /\ connected' = FALSE
      BY <1>1, <2>2, StageBroken DEF TransferInv
    <2> QED BY <1>4, <2>1, <2>2 DEF Written
  <1> QED BY <1>1, <1>3, <1>5, <1>6 DEF TransferInv, Steady

\* Every step of the server keeps the transfer and loses no descriptor.
LEMMA ServerStage ==
  ASSUME UltraTypes, TransferInv, Server
  PROVE  UltraTypes' /\ TransferInv' /\ overwritten' = overwritten
  <1>1. CASE Receive
    BY <1>1, ReceiveStage
  <1>2. CASE Chunk
    BY <1>2, ChunkStage DEF Chunk
  <1>3. CASE WriteRest
    <2> DEFINE m == Msg("sizeHtmp", "ok")
    <2>1. writing = <<m>> /\ Reply(<<m>>)
      BY <1>3 DEF WriteRest, UltraTypes
    <2>2. m \in ViewerMsgs /\ m.type \notin Headers \cup Progress
      BY DEF Msg, ViewerMsgs, Headers, Progress, Finals
    <2> HIDE DEF m
    <2>3. Written(m)
      BY <2>1, ReplyShape
    <2> QED BY <1>3, <2>2, <2>3, HarmlessReply DEF WriteRest
  <1>4. CASE Update
    <2> DEFINE m == Msg("Update", "ok")
    <2>1. Reply(<<m>>)
      BY <1>4 DEF Update
    <2>2. m \in ViewerMsgs /\ m.type \notin Headers \cup Progress
      BY DEF Msg, ViewerMsgs, Headers, Progress, Finals
    <2> HIDE DEF m
    <2>3. Written(m)
      BY <2>1, ReplyShape
    <2> QED BY <1>4, <2>2, <2>3, HarmlessReply DEF Update, UltraTypes
  <1>5. CASE Permit
    <2>1. UltraTypes'
      BY <1>5 DEF Permit, UltraTypes
    <2>2. UNCHANGED <<connected, fileTransfer, writing, toServer, toViewer, viewer, overwritten>>
      BY <1>5 DEF Permit
    <2>3. Stage'
      BY <2>2 DEF TransferInv, Stage, Waiting, Asked, ClosedBefore, Closes, NoHeader, Answered, Answer, Lost,
                  Receiving, Stream, Sending
    <2> QED BY <2>1, <2>2, <2>3 DEF TransferInv, Steady, Descriptor
  <1>6. CASE Disconnect
    <2>1. UltraTypes'
      BY <1>6 DEF Disconnect, UltraTypes
    <2>2. Stage'
      BY <1>6, StageBroken DEF Disconnect, TransferInv
    <2> QED BY <1>6, <2>1, <2>2 DEF Disconnect, TransferInv, Steady, Descriptor
  <1> QED BY <1>1, <1>2, <1>3, <1>4, <1>5, <1>6 DEF Server

\* What a step of the viewer changes.
Views == [step : {"idle", "header", "receiving", "accept", "uploading"},
          file : SharedFiles, got : Seq(SharedFiles \X Nat), sent : 0 .. OfferBlocks,
          result : {"idle", "copying", "complete", "failed"}]
ViewerMoves ==
    /\ viewer' \in Views
    /\ toServer' = toServer \/ \E m \in ServerMsgs : toServer' = Append(toServer, m)
    /\ toViewer' = toViewer \/ (toViewer # <<>> /\ toViewer' = Tail(toViewer))
    /\ transfers' \in 0 .. MaxTransfers
    /\ ServerUnchanged

\* What the user makes the viewer do.
LEMMA UserMoves ==
  ASSUME UltraTypes, \/ \E file \in SharedFiles : Download(file)
                     \/ Offer \/ AskPermission \/ UploadBlock \/ Abort
  PROVE  ViewerMoves
  <1>1. viewer \in Views /\ transfers \in 0 .. MaxTransfers
    BY DEF UltraTypes, Views
  <1>2. ASSUME BeginTransfer
        PROVE  /\ transfers' \in 0 .. MaxTransfers /\ toViewer' = toViewer /\ ServerUnchanged
    BY <1>1, <1>2, UltraAssumption DEF BeginTransfer
  <1>3. ASSUME NEW file \in SharedFiles, Download(file) PROVE ViewerMoves
    <2>1. viewer' \in Views
      BY <1>3, UltraAssumption DEF Download, Views
    <2>2. Msg("FileTransferRequest", file) \in ServerMsgs
      BY DEF Msg, ServerMsgs
    <2> QED BY <1>2, <1>3, <2>1, <2>2 DEF Download, Say, ViewerMoves
  <1>4. CASE Offer
    <2>1. viewer' \in Views
      <3>1. 0 \in 0 .. OfferBlocks
        BY UltraAssumption
      <3>2. viewer' = [viewer EXCEPT !.step = "accept", !.sent = 0]
        BY <1>4 DEF Offer
      <3> QED BY <1>1, <3>1, <3>2 DEF Views
    <2>2. Msg("FileTransferOffer", "upload") \in ServerMsgs
      BY DEF Msg, ServerMsgs
    <2> QED BY <1>2, <1>4, <2>1, <2>2 DEF Offer, Say, ViewerMoves
  <1>5. CASE AskPermission
    <2>1. Msg("AbortFileTransfer", "ask") \in ServerMsgs
      BY DEF Msg, ServerMsgs
    <2> QED BY <1>1, <1>2, <1>5, <2>1 DEF AskPermission, Say, ViewerMoves
  <1>6. CASE UploadBlock
    <2>1. toViewer' = toViewer /\ transfers' = transfers /\ ServerUnchanged
      BY <1>6 DEF UploadBlock
    <2>2. CASE viewer.sent < OfferBlocks
      <3> DEFINE n == viewer.sent + 1
      <3>1. n \in 0 .. OfferBlocks /\ Msg("FilePacket", n) \in ServerMsgs
        BY <1>1, <2>2, UltraAssumption DEF Views, Msg, ServerMsgs
      <3>2. viewer' = [viewer EXCEPT !.sent = n] /\ toServer' = Append(toServer, Msg("FilePacket", n))
        BY <1>6, <2>2 DEF UploadBlock, Say
      <3> HIDE DEF n
      <3>3. viewer' \in Views
        BY <1>1, <3>1, <3>2 DEF Views
      <3> QED BY <1>1, <2>1, <3>1, <3>2, <3>3 DEF ViewerMoves
    <2>3. CASE ~(viewer.sent < OfferBlocks)
      <3>1. viewer' = [viewer EXCEPT !.step = "idle"] /\ toServer' = Append(toServer, Msg("EndOfFile", "ok"))
        BY <1>6, <2>3 DEF UploadBlock, Say
      <3>2. viewer' \in Views /\ Msg("EndOfFile", "ok") \in ServerMsgs
        BY <1>1, <3>1 DEF Views, Msg, ServerMsgs
      <3> QED BY <1>1, <2>1, <3>1, <3>2 DEF ViewerMoves
    <2> QED BY <2>2, <2>3
  <1>7. CASE Abort
    <2>1. /\ toViewer' = toViewer /\ transfers' = transfers /\ ServerUnchanged
          /\ toServer' = Append(toServer, Msg("AbortFileTransfer", "ok"))
      BY <1>7 DEF Abort, Say
    <2>2. viewer' \in Views /\ Msg("AbortFileTransfer", "ok") \in ServerMsgs
      BY <1>1, <1>7 DEF Abort, Views, Msg, ServerMsgs
    <2> QED BY <1>1, <2>1, <2>2 DEF ViewerMoves
  <1> QED BY <1>3, <1>4, <1>5, <1>6, <1>7

\* What the viewer does with a message.
LEMMA ReceiveMoves ==
  ASSUME UltraTypes, ViewerReceive
  PROVE  ViewerMoves
  <1>1. viewer \in Views /\ transfers \in 0 .. MaxTransfers
    BY DEF UltraTypes, Views
  <1>2. /\ toViewer # <<>> /\ toViewer' = Tail(toViewer) /\ transfers' = transfers /\ ServerUnchanged
        /\ Head(toViewer) \in ViewerMsgs
    BY OneLess DEF ViewerReceive, UltraTypes
  <1>3. SUFFICES /\ viewer' \in Views
                 /\ toServer' = toServer \/ \E m \in ServerMsgs : toServer' = Append(toServer, m)
    BY <1>1, <1>2 DEF ViewerMoves
  <1>4. CASE ~Expected(Head(toViewer))
    BY <1>1, <1>4 DEF ViewerReceive
  <1>5. CASE Expected(Head(toViewer))
    <2>1. OnMessage(Head(toViewer))
      BY <1>5 DEF ViewerReceive
    <2>2. CASE Head(toViewer).type = "FilePacket"
      <3>1. viewer' = [viewer EXCEPT !.got = Append(@, Head(toViewer).arg)] /\ toServer' = toServer
        BY <2>1, <2>2 DEF OnMessage
      <3>2. Head(toViewer).arg \in SharedFiles \X Nat
        BY <1>2, <2>2 DEF ViewerMsgs, Finals
      <3>3. viewer.got \in Seq(SharedFiles \X Nat)
        BY <1>1 DEF Views
      <3>4. Append(viewer.got, Head(toViewer).arg) \in Seq(SharedFiles \X Nat)
        BY <3>2, <3>3
      <3> QED BY <1>1, <3>1, <3>4 DEF Views
    <2>3. CASE Head(toViewer).type # "FilePacket"
      <3>1. toServer' = toServer \/ \E arg \in {"ok", "error"} : toServer' = Append(toServer, Msg("FileHeader", arg))
        BY <2>1, <2>3 DEF OnMessage, Say
      <3>2. \A arg \in {"ok", "error"} : Msg("FileHeader", arg) \in ServerMsgs
        BY DEF Msg, ServerMsgs
      <3>3. viewer' \in Views
        BY <1>1, <2>1, <2>3 DEF OnMessage, Views
      <3> QED BY <3>1, <3>2, <3>3
    <2> QED BY <2>2, <2>3
  <1> QED BY <1>4, <1>5

\* The ranges, in a step of the viewer.
LEMMA ViewerTypes ==
  ASSUME UltraTypes, Viewer
  PROVE  UltraTypes' /\ overwritten' = overwritten
  <1>1. ViewerMoves
    BY UserMoves, ReceiveMoves DEF Viewer
  <1>2. toServer' \in Seq(ServerMsgs)
    BY <1>1, SayShape DEF ViewerMoves, UltraTypes
  <1>3. toViewer' \in Seq(ViewerMsgs)
    <2>1. toViewer \in Seq(ViewerMsgs) /\ (toViewer # <<>> => Tail(toViewer) \in Seq(ViewerMsgs))
      BY OneLess DEF UltraTypes
    <2> QED BY <1>1, <2>1 DEF ViewerMoves
  <1> QED BY <1>1, <1>2, <1>3 DEF ViewerMoves, Views, UltraTypes, ServerUnchanged

(* However the messages of both sides cross, the transfer of the viewer is *)
(* at one of its stages.                                                   *)
THEOREM TransfersInvariant == UltraSpec => [](UltraTypes /\ TransferInv /\ ~overwritten)
  <1>1. UltraInit => UltraTypes /\ TransferInv /\ ~overwritten
    <2> SUFFICES ASSUME UltraInit PROVE UltraTypes /\ TransferInv /\ ~overwritten
      OBVIOUS
    <2>1. UltraTypes
      <3>1. fileTransfer \in Transfers
        BY DEF UltraInit, NoTransfer, Transfers
      <3>2. 0 \in 0 .. OfferBlocks /\ 0 \in 0 .. MaxTransfers
        BY UltraAssumption
      <3>3. <<>> \in Seq(SharedFiles \X Nat) /\ <<>> \in Seq(ServerMsgs) /\ <<>> \in Seq(ViewerMsgs)
        OBVIOUS
      <3>4. viewer \in Views
        BY <3>2, <3>3 DEF UltraInit, Views
      <3> QED BY <3>1, <3>2, <3>3, <3>4 DEF UltraInit, UltraTypes, Views
    <2>2. /\ viewer.step = "idle" /\ viewer.result = "idle" /\ fileTransfer.fd = Closed
          /\ DOMAIN toServer = {} /\ DOMAIN toViewer = {}
      BY DEF UltraInit, NoTransfer
    <2>3. ClosedBefore(Len(toServer) + 1)
      BY <2>2 DEF ClosedBefore, UltraInit
    <2>4. TransferInv
      BY <2>2, <2>3, UltraAssumption DEF TransferInv, Stage, Steady, Descriptor, NoHeader
    <2> QED BY <2>1, <2>4 DEF UltraInit
  <1>2. (UltraTypes /\ TransferInv /\ ~overwritten) /\ [UltraNext]_ultraVars
           => (UltraTypes /\ TransferInv /\ ~overwritten)'
    <2> SUFFICES ASSUME UltraTypes, TransferInv, ~overwritten, [UltraNext]_ultraVars
                 PROVE  UltraTypes' /\ TransferInv' /\ ~overwritten'
      OBVIOUS
    <2>1. CASE Server
      BY <2>1, ServerStage
    <2>2. CASE Viewer
      BY <2>2, ViewerStage, ViewerTypes
    <2>3. CASE UNCHANGED ultraVars
      <3>1. UltraTypes'
        BY <2>3 DEF ultraVars, UltraTypes
      <3>2. Stage'
        BY <2>3 DEF ultraVars, TransferInv, Stage, Waiting, Asked, ClosedBefore, Closes, NoHeader, Answered, Answer,
                    Lost, Receiving, Stream, Sending
      <3> QED BY <2>3, <3>1, <3>2 DEF ultraVars, TransferInv, Steady, Descriptor
    <2> QED BY <2>1, <2>2, <2>3 DEF UltraNext
  <1> QED BY <1>1, <1>2, PTL DEF UltraSpec

(* rfbProcessFileTransfer never opens a file over a descriptor that is     *)
(* still open: whatever ended the last transfer has closed its file before *)
(* the next request comes.                                                 *)
THEOREM DescriptorNeverLost == UltraSpec => []DescriptorKept
  BY TransfersInvariant, PTL DEF DescriptorKept

\* The ranges that the runs check.
LEMMA UltraRanges ==
  ASSUME UltraTypes, TransferInv
  PROVE  UltraTypeOK
  <1>1. fileTransfer.fd \in SharedFiles => fileTransfer.pos \in 0 .. Blocks[fileTransfer.fd]
    BY UltraAssumption DEF UltraTypes, Transfers, TransferInv, Descriptor
  <1>2. fileTransfer.fd \in SharedFiles \cup {"upload", Closed}
    BY DEF UltraTypes, Transfers
  <1>3. viewer.file \in SharedFiles /\ viewer.sent \in 0 .. OfferBlocks
    BY DEF UltraTypes
  <1> QED BY <1>1, <1>2, <1>3 DEF UltraTypes, TransferInv, Descriptor, UltraTypeOK

(* The state of a transfer stays in its ranges: only a download is read    *)
(* from, and never past its end.                                           *)
THEOREM UltraTyped == UltraSpec => []UltraTypeOK
  BY TransfersInvariant, UltraRanges, PTL

\* Every step is one of the copy, or none that it sees.
LEMMA CopySteps ==
  ASSUME UltraTypes, TransferInv, [UltraNext]_ultraVars
  PROVE  [Copy!CopyNext]_(Copy!copyVars)
  <1>1. SUFFICES ASSUME viewer' # viewer
                 PROVE  Copy!CopyNext \/ UNCHANGED <<viewer.file, viewer.got, viewer.result>>
    BY DEF Copy!copyVars
  <1>2. Viewer
    BY <1>1 DEF UltraNext, Server, Receive, Chunk, WriteRest, Update, Permit, Disconnect, ultraVars
  <1>3. viewer.step \in {"header", "receiving"} <=> viewer.result = "copying"
    BY DEF TransferInv, Steady
  <1>4. ASSUME NEW file \in SharedFiles, Download(file) PROVE Copy!CopyNext
    <2>1. viewer.result # "copying"
      BY <1>3, <1>4 DEF Download, BeginTransfer
    <2>2. viewer'.file = file /\ viewer'.got = <<>> /\ viewer'.result = "copying"
      BY <1>4 DEF Download
    <2>3. Copy!Begin(file)
      BY <2>1, <2>2 DEF Copy!Begin
    <2> QED BY <2>3 DEF Copy!CopyNext
  <1>5. CASE Offer
    BY <1>5 DEF Offer, UltraTypes
  <1>6. CASE AskPermission
    BY <1>1, <1>6 DEF AskPermission
  <1>7. CASE UploadBlock
    BY <1>7 DEF UploadBlock, UltraTypes
  <1>8. CASE Abort
    <2>1. viewer'.file = viewer.file /\ viewer'.got = viewer.got
          /\ viewer'.result = IF viewer.step = "receiving" THEN "failed" ELSE viewer.result
      BY <1>8 DEF Abort, UltraTypes
    <2>2. CASE viewer.step = "receiving"
      <3>1. Copy!Fail
        BY <1>3, <2>1, <2>2 DEF Copy!Fail
      <3> QED BY <3>1 DEF Copy!CopyNext
    <2> QED BY <2>1, <2>2
  <1>9. CASE ViewerReceive
    <2> DEFINE m == Head(toViewer)
    <2>1. /\ Expected(m) /\ OnMessage(m) /\ toViewer # <<>> /\ toViewer' = Tail(toViewer)
          /\ UNCHANGED <<connected, fileTransfer>>
      BY <1>1, <1>9 DEF ViewerReceive, ServerUnchanged
    <2>2. CASE m.type = "FileHeader"
      <3>1. viewer.step = "header"
        BY <2>1, <2>2 DEF Expected
      <3>2. \/ viewer' = [viewer EXCEPT !.step = "receiving"]
            \/ viewer' = [viewer EXCEPT !.step = "idle", !.result = "failed"]
        BY <2>1, <2>2 DEF OnMessage
      <3>3. CASE viewer' = [viewer EXCEPT !.step = "receiving"]
        BY <3>3 DEF UltraTypes
      <3>4. CASE viewer' = [viewer EXCEPT !.step = "idle", !.result = "failed"]
        <4>1. viewer'.file = viewer.file /\ viewer'.got = viewer.got /\ viewer'.result = "failed"
          BY <3>4 DEF UltraTypes
        <4>2. Copy!Fail
          BY <1>3, <3>1, <4>1 DEF Copy!Fail
        <4> QED BY <4>2 DEF Copy!CopyNext
      <3> QED BY <3>2, <3>3, <3>4
    <2>3. CASE m.type = "FilePacket"
      <3>1. viewer.step = "receiving"
        BY <2>1, <2>3 DEF Expected
      <3>2. viewer' = [viewer EXCEPT !.got = Append(@, m.arg)] /\ toServer' = toServer
        BY <2>1, <2>3 DEF OnMessage
      <3>3. m.arg = <<viewer.file, Len(viewer.got) + 1>> /\ Len(viewer.got) < Blocks[viewer.file]
        BY <2>1, <2>3, <3>1, <3>2, BlockStage
      <3>4. viewer'.file = viewer.file /\ viewer'.result = viewer.result
            /\ viewer'.got = Append(viewer.got, m.arg)
        BY <3>2 DEF UltraTypes
      <3>5. Copy!Block
        BY <1>3, <3>1, <3>3, <3>4 DEF Copy!Block
      <3> QED BY <3>5 DEF Copy!CopyNext
    <2>4. CASE m.type \in Finals
      <3>1. viewer.step = "receiving"
        BY <2>1, <2>4 DEF Expected, Finals
      <3>2. viewer' = [viewer EXCEPT !.step = "idle", !.result =
                          IF m.type = "EndOfFile" THEN "complete" ELSE "failed"] /\ toServer' = toServer
        BY <2>1, <2>4 DEF OnMessage, Finals
      <3>3. m.type = "EndOfFile" => Len(viewer.got) = Blocks[viewer.file]
        BY <2>1, <2>4, <3>1, <3>2, EndStage
      <3>4. viewer'.file = viewer.file /\ viewer'.got = viewer.got
            /\ viewer'.result = IF m.type = "EndOfFile" THEN "complete" ELSE "failed"
        BY <3>2 DEF UltraTypes
      <3>5. Copy!Complete \/ Copy!Fail
        BY <1>3, <3>1, <3>3, <3>4 DEF Copy!Complete, Copy!Fail
      <3> QED BY <3>5 DEF Copy!CopyNext
    <2>5. CASE m.type = "FileAcceptHeader"
      <3>1. viewer' = [viewer EXCEPT !.step = IF m.arg = "ok" THEN "uploading" ELSE "idle"]
        BY <2>1, <2>5 DEF OnMessage, Finals
      <3> QED BY <3>1 DEF UltraTypes
    <2> QED BY <2>1, <2>2, <2>3, <2>4, <2>5 DEF Expected, Finals
  <1> QED BY <1>2, <1>4, <1>5, <1>6, <1>7, <1>8, <1>9 DEF Viewer

(* A download gives the viewer a copy of the file it asked for, block by   *)
(* block (rfbSendFileTransferChunk), and calls it complete only when it    *)
(* has them all.                                                           *)
THEOREM DownloadsCopy == UltraSpec => DownloadCopies
  <1>1. UltraInit => Copy!CopyInit
    BY DEF UltraInit, Copy!CopyInit
  <1> QED BY <1>1, CopySteps, TransfersInvariant, PTL DEF UltraSpec, DownloadCopies, Copy!CopySpec

(* A behaviour of either transfer, with the other one at rest, is one of   *)
(* its specification: both type invariants hold in it.                     *)
THEOREM BothTyped == MCSpec => []MCTypeOK
  <1>1. MCInit => TightInit /\ UltraInit
    BY DEF MCInit
  <1>2. [MCNext]_mcVars => [TightNext]_tightVars
    BY DEF MCNext, mcVars
  <1>3. [MCNext]_mcVars => [UltraNext]_ultraVars
    BY DEF MCNext, mcVars
  <1>4. MCTypeOK <=> TightTypeOK /\ UltraTypeOK
    BY DEF MCTypeOK
  <1> QED BY <1>1, <1>2, <1>3, <1>4, TightTyped, UltraTyped, PTL DEF MCSpec, TightSpec, UltraSpec

===============================================================================
