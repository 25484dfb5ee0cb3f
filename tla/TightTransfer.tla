---------------------------- MODULE TightTransfer ----------------------------
(***************************************************************************)
(* The TightVNC file transfer extension                                    *)
(* (libvncserver/tightvnc-filetransfer): a client downloads a file at a    *)
(* time, through a thread that reads and sends its blocks                  *)
(* (RunFileDownloadThread), and uploads one, through the handlers of its   *)
(* messages.  The handlers of a client run in the thread that serves it:   *)
(* its own one, or the one of the event loop, which serves all.            *)
(*                                                                         *)
(* fileDownloadMutex is one for the process.  A thread takes it for the    *)
(* time of one read, in which nothing else of the model can tell where it  *)
(* stands, so that only the handler of a cancel is seen to hold it.        *)
(* rfbTightExtensionClientClose frees the data that a thread may still     *)
(* use: what such a thread then does is undefined, and not followed.       *)
(***************************************************************************)
EXTENDS Integers, Sequences

CONSTANTS
    Clients,
    Files,          \* what clients download
    Size,           \* the blocks of each
    Uploads,        \* what a client uploads: no two clients the same file
    OwnThreads,     \* TRUE: rfbRunEventLoop in the background
    MaxDownloads,   \* bound: downloads begun by all clients
    None

ASSUME TightAssumption ==
    /\ \A f \in Files : Size[f] \in Nat
    /\ OwnThreads \in BOOLEAN
    /\ MaxDownloads \in Nat
    /\ None \notin Files \cup Uploads \cup Clients

VARIABLES
    alive,              \* the clients whose data has not been freed
    handler,            \* the call of CloseUndoneFileDownload under way
    fileDownloadMutex,  \* the client whose handler holds it, or None
    dl,                 \* rtcp->rcft.rcfd
    threads,            \* the download threads of each client, oldest first
    sent,               \* what they sent for the last request that got one
    crossed,            \* a stray thread was running when the last one came
    up,                 \* rtcp->rcft.rcfu
    overtaken,          \* history: files whose upload another request overtook
    disk,               \* the files that clients upload
    downloads           \* downloads begun

downloadVars == <<handler, fileDownloadMutex, dl, threads, sent, crossed, downloads>>
uploadVars == <<up, disk, overtaken>>
tightVars == <<alive, downloadVars, uploadVars>>

Idle == [op |-> "none", pc |-> "idle", file |-> None]
NoUpload == [name |-> None, fd |-> None, inProgress |-> FALSE]

TightInit ==
    /\ alive = Clients
    /\ handler = [c \in Clients |-> Idle]
    /\ fileDownloadMutex = None
    /\ dl = [c \in Clients |->
               [name |-> None, fd |-> None, pos |-> 0, inProgress |-> FALSE, thread |-> 0]]
    /\ threads = [c \in Clients |-> <<>>]
    /\ sent = [c \in Clients |-> <<>>]
    /\ crossed = [c \in Clients |-> FALSE]
    /\ up = [c \in Clients |-> NoUpload]
    /\ disk = [c \in Clients |-> [u \in Uploads |-> "absent"]]
    /\ overtaken = [c \in Clients |-> {}]
    /\ downloads = 0

(* A message of the client is handled when its thread waits for one.       *)
Handles(c) ==
    /\ c \in alive
    /\ \A d \in IF OwnThreads THEN {c} ELSE Clients : handler[d] = Idle

(*---------------------------- Download threads ----------------------------*)

Running(c, i) == threads[c][i].pc # "ended"

Message(kind, file, n) == [kind |-> kind, file |-> file, n |-> n]
EndMessage == Message("end", None, 0)
FailedMessage == Message("failed", None, 0)

Step(c, i, pc, msg) == threads' = [threads EXCEPT ![c][i] = [pc |-> pc, msg |-> msg]]

(* The next block of a file that is open: GetFileDownloadResponseMsgInBlocks *)
(* closes it at its end, and when a read fails.                              *)
ReadBlock(c, i, file, pos) ==
    \/ /\ pos < Size[file]
       /\ dl' = [dl EXCEPT ![c].fd = file, ![c].pos = pos + 1, ![c].inProgress = TRUE]
       /\ Step(c, i, "send", Message("block", file, pos + 1))
    \/ \E msg \in {FailedMessage} \cup (IF pos = Size[file] THEN {EndMessage} ELSE {}) :
         /\ dl' = [dl EXCEPT ![c].fd = None, ![c].inProgress = FALSE]
         /\ Step(c, i, "send", msg)

(* GetFileDownloadResponseMsgInBlocks, under the mutex.                    *)
Read(c, i) ==
    /\ threads[c][i].pc = "read"
    /\ fileDownloadMutex = None
    /\ LET d == dl[c] IN
         \/ /\ ~d.inProgress /\ d.fd = None /\ d.name # None
            /\ ReadBlock(c, i, d.name, 0)
         \/ /\ d.inProgress /\ d.fd # None
            /\ ReadBlock(c, i, d.fd, d.pos)
         \/ /\ ~d.inProgress \/ d.fd = None
            /\ Step(c, i, "send", FailedMessage)
            /\ UNCHANGED dl
    /\ UNCHANGED <<handler, fileDownloadMutex, sent, crossed, downloads>>

(* rfbWriteExact of the message under sendMutex.                           *)
Send(c, i) ==
    /\ threads[c][i].pc = "send"
    /\ \/ /\ sent' = IF crossed[c] THEN sent
                     ELSE [sent EXCEPT ![c] = Append(@, threads[c][i].msg)]
          /\ Step(c, i, "check", EndMessage)
       \/ Step(c, i, "ended", EndMessage) /\ UNCHANGED sent    \* it failed
    /\ UNCHANGED <<handler, fileDownloadMutex, dl, crossed, downloads>>

(* The condition of the loop, which no lock protects.                      *)
Check(c, i) ==
    /\ threads[c][i].pc = "check"
    /\ Step(c, i, IF dl[c].inProgress THEN "read" ELSE "ended", EndMessage)
    /\ UNCHANGED <<handler, fileDownloadMutex, dl, sent, crossed, downloads>>

Thread(c) ==
    /\ \E i \in DOMAIN threads[c] : Read(c, i) \/ Send(c, i) \/ Check(c, i)
    /\ c \in alive
    /\ UNCHANGED <<alive, uploadVars>>

(*--------------------------- Download requests ----------------------------*)

(* A thread that has not opened its file yet, or has closed it and not     *)
(* looked at downloadInProgress since, is out of the reach of              *)
(* CloseUndoneFileDownload.                                                *)
Stray(c) == \E i \in DOMAIN threads[c] :
                Running(c, i) /\ (dl[c].inProgress \/ handler[c].pc = "join" => i # dl[c].thread)

(* HandleFileDownloadRequest: the name of a file that is missing or too    *)
(* long is refused, and that of an empty file answered, after it has been  *)
(* stored.                                                                 *)
Request(c, file) ==
    /\ Handles(c) /\ downloads < MaxDownloads
    /\ downloads' = downloads + 1
    /\ dl' = [dl EXCEPT ![c].name = file]
    /\ crossed' = [crossed EXCEPT ![c] = @ \/ Stray(c)]
    /\ \/ UNCHANGED handler
       \/ /\ Size[file] > 0
          /\ handler' = [handler EXCEPT ![c] = [op |-> "request", pc |-> "undo", file |-> file]]
    /\ UNCHANGED <<alive, fileDownloadMutex, threads, sent, uploadVars>>

(* HandleFileDownloadCancelRequest.                                        *)
Cancel(c) ==
    /\ Handles(c) /\ threads[c] # <<>>
    /\ fileDownloadMutex = None
    /\ fileDownloadMutex' = c
    /\ handler' = [handler EXCEPT ![c] = [op |-> "cancel", pc |-> "undo", file |-> None]]
    /\ UNCHANGED <<alive, dl, threads, sent, crossed, downloads, uploadVars>>

\* Mutant of Return: the mutex of a cancel stays locked.
MutantReturn(c) ==
    LET op == handler[c].op IN
    /\ handler' = [handler EXCEPT ![c] = IF op = "request" THEN [@ EXCEPT !.pc = "create"]
                                         ELSE Idle]
    /\ alive' = IF op = "close" THEN alive \ {c} ELSE alive
    /\ IF op # "request" THEN UNCHANGED <<sent, crossed>>
       ELSE /\ sent' = [sent EXCEPT ![c] = <<Message("request", handler[c].file, 0)>>]
            /\ crossed' = [crossed EXCEPT ![c] = Stray(c)]
    /\ UNCHANGED fileDownloadMutex

(* What the caller of CloseUndoneFileDownload does next.  A request begins *)
(* a new log: the thread that was joined is not in it.                     *)
Return(c) ==
    LET op == handler[c].op IN
    /\ handler' = [handler EXCEPT ![c] = IF op = "request" THEN [@ EXCEPT !.pc = "create"]
                                         ELSE Idle]
    /\ fileDownloadMutex' = IF op = "cancel" THEN None ELSE fileDownloadMutex
    /\ alive' = IF op = "close" THEN alive \ {c} ELSE alive
    /\ IF op # "request" THEN UNCHANGED <<sent, crossed>>
       ELSE /\ sent' = [sent EXCEPT ![c] = <<Message("request", handler[c].file, 0)>>]
            /\ crossed' = [crossed EXCEPT ![c] = Stray(c)]

(* CloseUndoneFileDownload, up to pthread_join.                            *)
Undo(c) ==
    /\ handler[c].pc = "undo"
    /\ IF dl[c].inProgress
       THEN /\ dl' = [dl EXCEPT ![c].inProgress = FALSE]
            /\ handler' = [handler EXCEPT ![c].pc = "join"]
            /\ UNCHANGED <<alive, fileDownloadMutex, sent, crossed>>
       ELSE Return(c) /\ UNCHANGED dl
    /\ UNCHANGED <<threads, downloads, uploadVars>>

\* Mutant of Join: the thread is told to end, and not waited for.
MutantJoin(c) ==
    /\ handler[c].pc = "join"
    /\ dl' = [dl EXCEPT ![c].fd = None, ![c].name = None]
    /\ Return(c)
    /\ UNCHANGED <<threads, downloads, uploadVars>>

(* ... and the rest of it.                                                 *)
Join(c) ==
    /\ handler[c].pc = "join"
    /\ ~Running(c, dl[c].thread)
    /\ dl' = [dl EXCEPT ![c].fd = None, ![c].name = None]
    /\ Return(c)
    /\ UNCHANGED <<threads, downloads, uploadVars>>

(* pthread_create, at the end of HandleFileDownload.                       *)
Create(c) ==
    /\ handler[c].pc = "create"
    /\ \/ /\ threads' = [threads EXCEPT ![c] = Append(@, [pc |-> "read", msg |-> EndMessage])]
          /\ dl' = [dl EXCEPT ![c].thread = Len(threads[c]) + 1]
       \/ UNCHANGED <<threads, dl>>                            \* it failed
    /\ handler' = [handler EXCEPT ![c] = Idle]
    /\ UNCHANGED <<alive, fileDownloadMutex, sent, crossed, downloads, uploadVars>>

(*--------------------------------- Uploads --------------------------------*)

\* Mutant of CloseUndoneFileUpload: the name is cleared before the file is deleted.
MutantCloseUndone(c) ==
    IF up[c].inProgress THEN up' = [up EXCEPT ![c] = NoUpload] /\ UNCHANGED disk
    ELSE UNCHANGED <<disk, up>>

(* CloseUndoneFileUpload.                                                  *)
CloseUndoneFileUpload(c) ==
    IF up[c].inProgress
    THEN /\ disk' = IF up[c].name = None THEN disk
                    ELSE [disk EXCEPT ![c][up[c].name] = "absent"]
         /\ up' = [up EXCEPT ![c] = NoUpload]
    ELSE UNCHANGED <<disk, up>>

(* HandleFileUploadRequest: whatever upload is under way, its descriptor   *)
(* and its name are overwritten.  creat truncates a file that is there, or *)
(* fails.  A path that is too long, or not read to its end, is stored, and *)
(* the handler returns.                                                    *)
Upload(c, u) ==
    /\ Handles(c)
    /\ \/ /\ up' = [up EXCEPT ![c] = [name |-> u, fd |-> u, inProgress |-> TRUE]]
          /\ disk' = [disk EXCEPT ![c][u] = "partial"]
          /\ overtaken' = [overtaken EXCEPT ![c] = (@ \cup {up[c].fd}) \ {u, None}]
       \/ /\ \/ up' = [up EXCEPT ![c] = [NoUpload EXCEPT !.name = u]]
             \/ up' = [up EXCEPT ![c].name = None]
          /\ overtaken' = [overtaken EXCEPT ![c] = (@ \cup {up[c].fd}) \ {None}]
          /\ UNCHANGED disk
    /\ UNCHANGED <<alive, downloadVars>>

(* HandleFileUploadDataRequest: a write that fails or is short, and data   *)
(* that is compressed, end the upload.                                     *)
UploadData(c) ==
    /\ Handles(c)
    /\ \/ up[c].fd # None /\ UNCHANGED <<disk, up>>
       \/ CloseUndoneFileUpload(c)
    /\ UNCHANGED <<alive, downloadVars, overtaken>>

(* FileUpdateComplete, on data of no size.                                 *)
UploadEnd(c) ==
    /\ Handles(c) /\ up[c].fd # None
    /\ disk' = [disk EXCEPT ![c][up[c].fd] = "complete"]
    /\ up' = [up EXCEPT ![c].fd = None, ![c].inProgress = FALSE]
    /\ UNCHANGED <<alive, downloadVars, overtaken>>

(* HandleFileUploadFailedRequest: one that gives no reason is ignored.     *)
UploadFailed(c, reasonLen) ==
    /\ Handles(c)
    /\ IF reasonLen = 0 THEN UNCHANGED <<disk, up>> ELSE CloseUndoneFileUpload(c)
    /\ UNCHANGED <<alive, downloadVars, overtaken>>

(* rfbTightExtensionClientClose, called by rfbClientConnectionGone.        *)
Close(c) ==
    /\ Handles(c)
    /\ CloseUndoneFileUpload(c)
    /\ handler' = [handler EXCEPT ![c] = [op |-> "close", pc |-> "undo", file |-> None]]
    /\ UNCHANGED <<alive, fileDownloadMutex, dl, threads, sent, crossed, downloads, overtaken>>

Handler(c) == Undo(c) \/ Join(c) \/ Create(c)

TightNext ==
    \E c \in Clients :
        \/ Thread(c)
        \/ Handler(c)
        \/ \E file \in Files : Request(c, file)
        \/ Cancel(c)
        \/ \E u \in Uploads : Upload(c, u)
        \/ UploadData(c)
        \/ UploadEnd(c)
        \/ \E reasonLen \in {0, 1} : UploadFailed(c, reasonLen)
        \/ Close(c)

TightSpec == TightInit /\ [][TightNext]_tightVars

(* The threads are scheduled, and a write ends or fails.                   *)
TightFairSpec ==
    TightSpec /\ \A c \in Clients : WF_tightVars(Thread(c)) /\ WF_tightVars(Handler(c))

-------------------------------------------------------------------------------

Messages == {EndMessage, FailedMessage}
            \cup UNION {{Message("block", f, n) : n \in 1 .. Size[f]} : f \in Files}

(* The ranges of the state, and the handler that holds the mutex is that   *)
(* of a cancel (HandleFileDownloadCancelRequest).                          *)
TightTypeOK ==
    /\ alive \subseteq Clients
    /\ \A c \in Clients :
         /\ handler[c] = Idle \/ c \in alive
         /\ handler[c].op = "cancel" <=> fileDownloadMutex = c
         /\ handler[c].pc \in {"idle", "undo", "join", "create"}
         /\ dl[c].name \in Files \cup {None} /\ dl[c].fd \in Files \cup {None}
         /\ dl[c].thread \in 0 .. Len(threads[c])
         /\ \A i \in DOMAIN threads[c] :
              /\ threads[c][i].pc \in {"read", "send", "check", "ended"}
              /\ threads[c][i].msg \in Messages
         /\ up[c].inProgress <=> up[c].fd # None
         /\ up[c].inProgress => up[c].name \in {up[c].fd, None} /\ c \in alive
    /\ downloads \in 0 .. MaxDownloads

(* What the threads of a client send for a request are the blocks of the   *)
(* file asked for, in order, and then the end or a failure, whatever the   *)
(* handlers of cancels and of later requests do to the state they share    *)
(* (CloseUndoneFileDownload joins the thread), unless a stray thread was   *)
(* running when the request came.                                          *)
DownloadInOrder ==
    \A c \in Clients : ~crossed[c] =>
        \A i \in 2 .. Len(sent[c]) :
            LET msg == sent[c][i] file == sent[c][1].file IN
            /\ msg.kind = "block" => msg.n = i - 1 /\ msg.file = file
            /\ msg.kind = "end" => i = Size[file] + 2
            /\ msg.kind # "block" => i = Len(sent[c])

(* A file that an upload has begun and not completed is the one that the   *)
(* record of its client names, so that CloseUndoneFileUpload will delete   *)
(* it: nothing half written stays behind an error or a client.  But for    *)
(* the file of an upload that was under way when the client asked for      *)
(* another one: HandleFileUpload forgets it.                               *)
UploadWhole ==
    \A c \in Clients, u \in Uploads :
        disk[c][u] = "partial" =>
            \/ c \in alive /\ up[c] = [name |-> u, fd |-> u, inProgress |-> TRUE]
            \/ u \in overtaken[c]

(* The same without the exception, which HandleFileUpload does not keep:   *)
(* MCFileTransfer_overtaken.cfg.                                           *)
NoHalfUpload ==
    \A c \in Clients, u \in Uploads :
        disk[c][u] = "partial" => c \in alive /\ up[c].fd = u

(* "the thread will return if downloadInProgress is FALSE": the handler of *)
(* a cancel, which waits for that, ends.                                   *)
CancelEnds ==
    \A c \in Clients : handler[c].op = "cancel" ~> handler[c].op # "cancel"

===============================================================================
