----------------------------- MODULE FileServer -----------------------------
(***************************************************************************)
(* Asn2b/file_server.c: the parent receives a request, forks a child for   *)
(* it and goes on; the child answers with the pieces of the file or with a *)
(* 404 message, writes the log and exits; SIGCHLD makes the parent collect *)
(* dead children.                                                          *)
(*                                                                         *)
(* The socket buffers are shared with the clients: queue holds requests    *)
(* the parent has not received, mailbox what the bound client socket has   *)
(* not read.  UDP over the loopback drops a datagram when the buffer is    *)
(* full or no socket is bound.  Which bytes are in a piece is the subject  *)
(* of SendFile; here a piece is a number.  writelog takes the file lock    *)
(* and gives it back around one write, so it is one step; opening the log  *)
(* takes no lock and is a step of its own.                                 *)
(***************************************************************************)
EXTENDS Integers, Sequences

CONSTANTS Session,  \* runs of the client, numbered in order of their start
          Kid,      \* child processes, numbered in order of their fork
          File,     \* names a client may ask for
          Pieces,   \* how many datagrams each file takes, 0 when it is missing
          Unreadable, \* names that open and whose reading fails after their
                      \* pieces, without reaching an end (a directory)
          LineLen,  \* bytes of a line of the log, for each file and flag
          QueueLen  \* datagrams a socket buffer holds

ASSUME ServerAssumption ==
  /\ Session \subseteq Nat \ {0}
  /\ Kid \subseteq Nat
  /\ Pieces \in [File -> Nat]
  /\ Unreadable \subseteq File
  /\ LineLen \in [File -> [0 .. 2 -> Nat \ {0}]]
  /\ QueueLen \in Nat \ {0}

VARIABLES
  queue,      \* requests in the socket buffer of the server
  buffer,     \* the request the parent received last (buffer, si_client)
  parent,     \* "recv" before recvfrom, "fork" after it
  kid,        \* the children
  sigchld,    \* 1 while a SIGCHLD is pending for the parent
  handling,   \* is the parent inside kidhandler
  coalesced,  \* SIGCHLDs that found one pending already (history)
  log,        \* the bytes of log.txt
  bound,      \* the session whose socket is bound to the client port, or 0
  mailbox     \* datagrams in the socket buffer of that session

parentVars == <<buffer, parent, handling>>
serverVars == <<parentVars, kid, sigchld, coalesced, log>>
sockets == <<queue, bound, mailbox>>

Request == [from : Session, name : File]
NoRequest == [from |-> 0, name |-> "none"]

\* What a child sends: piece n of an answer, piece 0 being the 404 message
\* and Blank a chunk with nothing in it.
Blank == -1
Datagram == [req : Request, piece : Nat \cup {Blank}]

\* A byte of log.txt is named by the line it is of; Hole is a zero byte nobody
\* wrote.
Line == [req : Request \cup {NoRequest}, flag : 0 .. 2]
Hole == [req |-> NoRequest, flag |-> 0]

KidState == [pc   : {"none", "open", "send", "log", "exit", "zombie", "gone"},
             req  : Request \cup {NoRequest},
             sent : Nat,     \* pieces sent
             off  : Nat,     \* its position in the log
             flag : 0 .. 2]  \* 0 success, 1 not found, 2 not completed

ServerInit ==
  /\ queue = <<>>
  /\ buffer = NoRequest
  /\ parent = "recv"
  /\ kid = [c \in Kid |-> [pc |-> "none", req |-> NoRequest, sent |-> 0,
                           off |-> 0, flag |-> 0]]
  /\ sigchld = 0
  /\ handling = FALSE
  /\ coalesced = 0
  /\ log = <<>>

\* fopen finds nothing under this name.
Missing(f) == Pieces[f] = 0 /\ f \notin Unreadable

Zombies == {c \in Kid : kid[c].pc = "zombie"}
-----------------------------------------------------------------------------
(* The parent.  While kidhandler runs, its loop stands still.              *)

Receive ==
  /\ parent = "recv" /\ ~ handling
  /\ queue # <<>>
  /\ buffer' = Head(queue)
  /\ queue' = Tail(queue)
  /\ parent' = "fork"
  /\ UNCHANGED <<handling, kid, sigchld, coalesced, log, bound, mailbox>>

\* Faulty: the parent forks again without receiving again.
ForkAgain(c) ==
  /\ parent = "fork" /\ ~ handling
  /\ kid[c].pc = "none" /\ \A d \in Kid : d < c => kid[d].pc # "none"
  /\ kid' = [kid EXCEPT ![c].pc = "open", ![c].req = buffer]
  /\ UNCHANGED <<parent, buffer, handling, sigchld, coalesced, log, sockets>>

\* The child starts with a copy of the parent's buffer.
Fork(c) ==
  /\ parent = "fork" /\ ~ handling
  /\ kid[c].pc = "none" /\ \A d \in Kid : d < c => kid[d].pc # "none"
  /\ kid' = [kid EXCEPT ![c].pc = "open", ![c].req = buffer]
  /\ parent' = "recv"
  /\ UNCHANGED <<buffer, handling, sigchld, coalesced, log, sockets>>

\* fork() returns -1: the request is dropped.
ForkFails ==
  /\ parent = "fork" /\ ~ handling
  /\ parent' = "recv"
  /\ UNCHANGED <<buffer, handling, kid, sigchld, coalesced, log, sockets>>

\* The pending SIGCHLD is delivered; it stays blocked in its handler.
EnterHandler ==
  /\ sigchld = 1 /\ ~ handling
  /\ sigchld' = 0
  /\ handling' = TRUE
  /\ UNCHANGED <<buffer, parent, kid, coalesced, log, sockets>>

\* Faulty: the handler does not wait for the child.
kidhandlerIdle ==
  /\ handling
  /\ handling' = FALSE
  /\ UNCHANGED <<buffer, parent, kid, sigchld, coalesced, log, sockets>>

\* waitpid(WAIT_ANY, NULL, WNOHANG), once, and back to the loop.
kidhandler ==
  /\ handling
  /\ IF Zombies = {}
       THEN UNCHANGED kid
       ELSE \E c \in Zombies : kid' = [kid EXCEPT ![c].pc = "gone"]
  /\ handling' = FALSE
  /\ UNCHANGED <<buffer, parent, sigchld, coalesced, log, sockets>>
-----------------------------------------------------------------------------
(* A child.                                                                *)

\* Opening the log for writing empties it.
Open(c) ==
  /\ kid[c].pc = "open"
  /\ kid' = [kid EXCEPT ![c].pc = "send"]
  /\ log' = <<>>
  /\ UNCHANGED <<parentVars, sigchld, coalesced, sockets>>

\* The log cannot be opened: the child exits without an answer.
OpenFails(c) ==
  /\ kid[c].pc = "open"
  /\ kid' = [kid EXCEPT ![c].pc = "exit"]
  /\ UNCHANGED <<parentVars, sigchld, coalesced, log, sockets>>

\* sendto the client port.
Transmit(d) ==
  mailbox' = IF bound # 0 /\ Len(mailbox) < QueueLen THEN Append(mailbox, d)
                                                     ELSE mailbox

\* Are all pieces of the file sent and its end reached (feof).
AtEnd(f, sent) == sent = Pieces[f] /\ f \notin Unreadable

\* Faulty: the file is sent from its end.
SendPieceBackwards(c) ==
  /\ kid[c].pc = "send" /\ kid[c].sent < Pieces[kid[c].req.name]
  /\ Transmit([req |-> kid[c].req,
               piece |-> Pieces[kid[c].req.name] - kid[c].sent])
  /\ kid' = [kid EXCEPT ![c].sent = @ + 1,
                        ![c].pc = IF AtEnd(kid[c].req.name, kid[c].sent + 1)
                                    THEN "log" ELSE "send"]
  /\ UNCHANGED <<parentVars, sigchld, coalesced, log, queue, bound>>

\* The next piece goes out; after the last one the log is written.
SendPiece(c) ==
  /\ kid[c].pc = "send" /\ kid[c].sent < Pieces[kid[c].req.name]
  /\ Transmit([req |-> kid[c].req, piece |-> kid[c].sent + 1])
  /\ kid' = [kid EXCEPT ![c].sent = @ + 1,
                        ![c].pc = IF AtEnd(kid[c].req.name, kid[c].sent + 1)
                                    THEN "log" ELSE "send"]
  /\ UNCHANGED <<parentVars, sigchld, coalesced, log, queue, bound>>

\* fgetc fails and the end of the file is not reached: an empty chunk goes
\* out, and the loop goes round.
SendBlank(c) ==
  /\ kid[c].pc = "send" /\ kid[c].req.name \in Unreadable
  /\ kid[c].sent = Pieces[kid[c].req.name]
  /\ Transmit([req |-> kid[c].req, piece |-> Blank])
  /\ UNCHANGED <<kid, parentVars, sigchld, coalesced, log, queue, bound>>

\* sendto returns -1: the transmission is given up.
SendFails(c) ==
  /\ kid[c].pc = "send" /\ ~ Missing(kid[c].req.name)
  /\ kid' = [kid EXCEPT ![c].pc = "log", ![c].flag = 2]
  /\ UNCHANGED <<parentVars, sigchld, coalesced, log, sockets>>

\* Faulty: the child does not leave its loop after the 404 message.
SendNotFoundForEver(c) ==
  /\ kid[c].pc = "send" /\ Missing(kid[c].req.name)
  /\ Transmit([req |-> kid[c].req, piece |-> 0])
  /\ UNCHANGED <<kid, parentVars, sigchld, coalesced, log, queue, bound>>

\* The file is missing: the client is told, whether or not sendto succeeds.
SendNotFound(c) ==
  /\ kid[c].pc = "send" /\ Missing(kid[c].req.name)
  /\ \/ Transmit([req |-> kid[c].req, piece |-> 0])
     \/ UNCHANGED mailbox
  /\ kid' = [kid EXCEPT ![c].pc = "log", ![c].flag = 1]
  /\ UNCHANGED <<parentVars, sigchld, coalesced, log, queue, bound>>

\* The log after the bytes of a line are written at position off: they cover
\* what was there, and what others wrote after them stays.
Written(off, line) ==
  LET end == off + LineLen[line.req.name][line.flag]
  IN  [n \in 1 .. (IF end < Len(log) THEN Len(log) ELSE end) |->
         IF off < n /\ n <= end THEN line ELSE IF n <= Len(log) THEN log[n] ELSE Hole]

\* Faulty: a failed transmission is logged without end.
writelogAgain(c) ==
  /\ kid[c].pc = "log"
  /\ log' = Written(kid[c].off, [req |-> kid[c].req, flag |-> kid[c].flag])
  /\ kid' = [kid EXCEPT ![c].off = @ + LineLen[kid[c].req.name][kid[c].flag],
                        ![c].pc = IF kid[c].flag = 2 THEN "log" ELSE "exit"]
  /\ UNCHANGED <<parentVars, sigchld, coalesced, sockets>>

\* A failed transmission is logged, and then logged as a success.
writelog(c) ==
  /\ kid[c].pc = "log"
  /\ log' = Written(kid[c].off, [req |-> kid[c].req, flag |-> kid[c].flag])
  /\ kid' = [kid EXCEPT ![c].off = @ + LineLen[kid[c].req.name][kid[c].flag],
                        ![c].flag = IF @ = 2 THEN 0 ELSE @,
                        ![c].pc = IF kid[c].flag = 2 THEN "log" ELSE "exit"]
  /\ UNCHANGED <<parentVars, sigchld, coalesced, sockets>>

\* The child dies; a SIGCHLD that is pending already is not queued again.
Exit(c) ==
  /\ kid[c].pc = "exit"
  /\ kid' = [kid EXCEPT ![c].pc = "zombie"]
  /\ sigchld' = 1
  /\ coalesced' = coalesced + sigchld
  /\ UNCHANGED <<parentVars, log, sockets>>

ParentStep == Receive \/ (\E c \in Kid : Fork(c)) \/ ForkFails
Handler == EnterHandler \/ kidhandler
KidWorks(c) == \/ Open(c) \/ SendPiece(c) \/ SendBlank(c) \/ SendNotFound(c)
               \/ writelog(c) \/ Exit(c)
KidStep(c) == KidWorks(c) \/ OpenFails(c) \/ SendFails(c)

ServerNext == ParentStep \/ Handler \/ \E c \in Kid : KidStep(c)
-----------------------------------------------------------------------------
TypeOK ==
  /\ queue \in Seq(Request)
  /\ buffer \in Request \cup {NoRequest}
  /\ parent \in {"recv", "fork"}
  /\ kid \in [Kid -> KidState]
  /\ sigchld \in {0, 1}
  /\ handling \in BOOLEAN
  /\ coalesced \in Nat
  /\ log \in Seq(Line)
  /\ bound \in Session \cup {0}
  /\ mailbox \in Seq(Datagram)
=============================================================================
