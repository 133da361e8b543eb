----------------------------- MODULE FileClient -----------------------------
(***************************************************************************)
(* Asn2b/file_client.c, run again and again on the machine of the server:  *)
(* ip_aton returns 0 for every address, so a client reaches only its own   *)
(* machine, and every run binds the same port, that of the server plus 1.  *)
(* A run sends one request and prints whatever arrives at its port until   *)
(* nothing arrives for five seconds.                                       *)
(***************************************************************************)
EXTENDS Integers, Sequences

CONSTANTS Session, File, QueueLen

VARIABLES
  queue, bound, mailbox,  \* the socket buffers, see FileServer
  client,                 \* where each run of the client is
  asked,                  \* the name each run asks for
  printed                 \* what each run has printed, a datagram at a time

NotFoundExpected == "404 Not Found!"  \* file_client.c compares with this
NotFoundSent     == "404 Not found!"  \* file_server.c sends this

ClientInit ==
  /\ bound = 0
  /\ mailbox = <<>>
  /\ client = [s \in Session |-> "new"]
  /\ asked \in [Session -> File]
  /\ printed = [s \in Session |-> <<>>]

\* The runs are started in order.
NextToStart(s) == client[s] = "new" /\ \A t \in Session : t < s => client[t] # "new"

\* The port is free: bind it, with an empty buffer, and send the request.
Start(s) ==
  /\ NextToStart(s)
  /\ bound = 0
  /\ bound' = s
  /\ mailbox' = <<>>
  /\ queue' = IF Len(queue) < QueueLen
                THEN Append(queue, [from |-> s, name |-> asked[s]]) ELSE queue
  /\ client' = [client EXCEPT ![s] = "wait"]
  /\ UNCHANGED <<asked, printed>>

\* Another run still has the port: bind fails and the client returns.
BindFails(s) ==
  /\ NextToStart(s)
  /\ bound # 0
  /\ client' = [client EXCEPT ![s] = "failed"]
  /\ UNCHANGED <<queue, bound, mailbox, asked, printed>>

\* strncmp(chunk, "404 Not Found!\n", 19) == 0
SaysNotFound(d) == d.piece = 0 /\ NotFoundSent = NotFoundExpected

\* A datagram arrives in time and is printed; the client waits for more.
\* Of an empty chunk there is nothing to print.
\* The other branch, "Server cannot find the file", needs a SaysNotFound
\* datagram, and there is none.
Show(s) ==
  /\ client[s] = "wait"
  /\ mailbox # <<>> /\ ~ SaysNotFound(Head(mailbox))
  /\ printed' = IF Head(mailbox).piece < 0 THEN printed
                ELSE [printed EXCEPT ![s] = Append(@, Head(mailbox))]
  /\ mailbox' = Tail(mailbox)
  /\ UNCHANGED <<queue, bound, client, asked>>

\* Faulty: the limit is set only once something has arrived.
TimeOutAfterFirst(s) ==
  /\ client[s] = "wait"
  /\ mailbox = <<>> /\ printed[s] # <<>>
  /\ client' = [client EXCEPT ![s] = "done"]
  /\ bound' = 0
  /\ UNCHANGED <<queue, mailbox, asked, printed>>

\* Nothing arrives for five seconds: the socket is closed.
TimeOut(s) ==
  /\ client[s] = "wait"
  /\ mailbox = <<>>
  /\ client' = [client EXCEPT ![s] = "done"]
  /\ bound' = 0
  /\ UNCHANGED <<queue, mailbox, asked, printed>>

Run(s) == Show(s) \/ TimeOut(s)
ClientNext == \E s \in Session : Start(s) \/ BindFails(s) \/ Run(s)
=============================================================================
