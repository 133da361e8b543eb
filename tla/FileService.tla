---------------------------- MODULE FileService ----------------------------
(***************************************************************************)
(* The file server and the runs of its client on one machine (Asn2b).      *)
(***************************************************************************)
EXTENDS FileServer, FiniteSets

VARIABLES client, asked, printed

INSTANCE FileClient

clientVars == <<client, asked, printed>>
vars == <<serverVars, sockets, clientVars>>

Init == ServerInit /\ ClientInit

Next == \/ ServerNext /\ UNCHANGED clientVars
        \/ ClientNext /\ UNCHANGED serverVars

Spec == Init /\ [][Next]_vars

(***************************************************************************)
(* The system runs every process and delivers signals; the five seconds    *)
(* pass.  Nobody has to start a client, and no call has to fail.           *)
(***************************************************************************)
FairSpec ==
  /\ Spec
  /\ WF_vars(ParentStep /\ UNCHANGED clientVars)
  /\ WF_vars(Handler /\ UNCHANGED clientVars)
  /\ \A c \in Kid : WF_vars(KidWorks(c) /\ UNCHANGED clientVars)
  /\ \A s \in Session : WF_vars(Run(s) /\ UNCHANGED serverVars)
-----------------------------------------------------------------------------
Dead(c) == kid[c].pc \in {"zombie", "gone"}

(***************************************************************************)
(* Each child that stays a zombie while no SIGCHLD is on its way is owed   *)
(* to a SIGCHLD that found another one pending; no death is overlooked in  *)
(* any other way.  (kidhandler, file_server.c:282)                         *)
(***************************************************************************)
ZombiesAccountedFor ==
  Cardinality(Zombies)
    <= coalesced + sigchld + (IF handling THEN 1 ELSE 0)

(***************************************************************************)
(* No two children work on one request, although the parent goes back to   *)
(* its buffer while they run.  (fork, file_server.c:127)                   *)
(***************************************************************************)
OneChildPerRequest ==
  \A c, d \in Kid :
    kid[c].req # NoRequest /\ kid[c].req.from = kid[d].req.from => c = d

(***************************************************************************)
(* A client prints the pieces of one answer in the order of the file and   *)
(* none of them twice, whatever was dropped in between.  (sendto and       *)
(* recvfrom, file_server.c:199, file_client.c:86)                          *)
(***************************************************************************)
PiecesInOrder ==
  \A s \in Session : \A m, n \in DOMAIN printed[s] :
    m < n /\ printed[s][m].req = printed[s][n].req
      => printed[s][m].piece < printed[s][n].piece

AllSent(c) == AtEnd(kid[c].req.name, kid[c].sent)

Ended == {"log", "exit", "zombie", "gone"}

\* Has child c ended its work with some of its file not sent.
GaveUp(c) == kid[c].pc \in Ended /\ ~ Missing(kid[c].req.name) /\ ~ AllSent(c)

\* May byte n of the log be one of a line with this flag about child c.
Tells(c, n, flag) ==
  LET len == LineLen[kid[c].req.name]
  IN  \/ flag = 1 /\ n <= len[1] /\ Missing(kid[c].req.name)
      \/ flag = 2 /\ n <= len[2] /\ GaveUp(c)
      \/ flag = 0 /\ n <= len[0] /\ ~ Missing(kid[c].req.name) /\ AllSent(c)
      \/ flag = 0 /\ len[2] < n /\ n <= len[2] + len[0] /\ GaveUp(c)

(***************************************************************************)
(* Children empty the log and write over each other's lines, so that a     *)
(* line as read may be pieced together from several.  Still every byte is  *)
(* of a line that is true of its child, but for the success told in the    *)
(* second line of a child that gave up; and a byte nobody wrote is one     *)
(* that such a child left out, its first line having been emptied away.    *)
(* (fopen and writelog, file_server.c:153, 203 and 261)                    *)
(***************************************************************************)
LogBytesTrue ==
  \A n \in DOMAIN log :
    \E c \in Kid :
      IF log[n] = Hole THEN GaveUp(c) /\ n <= LineLen[kid[c].req.name][2]
                       ELSE kid[c].req = log[n].req /\ Tells(c, n, log[n].flag)

(***************************************************************************)
(* A zombie is collected, unless SIGCHLDs have coalesced.                  *)
(* (kidhandler, file_server.c:282)                                         *)
(***************************************************************************)
ReapedUnlessCoalesced ==
  \A c \in Kid : kid[c].pc = "zombie" ~> kid[c].pc = "gone" \/ coalesced > 0

\* The loop that sends empty chunks has no reason to stop.
Endless(c) == kid[c].pc = "send" /\ kid[c].req.name \in Unreadable

(***************************************************************************)
(* Every child comes to its end, whatever fails on the way, unless it      *)
(* sends for ever: its file opens and cannot be read to its end, and       *)
(* sendto never fails.  (while (!feof), file_server.c:178)                 *)
(***************************************************************************)
ChildrenEnd == \A c \in Kid : kid[c].pc = "open" ~> Dead(c) \/ []Endless(c)

(***************************************************************************)
(* Every run of the client that gets the port ends, also when its request  *)
(* or the whole answer is lost, unless some child sends for ever, be it    *)
(* for an earlier run.  (the five-second limit, file_client.c:82)          *)
(***************************************************************************)
ClientsEnd ==
  \A s \in Session :
    client[s] = "wait" ~> client[s] = "done" \/ []\E c \in Kid : Endless(c)
-----------------------------------------------------------------------------
(* What the texts promise and the programs do not keep.                    *)

(***************************************************************************)
(* "make sure we can have children without leaving zombies around when     *)
(* they die" (file_server.c:94).                                           *)
(***************************************************************************)
NoZombieStays == \A c \in Kid : kid[c].pc = "zombie" ~> kid[c].pc = "gone"

(***************************************************************************)
(* "If success, write all the message to the log" (file_server.c:207): a   *)
(* line that tells of success belongs to a file sent completely.           *)
(***************************************************************************)
SuccessMeansSent ==
  \A n \in DOMAIN log : log[n] # Hole =>
    \/ log[n].flag # 0
    \/ \E c \in Kid : /\ kid[c].req = log[n].req
                      /\ AllSent(c)
=============================================================================
