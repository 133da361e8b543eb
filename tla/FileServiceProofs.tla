-------------------------- MODULE FileServiceProofs --------------------------
(***************************************************************************)
(* What the file server and its clients keep, for any number of sessions,  *)
(* children and files, and socket buffers of any size (Asn2b).             *)
(***************************************************************************)
EXTENDS FileService, FiniteSetTheorems, TLAPS

(***************************************************************************)
(* Children that have started, and the parent about to fork, have a        *)
(* request.                                                                *)
(***************************************************************************)
ReqInv ==
  /\ parent = "fork" => buffer \in Request
  /\ \A c \in Kid : IF kid[c].pc = "none" THEN kid[c].req = NoRequest
                                          ELSE kid[c].req \in Request

ClientTypeOK ==
  /\ client \in [Session -> {"new", "wait", "failed", "done"}]
  /\ asked \in [Session -> File]
  /\ printed \in [Session -> Seq(Datagram)]

(***************************************************************************)
(* A record of a child with some fields changed is one.                    *)
(***************************************************************************)
LEMMA Updated ==
  ASSUME NEW r \in KidState, NEW label \in {"log", "send", "exit"}, NEW f \in 0 .. 2, NEW n \in Nat
  PROVE  /\ [r EXCEPT !.pc = label, !.flag = f] \in KidState
         /\ [r EXCEPT !.sent = n, !.pc = label] \in KidState
         /\ [r EXCEPT !.off = n, !.flag = f, !.pc = label] \in KidState
  BY DEF KidState

(***************************************************************************)
(* The line a child has to write has a length. (writelog,                  *)
(* file_server.c:261)                                                      *)
(***************************************************************************)
LEMMA Lengths ==
  ASSUME TypeOK, ReqInv, NEW c \in Kid, kid[c].pc # "none"
  PROVE  /\ kid[c].req \in Request /\ kid[c].req.name \in File
         /\ kid[c].flag \in 0 .. 2
         /\ \A flag \in 0 .. 2 : LineLen[kid[c].req.name][flag] \in Nat \ {0}
         /\ LineLen[kid[c].req.name][kid[c].flag] \in Nat \ {0}
<1>1. kid[c].req \in Request /\ kid[c].flag \in 0 .. 2
  BY DEF TypeOK, ReqInv, KidState
<1>2. kid[c].req.name \in File
  BY <1>1 DEF Request
<1> QED
  BY <1>1, <1>2, ServerAssumption

(***************************************************************************)
(* Every step keeps the records of the children.                           *)
(***************************************************************************)
LEMMA KidTyped == TypeOK /\ ReqInv /\ [Next]_vars => kid' \in [Kid -> KidState]
<1> SUFFICES ASSUME TypeOK, ReqInv, [Next]_vars PROVE kid' \in [Kid -> KidState]
  OBVIOUS
<1>a. kid \in [Kid -> KidState] /\ buffer \in Request \cup {NoRequest}
  BY DEF TypeOK
<1> USE <1>a DEF KidState, Zombies, serverVars
<1>1. ASSUME Receive, UNCHANGED clientVars PROVE kid' \in [Kid -> KidState]
  BY <1>1 DEF Receive
<1>2. ASSUME ForkFails, UNCHANGED clientVars PROVE kid' \in [Kid -> KidState]
  BY <1>2 DEF ForkFails
<1>3. ASSUME EnterHandler, UNCHANGED clientVars PROVE kid' \in [Kid -> KidState]
  BY <1>3 DEF EnterHandler
<1>4. ASSUME kidhandler, UNCHANGED clientVars PROVE kid' \in [Kid -> KidState]
  BY <1>4 DEF kidhandler
<1>5. ASSUME NEW c \in Kid, Fork(c), UNCHANGED clientVars PROVE kid' \in [Kid -> KidState]
  BY <1>5 DEF Fork
<1>6. ASSUME NEW c \in Kid, Open(c), UNCHANGED clientVars PROVE kid' \in [Kid -> KidState]
  BY <1>6 DEF Open
<1>7. ASSUME NEW c \in Kid, OpenFails(c), UNCHANGED clientVars PROVE kid' \in [Kid -> KidState]
  BY <1>7 DEF OpenFails
<1>8. ASSUME NEW c \in Kid, SendPiece(c), UNCHANGED clientVars PROVE kid' \in [Kid -> KidState]
  <2> DEFINE label == IF AtEnd(kid[c].req.name, kid[c].sent + 1) THEN "log" ELSE "send"
  <2>1. label \in {"log", "send", "exit"}
    OBVIOUS
  <2> DEFINE r == [kid[c] EXCEPT !.sent = @ + 1, !.pc = label]
  <2>2. kid' = [kid EXCEPT ![c] = r]
    BY <1>8 DEF SendPiece
  <2> HIDE DEF label
  <2>3. kid[c] \in KidState /\ kid[c].sent + 1 \in Nat
    BY <1>a
  <2>4. r \in KidState
    BY <2>1, <2>3, Updated
  <2> HIDE DEF r
  <2> QED
    BY <1>a, <2>2, <2>4
<1>9. ASSUME NEW c \in Kid, SendFails(c), UNCHANGED clientVars PROVE kid' \in [Kid -> KidState]
  <2> DEFINE r == [kid[c] EXCEPT !.pc = "log", !.flag = 2]
  <2>a. kid[c] \in KidState /\ "log" \in {"log", "send", "exit"} /\ 2 \in 0 .. 2
    BY <1>a
  <2>1. r \in KidState
    BY <2>a, Updated, Zenon
  <2>2. kid' = [kid EXCEPT ![c] = r]
    BY <1>9 DEF SendFails
  <2> HIDE DEF r
  <2> QED
    BY <1>a, <2>1, <2>2
<1>10. ASSUME NEW c \in Kid, SendNotFound(c), UNCHANGED clientVars PROVE kid' \in [Kid -> KidState]
  <2> DEFINE r == [kid[c] EXCEPT !.pc = "log", !.flag = 1]
  <2>a. kid[c] \in KidState /\ "log" \in {"log", "send", "exit"} /\ 1 \in 0 .. 2
    BY <1>a
  <2>1. r \in KidState
    BY <2>a, Updated, Zenon
  <2>2. kid' = [kid EXCEPT ![c] = r]
    BY <1>10 DEF SendNotFound
  <2> HIDE DEF r
  <2> QED
    BY <1>a, <2>1, <2>2
<1>11. ASSUME NEW c \in Kid, writelog(c), UNCHANGED clientVars PROVE kid' \in [Kid -> KidState]
  <2> DEFINE len == LineLen[kid[c].req.name][kid[c].flag]
  <2>1. kid[c].pc # "none"
    BY <1>11 DEF writelog
  <2>2. len \in Nat \ {0}
    BY <2>1, Lengths
  <2>3. kid[c] \in KidState /\ kid[c].off + len \in Nat
    BY <1>a, <2>2
  <2> DEFINE f     == IF kid[c].flag = 2 THEN 0 ELSE kid[c].flag
             label == IF kid[c].flag = 2 THEN "log" ELSE "exit"
             off   == kid[c].off + len
  <2> DEFINE r == [kid[c] EXCEPT !.off = off, !.flag = f, !.pc = label]
  <2>4. kid' = [kid EXCEPT ![c] = r]
    BY <1>11 DEF writelog
  <2>5. f \in 0 .. 2 /\ label \in {"log", "send", "exit"} /\ off \in Nat /\ kid[c] \in KidState
    BY <2>3
  <2> HIDE DEF len, f, label, off
  <2>6. r \in KidState
    BY <2>5, Updated, Zenon
  <2> HIDE DEF r
  <2> QED
    BY <1>a, <2>4, <2>6
<1>12. ASSUME NEW c \in Kid, Exit(c), UNCHANGED clientVars PROVE kid' \in [Kid -> KidState]
  BY <1>12 DEF Exit
<1>13. ASSUME NEW s \in Session, Start(s), UNCHANGED serverVars PROVE kid' \in [Kid -> KidState]
  BY <1>13 DEF Start
<1>14. ASSUME NEW s \in Session, BindFails(s), UNCHANGED serverVars PROVE kid' \in [Kid -> KidState]
  BY <1>14 DEF BindFails
<1>15. ASSUME NEW s \in Session, Show(s), UNCHANGED serverVars PROVE kid' \in [Kid -> KidState]
  BY <1>15 DEF Show
<1>16. ASSUME NEW s \in Session, TimeOut(s), UNCHANGED serverVars PROVE kid' \in [Kid -> KidState]
  BY <1>16 DEF TimeOut
<1>17. CASE UNCHANGED vars
  BY <1>17 DEF vars, serverVars, clientVars, parentVars, sockets
<1>18. ASSUME NEW c \in Kid, SendBlank(c), UNCHANGED clientVars PROVE kid' \in [Kid -> KidState]
  BY <1>18 DEF SendBlank
<1> QED
  BY <1>1, <1>2, <1>3, <1>4, <1>5, <1>6, <1>7, <1>8, <1>9, <1>10, <1>11,
     <1>12, <1>13, <1>14, <1>15, <1>16, <1>17, <1>18
  DEF Next, ServerNext, ClientNext, ParentStep, Handler, KidStep, KidWorks, Run

(***************************************************************************)
(* What a client sends is a request, and what a child sends or logs is     *)
(* about one.                                                              *)
(***************************************************************************)
LEMMA Wires ==
  ASSUME TypeOK, ClientTypeOK, ReqInv
  PROVE  /\ \A s \in Session : [from |-> s, name |-> asked[s]] \in Request
         /\ \A c \in Kid : kid[c].pc # "none" =>
              /\ \A n \in Nat \cup {Blank} : [req |-> kid[c].req, piece |-> n] \in Datagram
              /\ [req |-> kid[c].req, flag |-> kid[c].flag] \in Line
<1>1. \A s \in Session : [from |-> s, name |-> asked[s]] \in Request
  BY DEF ClientTypeOK, Request
<1>2. ASSUME NEW c \in Kid, kid[c].pc # "none"
      PROVE  kid[c].req \in Request /\ kid[c].flag \in 0 .. 2
  BY <1>2 DEF TypeOK, ReqInv, KidState
<1> QED
  BY <1>1, <1>2 DEF Datagram, Line

(***************************************************************************)
(* A buffer with a datagram more is a buffer of datagrams.                 *)
(***************************************************************************)
LEMMA Transmitted ==
  ASSUME mailbox \in Seq(Datagram), NEW d \in Datagram, Transmit(d)
  PROVE  mailbox' \in Seq(Datagram)
  BY DEF Transmit

(***************************************************************************)
(* The log keeps its form when a line is written, with a hole before it if *)
(* need be.                                                                *)
(***************************************************************************)
LEMMA LogTyped ==
  ASSUME log \in Seq(Line), NEW off \in Nat, NEW line \in Line,
         LineLen[line.req.name][line.flag] \in Nat
  PROVE  Written(off, line) \in Seq(Line)
<1> DEFINE end == off + LineLen[line.req.name][line.flag]
           last == IF end < Len(log) THEN Len(log) ELSE end
<1>1. end \in Nat /\ last \in Nat
  OBVIOUS
<1>2. Hole \in Line
  BY DEF Hole, Line
<1>3. ASSUME NEW n \in 1 .. last, n <= Len(log) PROVE log[n] \in Line
  BY <1>3
<1>4. Written(off, line)
        = [n \in 1 .. last |->
             IF off < n /\ n <= end THEN line ELSE IF n <= Len(log) THEN log[n] ELSE Hole]
  BY DEF Written
<1> HIDE DEF last, end
<1>5. Written(off, line) \in [1 .. last -> Line]
  BY <1>2, <1>3, <1>4
<1> QED
  BY <1>1, <1>5

(***************************************************************************)
(* Every step keeps the requests.                                          *)
(***************************************************************************)
LEMMA ReqStep == TypeOK /\ ReqInv /\ [Next]_vars => ReqInv'
<1> SUFFICES ASSUME TypeOK, ReqInv, [Next]_vars PROVE ReqInv'
  OBVIOUS
<1>a. /\ kid \in [Kid -> KidState] /\ buffer \in Request \cup {NoRequest}
      /\ queue \in Seq(Request)
  BY DEF TypeOK
<1> USE <1>a DEF ReqInv, KidState, Zombies, serverVars, parentVars
<1>1. ASSUME Receive, UNCHANGED clientVars PROVE ReqInv'
  BY <1>1 DEF Receive
<1>2. ASSUME ForkFails, UNCHANGED clientVars PROVE ReqInv'
  BY <1>2 DEF ForkFails
<1>3. ASSUME EnterHandler, UNCHANGED clientVars PROVE ReqInv'
  BY <1>3 DEF EnterHandler
<1>4. ASSUME kidhandler, UNCHANGED clientVars PROVE ReqInv'
  BY <1>4 DEF kidhandler
<1>5. ASSUME NEW c \in Kid, Fork(c), UNCHANGED clientVars PROVE ReqInv'
  BY <1>5 DEF Fork
<1>6. ASSUME NEW c \in Kid, Open(c), UNCHANGED clientVars PROVE ReqInv'
  BY <1>6 DEF Open
<1>7. ASSUME NEW c \in Kid, OpenFails(c), UNCHANGED clientVars PROVE ReqInv'
  BY <1>7 DEF OpenFails
<1>8. ASSUME NEW c \in Kid, SendPiece(c), UNCHANGED clientVars PROVE ReqInv'
  BY <1>8 DEF SendPiece
<1>9. ASSUME NEW c \in Kid, SendFails(c), UNCHANGED clientVars PROVE ReqInv'
  BY <1>9 DEF SendFails
<1>10. ASSUME NEW c \in Kid, SendNotFound(c), UNCHANGED clientVars PROVE ReqInv'
  BY <1>10 DEF SendNotFound
<1>11. ASSUME NEW c \in Kid, writelog(c), UNCHANGED clientVars PROVE ReqInv'
  BY <1>11 DEF writelog
<1>12. ASSUME NEW c \in Kid, Exit(c), UNCHANGED clientVars PROVE ReqInv'
  BY <1>12 DEF Exit
<1>13. ASSUME NEW s \in Session, Start(s), UNCHANGED serverVars PROVE ReqInv'
  BY <1>13 DEF Start
<1>14. ASSUME NEW s \in Session, BindFails(s), UNCHANGED serverVars PROVE ReqInv'
  BY <1>14 DEF BindFails
<1>15. ASSUME NEW s \in Session, Show(s), UNCHANGED serverVars PROVE ReqInv'
  BY <1>15 DEF Show
<1>16. ASSUME NEW s \in Session, TimeOut(s), UNCHANGED serverVars PROVE ReqInv'
  BY <1>16 DEF TimeOut
<1>17. CASE UNCHANGED vars
  BY <1>17 DEF vars, serverVars, clientVars, parentVars, sockets
<1>18. ASSUME NEW c \in Kid, SendBlank(c), UNCHANGED clientVars PROVE ReqInv'
  BY <1>18 DEF SendBlank
<1> QED
  BY <1>1, <1>2, <1>3, <1>4, <1>5, <1>6, <1>7, <1>8, <1>9, <1>10, <1>11,
     <1>12, <1>13, <1>14, <1>15, <1>16, <1>17, <1>18
  DEF Next, ServerNext, ClientNext, ParentStep, Handler, KidStep, KidWorks, Run

(***************************************************************************)
(* Every step keeps the types.                                             *)
(***************************************************************************)
LEMMA TypeStep ==
  TypeOK /\ ClientTypeOK /\ ReqInv /\ [Next]_vars => TypeOK' /\ ClientTypeOK'
<1> SUFFICES ASSUME TypeOK, ClientTypeOK, ReqInv, [Next]_vars
             PROVE  TypeOK' /\ ClientTypeOK'
  OBVIOUS
<1> DEFINE T == /\ queue \in Seq(Request) /\ buffer \in Request \cup {NoRequest}
                /\ parent \in {"recv", "fork"}
                /\ sigchld \in {0, 1} /\ handling \in BOOLEAN /\ coalesced \in Nat
                /\ log \in Seq(Line)
                /\ bound \in Session \cup {0} /\ mailbox \in Seq(Datagram)
                /\ ClientTypeOK
<1>a. T /\ kid \in [Kid -> KidState]
  BY DEF TypeOK
<1>b. kid' \in [Kid -> KidState]
  BY KidTyped
<1> SUFFICES T'
  BY <1>b DEF TypeOK
<1> USE <1>a DEF ClientTypeOK, clientVars, serverVars, parentVars, sockets
<1>1. ASSUME Receive, UNCHANGED clientVars PROVE T'
  BY <1>1 DEF Receive
<1>2. ASSUME ForkFails, UNCHANGED clientVars PROVE T'
  BY <1>2 DEF ForkFails
<1>3. ASSUME EnterHandler, UNCHANGED clientVars PROVE T'
  BY <1>3 DEF EnterHandler
<1>4. ASSUME kidhandler, UNCHANGED clientVars PROVE T'
  BY <1>4 DEF kidhandler
<1>5. ASSUME NEW c \in Kid, Fork(c), UNCHANGED clientVars PROVE T'
  BY <1>5 DEF Fork
<1>6. ASSUME NEW c \in Kid, Open(c), UNCHANGED clientVars PROVE T'
  BY <1>6 DEF Open
<1>7. ASSUME NEW c \in Kid, OpenFails(c), UNCHANGED clientVars PROVE T'
  BY <1>7 DEF OpenFails
<1>8. ASSUME NEW c \in Kid, SendPiece(c), UNCHANGED clientVars PROVE T'
  <2>1. kid[c].pc # "none" /\ kid[c].sent \in Nat
    <3>1. kid[c] \in KidState /\ kid[c].pc = "send"
      BY <1>8 DEF SendPiece
    <3> QED
      BY <3>1 DEF KidState
  <2> DEFINE n == kid[c].sent + 1
  <2>n. n \in Nat
    BY <2>1
  <2> DEFINE d == [req |-> kid[c].req, piece |-> n]
  <2>2. d \in Datagram
    BY <2>1, <2>n, Wires DEF Blank
  <2>3. Transmit(d)
    BY <1>8 DEF SendPiece
  <2> HIDE DEF d
  <2>4. mailbox' \in Seq(Datagram)
    BY <2>2, <2>3, Transmitted
  <2> QED
    BY <1>8, <2>4 DEF SendPiece
<1>9. ASSUME NEW c \in Kid, SendFails(c), UNCHANGED clientVars PROVE T'
  BY <1>9 DEF SendFails
<1>10. ASSUME NEW c \in Kid, SendNotFound(c), UNCHANGED clientVars PROVE T'
  <2>1. kid[c].pc # "none" /\ kid[c].sent \in Nat
    <3>1. kid[c] \in KidState /\ kid[c].pc = "send"
      BY <1>10 DEF SendNotFound
    <3> QED
      BY <3>1 DEF KidState
  <2> DEFINE n == 0
  <2>n. n \in Nat
    BY <2>1
  <2> DEFINE d == [req |-> kid[c].req, piece |-> n]
  <2>2. d \in Datagram
    BY <2>1, <2>n, Wires DEF Blank
  <2>3. Transmit(d) \/ UNCHANGED mailbox
    BY <1>10 DEF SendNotFound
  <2> HIDE DEF d
  <2>4. mailbox' \in Seq(Datagram)
    BY <2>2, <2>3, Transmitted
  <2> QED
    BY <1>10, <2>4 DEF SendNotFound
<1>11. ASSUME NEW c \in Kid, writelog(c), UNCHANGED clientVars PROVE T'
  <2>1. kid[c].pc # "none" /\ kid[c].off \in Nat
    <3>1. kid[c] \in KidState /\ kid[c].pc = "log"
      BY <1>11 DEF writelog
    <3> QED
      BY <3>1 DEF KidState
  <2>2. log' \in Seq(Line)
    <3> DEFINE line == [req |-> kid[c].req, flag |-> kid[c].flag]
    <3>1. line \in Line /\ LineLen[line.req.name][line.flag] \in Nat
      BY <2>1, Wires, Lengths
    <3>2. log' = Written(kid[c].off, line)
      BY <1>11 DEF writelog
    <3> HIDE DEF line
    <3> QED
      BY <2>1, <3>1, <3>2, LogTyped
  <2> QED
    BY <1>11, <2>2 DEF writelog
<1>12. ASSUME NEW c \in Kid, Exit(c), UNCHANGED clientVars PROVE T'
  BY <1>12 DEF Exit
<1>13. ASSUME NEW s \in Session, Start(s), UNCHANGED serverVars PROVE T'
  <2>1. queue' \in Seq(Request)
    BY <1>13, Wires DEF Start
  <2> QED
    BY <1>13, <2>1 DEF Start
<1>14. ASSUME NEW s \in Session, BindFails(s), UNCHANGED serverVars PROVE T'
  BY <1>14 DEF BindFails
<1>15. ASSUME NEW s \in Session, Show(s), UNCHANGED serverVars PROVE T'
  BY <1>15 DEF Show
<1>16. ASSUME NEW s \in Session, TimeOut(s), UNCHANGED serverVars PROVE T'
  BY <1>16 DEF TimeOut
<1>17. CASE UNCHANGED vars
  BY <1>17 DEF vars, serverVars, clientVars, parentVars, sockets
<1>18. ASSUME NEW c \in Kid, SendBlank(c), UNCHANGED clientVars PROVE T'
  <2> DEFINE d == [req |-> kid[c].req, piece |-> Blank]
  <2>1. d \in Datagram
    BY <1>18, Wires DEF SendBlank
  <2>2. Transmit(d)
    BY <1>18 DEF SendBlank
  <2> HIDE DEF d
  <2>3. mailbox' \in Seq(Datagram)
    BY <2>1, <2>2, Transmitted
  <2> QED
    BY <1>18, <2>3 DEF SendBlank
<1> QED
  BY <1>1, <1>2, <1>3, <1>4, <1>5, <1>6, <1>7, <1>8, <1>9, <1>10, <1>11,
     <1>12, <1>13, <1>14, <1>15, <1>16, <1>17, <1>18
  DEF Next, ServerNext, ClientNext, ParentStep, Handler, KidStep, KidWorks, Run

(***************************************************************************)
(* Every step keeps the account of the zombies.                            *)
(***************************************************************************)
LEMMA ZombieStep ==
  TypeOK /\ IsFiniteSet(Zombies) /\ ZombiesAccountedFor /\ [Next]_vars
    => IsFiniteSet(Zombies') /\ ZombiesAccountedFor'
<1> SUFFICES ASSUME TypeOK, IsFiniteSet(Zombies), ZombiesAccountedFor, [Next]_vars
             PROVE  IsFiniteSet(Zombies') /\ ZombiesAccountedFor'
  OBVIOUS
<1>a. /\ kid \in [Kid -> KidState] /\ sigchld \in {0, 1} /\ coalesced \in Nat
      /\ handling \in BOOLEAN /\ Cardinality(Zombies) \in Nat
  BY FS_CardinalityType DEF TypeOK
<1>b. CASE /\ Zombies' = Zombies
           /\ UNCHANGED <<sigchld, coalesced, handling>>
  BY <1>b DEF ZombiesAccountedFor
<1> DEFINE G == IsFiniteSet(Zombies') /\ ZombiesAccountedFor'
<1> HIDE DEF G
<1>1. ASSUME Receive, UNCHANGED clientVars PROVE G
  BY <1>b, <1>1 DEF Receive, Zombies, parentVars, G
<1>2. ASSUME ForkFails, UNCHANGED clientVars PROVE G
  BY <1>b, <1>2 DEF ForkFails, Zombies, parentVars, G
<1>3. ASSUME EnterHandler, UNCHANGED clientVars PROVE G
  <2>1. Zombies' = Zombies
    BY <1>3 DEF EnterHandler, Zombies
  <2> QED
    BY <1>a, <1>3, <2>1 DEF EnterHandler, ZombiesAccountedFor, G
<1>4. ASSUME kidhandler, UNCHANGED clientVars PROVE G
  <2>1. CASE Zombies = {}
    <3>1. Zombies' = {} /\ Cardinality({}) = 0 /\ IsFiniteSet({})
      BY <1>4, <2>1, FS_EmptySet DEF kidhandler, Zombies
    <3> QED
      BY <1>a, <1>4, <3>1 DEF kidhandler, ZombiesAccountedFor, G
  <2>2. CASE Zombies # {}
    <3>1. PICK c \in Zombies : kid' = [kid EXCEPT ![c].pc = "gone"]
      BY <1>4, <2>2 DEF kidhandler
    <3>2. Zombies' = Zombies \ {c}
      BY <1>a, <3>1 DEF Zombies, KidState
    <3>3. /\ IsFiniteSet(Zombies \ {c})
          /\ Cardinality(Zombies \ {c}) = Cardinality(Zombies) - 1
      BY FS_RemoveElement
    <3> QED
      BY <1>a, <1>4, <3>2, <3>3 DEF kidhandler, ZombiesAccountedFor, G
  <2> QED
    BY <2>1, <2>2
<1>5. ASSUME NEW c \in Kid, Fork(c), UNCHANGED clientVars PROVE G
  <2>1. Zombies' = Zombies
    BY <1>a, <1>5 DEF Fork, Zombies, KidState
  <2> QED
    BY <1>b, <1>5, <2>1 DEF Fork, parentVars, G
<1>6. ASSUME NEW c \in Kid, Open(c), UNCHANGED clientVars PROVE G
  <2>1. Zombies' = Zombies
    BY <1>a, <1>6 DEF Open, Zombies, KidState
  <2> QED
    BY <1>b, <1>6, <2>1 DEF Open, parentVars, G
<1>7. ASSUME NEW c \in Kid, OpenFails(c), UNCHANGED clientVars PROVE G
  <2>1. Zombies' = Zombies
    BY <1>a, <1>7 DEF OpenFails, Zombies, KidState
  <2> QED
    BY <1>b, <1>7, <2>1 DEF OpenFails, parentVars, G
<1>8. ASSUME NEW c \in Kid, SendPiece(c), UNCHANGED clientVars PROVE G
  <2>1. Zombies' = Zombies
    BY <1>a, <1>8 DEF SendPiece, Zombies, KidState
  <2> QED
    BY <1>b, <1>8, <2>1 DEF SendPiece, parentVars, G
<1>9. ASSUME NEW c \in Kid, SendFails(c), UNCHANGED clientVars PROVE G
  <2>1. Zombies' = Zombies
    BY <1>a, <1>9 DEF SendFails, Zombies, KidState
  <2> QED
    BY <1>b, <1>9, <2>1 DEF SendFails, parentVars, G
<1>10. ASSUME NEW c \in Kid, SendNotFound(c), UNCHANGED clientVars PROVE G
  <2>1. Zombies' = Zombies
    BY <1>a, <1>10 DEF SendNotFound, Zombies, KidState
  <2> QED
    BY <1>b, <1>10, <2>1 DEF SendNotFound, parentVars, G
<1>11. ASSUME NEW c \in Kid, writelog(c), UNCHANGED clientVars PROVE G
  <2>1. Zombies' = Zombies
    BY <1>a, <1>11 DEF writelog, Zombies, KidState
  <2> QED
    BY <1>b, <1>11, <2>1 DEF writelog, parentVars, G
<1>12. ASSUME NEW c \in Kid, Exit(c), UNCHANGED clientVars PROVE G
  <2>1. Zombies' = Zombies \cup {c} /\ c \notin Zombies
    BY <1>a, <1>12 DEF Exit, Zombies, KidState
  <2>2. /\ IsFiniteSet(Zombies \cup {c})
        /\ Cardinality(Zombies \cup {c}) = Cardinality(Zombies) + 1
    BY <2>1, FS_AddElement
  <2> QED
    BY <1>a, <1>12, <2>1, <2>2 DEF Exit, ZombiesAccountedFor, G, parentVars
<1>13. ASSUME NEW s \in Session, Start(s), UNCHANGED serverVars PROVE G
  BY <1>b, <1>13 DEF serverVars, Zombies, parentVars, G
<1>14. ASSUME NEW s \in Session, BindFails(s), UNCHANGED serverVars PROVE G
  BY <1>b, <1>14 DEF serverVars, Zombies, parentVars, G
<1>15. ASSUME NEW s \in Session, Show(s), UNCHANGED serverVars PROVE G
  BY <1>b, <1>15 DEF serverVars, Zombies, parentVars, G
<1>16. ASSUME NEW s \in Session, TimeOut(s), UNCHANGED serverVars PROVE G
  BY <1>b, <1>16 DEF serverVars, Zombies, parentVars, G
<1>17. ASSUME UNCHANGED vars PROVE G
  BY <1>b, <1>17 DEF Zombies, G, vars, serverVars, clientVars, parentVars, sockets
<1>18. ASSUME NEW c \in Kid, SendBlank(c), UNCHANGED clientVars PROVE G
  BY <1>b, <1>18 DEF SendBlank, Zombies, parentVars, G
<1> QED
  BY <1>1, <1>2, <1>3, <1>4, <1>5, <1>6, <1>7, <1>8, <1>9, <1>10, <1>11,
     <1>12, <1>13, <1>14, <1>15, <1>16, <1>17, <1>18
  DEF G, Next, ServerNext, ClientNext, ParentStep, Handler, KidStep, KidWorks, Run

(***************************************************************************)
(* Every request is on its way at one place: in the socket buffer, with    *)
(* the parent, or with one child; and only runs that have started have     *)
(* one.                                                                    *)
(***************************************************************************)
FromInv ==
  /\ \A m \in DOMAIN queue :
       /\ client[queue[m].from] # "new"
       /\ \A n \in DOMAIN queue : queue[m].from = queue[n].from => m = n
       /\ parent = "fork" => queue[m].from # buffer.from
       /\ \A c \in Kid : kid[c].pc # "none" => queue[m].from # kid[c].req.from
  /\ parent = "fork" =>
       /\ client[buffer.from] # "new"
       /\ \A c \in Kid : kid[c].pc # "none" => buffer.from # kid[c].req.from
  /\ \A c \in Kid : kid[c].pc # "none" =>
       /\ client[kid[c].req.from] # "new"
       /\ \A d \in Kid : kid[d].pc # "none" /\ kid[c].req.from = kid[d].req.from => c = d

(***************************************************************************)
(* Every step keeps each request at one place.                             *)
(***************************************************************************)
LEMMA FromStep ==
  TypeOK /\ ClientTypeOK /\ ReqInv /\ FromInv /\ [Next]_vars => FromInv'
<1> SUFFICES ASSUME TypeOK, ClientTypeOK, ReqInv, FromInv, [Next]_vars PROVE FromInv'
  OBVIOUS
<1>a. /\ kid \in [Kid -> KidState] /\ buffer \in Request \cup {NoRequest}
      /\ queue \in Seq(Request)
      /\ client \in [Session -> {"new", "wait", "failed", "done"}]
  BY DEF TypeOK, ClientTypeOK
<1>b. \A r \in Request : r.from \in Session
  BY DEF Request
<1>c. \A m \in DOMAIN queue : queue[m] \in Request
  BY <1>a
<1> USE <1>a, <1>b, <1>c DEF ReqInv, FromInv, serverVars, clientVars, parentVars, sockets
<1>s. ASSUME UNCHANGED <<queue, buffer, parent, client>>,
             \A d \in Kid : /\ kid'[d].req = kid[d].req
                            /\ kid'[d].pc = "none" <=> kid[d].pc = "none"
      PROVE  FromInv'
  BY <1>s
<1>1. ASSUME Receive, UNCHANGED clientVars PROVE FromInv'
  BY <1>1 DEF Receive
<1>2. ASSUME ForkFails, UNCHANGED clientVars PROVE FromInv'
  BY <1>2 DEF ForkFails
<1>3. ASSUME EnterHandler, UNCHANGED clientVars PROVE FromInv'
  BY <1>3 DEF EnterHandler
<1>4. ASSUME kidhandler, UNCHANGED clientVars PROVE FromInv'
  <2>1. \A d \in Kid : kid'[d].req = kid[d].req /\ (kid'[d].pc = "none" <=> kid[d].pc = "none")
    <3>1. CASE kid' = kid
      BY <3>1
    <3>2. ASSUME NEW c \in Zombies, kid' = [kid EXCEPT ![c].pc = "gone"]
          PROVE  \A d \in Kid : kid'[d].req = kid[d].req
                                /\ (kid'[d].pc = "none" <=> kid[d].pc = "none")
      <4>1. kid[c].pc = "zombie" /\ c \in Kid
        BY DEF Zombies
      <4>2. \A d \in Kid : kid[d] \in KidState
        BY <1>a
      <4>3. \A d \in Kid : d # c => kid'[d] = kid[d]
        BY <1>a, <3>2
      <4>4. kid'[c] = [kid[c] EXCEPT !.pc = "gone"]
        BY <1>a, <3>2, <4>1
      <4>5. kid'[c].req = kid[c].req /\ kid'[c].pc = "gone"
        BY <4>1, <4>2, <4>4 DEF KidState
      <4> QED
        BY <4>1, <4>3, <4>5
    <3> QED
      BY <1>4, <3>1, <3>2 DEF kidhandler
  <2>2. UNCHANGED <<queue, buffer, parent, client>>
    BY <1>4 DEF kidhandler
  <2> HIDE DEF FromInv
  <2> QED
    BY <1>s, <2>1, <2>2
<1>5. ASSUME NEW c \in Kid, Fork(c), UNCHANGED clientVars PROVE FromInv'
  BY <1>5 DEF Fork
<1>6. ASSUME NEW c \in Kid, Open(c), UNCHANGED clientVars PROVE FromInv'
  <2>1. \A d \in Kid : kid'[d].req = kid[d].req /\ (kid'[d].pc = "none" <=> kid[d].pc = "none")
    BY <1>6 DEF Open, KidState
  <2>2. UNCHANGED <<queue, buffer, parent, client>>
    BY <1>6 DEF Open
  <2> HIDE DEF FromInv
  <2> QED
    BY <1>s, <2>1, <2>2
<1>7. ASSUME NEW c \in Kid, OpenFails(c), UNCHANGED clientVars PROVE FromInv'
  <2>1. \A d \in Kid : kid'[d].req = kid[d].req /\ (kid'[d].pc = "none" <=> kid[d].pc = "none")
    BY <1>7 DEF OpenFails, KidState
  <2>2. UNCHANGED <<queue, buffer, parent, client>>
    BY <1>7 DEF OpenFails
  <2> HIDE DEF FromInv
  <2> QED
    BY <1>s, <2>1, <2>2
<1>8. ASSUME NEW c \in Kid, SendPiece(c), UNCHANGED clientVars PROVE FromInv'
  <2>1. \A d \in Kid : kid'[d].req = kid[d].req /\ (kid'[d].pc = "none" <=> kid[d].pc = "none")
    BY <1>8 DEF SendPiece, KidState
  <2>2. UNCHANGED <<queue, buffer, parent, client>>
    BY <1>8 DEF SendPiece
  <2> HIDE DEF FromInv
  <2> QED
    BY <1>s, <2>1, <2>2
<1>9. ASSUME NEW c \in Kid, SendFails(c), UNCHANGED clientVars PROVE FromInv'
  <2>1. \A d \in Kid : kid'[d].req = kid[d].req /\ (kid'[d].pc = "none" <=> kid[d].pc = "none")
    BY <1>9 DEF SendFails, KidState
  <2>2. UNCHANGED <<queue, buffer, parent, client>>
    BY <1>9 DEF SendFails
  <2> HIDE DEF FromInv
  <2> QED
    BY <1>s, <2>1, <2>2
<1>10. ASSUME NEW c \in Kid, SendNotFound(c), UNCHANGED clientVars PROVE FromInv'
  <2>1. \A d \in Kid : kid'[d].req = kid[d].req /\ (kid'[d].pc = "none" <=> kid[d].pc = "none")
    BY <1>10 DEF SendNotFound, KidState
  <2>2. UNCHANGED <<queue, buffer, parent, client>>
    BY <1>10 DEF SendNotFound
  <2> HIDE DEF FromInv
  <2> QED
    BY <1>s, <2>1, <2>2
<1>11. ASSUME NEW c \in Kid, writelog(c), UNCHANGED clientVars PROVE FromInv'
  <2>1. \A d \in Kid : kid'[d].req = kid[d].req /\ (kid'[d].pc = "none" <=> kid[d].pc = "none")
    BY <1>11 DEF writelog, KidState
  <2>2. UNCHANGED <<queue, buffer, parent, client>>
    BY <1>11 DEF writelog
  <2> HIDE DEF FromInv
  <2> QED
    BY <1>s, <2>1, <2>2
<1>12. ASSUME NEW c \in Kid, Exit(c), UNCHANGED clientVars PROVE FromInv'
  <2>1. \A d \in Kid : kid'[d].req = kid[d].req /\ (kid'[d].pc = "none" <=> kid[d].pc = "none")
    BY <1>12 DEF Exit, KidState
  <2>2. UNCHANGED <<queue, buffer, parent, client>>
    BY <1>12 DEF Exit
  <2> HIDE DEF FromInv
  <2> QED
    BY <1>s, <2>1, <2>2
<1>13. ASSUME NEW s \in Session, Start(s), UNCHANGED serverVars PROVE FromInv'
  <2>1. /\ client[s] = "new" /\ client' = [client EXCEPT ![s] = "wait"]
        /\ UNCHANGED <<kid, buffer, parent>>
    BY <1>13 DEF Start, NextToStart
  <2>2. CASE queue' = queue
    BY <2>1, <2>2
  <2>3. CASE queue' # queue
    <3> DEFINE x == [from |-> s, name |-> asked[s]]
    <3>1. queue' = Append(queue, x)
      BY <1>13, <2>3 DEF Start
    <3>2. x \in Request /\ x.from = s
      BY Wires
    <3> HIDE DEF x
    <3>3. /\ DOMAIN queue' = DOMAIN queue \cup {Len(queue) + 1}
          /\ queue'[Len(queue) + 1] = x /\ Len(queue) + 1 \notin DOMAIN queue
          /\ \A m \in DOMAIN queue : queue'[m] = queue[m]
      BY <3>1, <3>2
    <3>4. /\ \A m \in DOMAIN queue : queue[m].from # s
          /\ parent = "fork" => buffer.from # s
          /\ \A c \in Kid : kid[c].pc # "none" => kid[c].req.from # s
      BY <2>1
    <3>5. \A t \in Session : client[t] # "new" => client'[t] # "new"
      BY <2>1
    <3>6. client'[s] # "new"
      BY <2>1
    <3> QED
      BY <2>1, <3>2, <3>3, <3>4, <3>5, <3>6
  <2> QED
    BY <2>2, <2>3
<1>14. ASSUME NEW s \in Session, BindFails(s), UNCHANGED serverVars PROVE FromInv'
  BY <1>14 DEF BindFails
<1>15. ASSUME NEW s \in Session, Show(s), UNCHANGED serverVars PROVE FromInv'
  BY <1>15 DEF Show
<1>16. ASSUME NEW s \in Session, TimeOut(s), UNCHANGED serverVars PROVE FromInv'
  BY <1>16 DEF TimeOut
<1>17. CASE UNCHANGED vars
  BY <1>17 DEF vars, serverVars, clientVars, parentVars, sockets
<1>18. ASSUME NEW c \in Kid, SendBlank(c), UNCHANGED clientVars PROVE FromInv'
  BY <1>18 DEF SendBlank
<1> QED
  BY <1>1, <1>2, <1>3, <1>4, <1>5, <1>6, <1>7, <1>8, <1>9, <1>10, <1>11,
     <1>12, <1>13, <1>14, <1>15, <1>16, <1>17, <1>18
  DEF Next, ServerNext, ClientNext, ParentStep, Handler, KidStep, KidWorks, Run

-----------------------------------------------------------------------------
(* The pieces.                                                             *)

(***************************************************************************)
(* A datagram comes from a child that has sent it, and the 404 message     *)
(* from one that has nothing more to send.                                 *)
(***************************************************************************)
Known(d) ==
  \E c \in Kid : /\ kid[c].pc # "none" /\ kid[c].req = d.req
                 /\ d.piece <= kid[c].sent
                 /\ d.piece = 0 => kid[c].pc \in Ended

(***************************************************************************)
(* In a sequence of datagrams the pieces of one answer grow, the empty     *)
(* chunks left aside.                                                      *)
(***************************************************************************)
Grows(S) ==
  \A m, n \in DOMAIN S :
    m < n /\ S[m].req = S[n].req /\ S[n].piece # Blank => S[m].piece < S[n].piece

BoundInv == \A s \in Session : client[s] = "wait" <=> bound = s

SentInv == \A c \in Kid : /\ kid[c].pc = "none" => kid[c].sent = 0
                          /\ Missing(kid[c].req.name) => kid[c].sent = 0

KnownInv == /\ \A m \in DOMAIN mailbox : Known(mailbox[m])
            /\ \A s \in Session : \A m \in DOMAIN printed[s] : Known(printed[s][m])

GrowInv ==
  /\ Grows(mailbox)
  /\ \A s \in Session :
       /\ Grows(printed[s])
       /\ \A m \in DOMAIN printed[s] : printed[s][m].piece # Blank
       /\ bound = s =>
            \A m \in DOMAIN printed[s], n \in DOMAIN mailbox :
              printed[s][m].req = mailbox[n].req /\ mailbox[n].piece # Blank
                => printed[s][m].piece < mailbox[n].piece

(***************************************************************************)
(* What is known stays known.                                              *)
(***************************************************************************)
LEMMA KnownStays ==
  ASSUME TypeOK, [Next]_vars, NEW d, d.piece \in Nat \cup {Blank}, Known(d)
  PROVE  Known(d)'
<1>a. kid \in [Kid -> KidState]
  BY DEF TypeOK
<1>b. PICK k \in Kid : /\ kid[k].pc # "none" /\ kid[k].req = d.req
                       /\ d.piece <= kid[k].sent
                       /\ d.piece = 0 => kid[k].pc \in Ended
  BY DEF Known
<1> DEFINE G == /\ kid'[k].pc # "none" /\ kid'[k].req = kid[k].req
                /\ kid'[k].sent = kid[k].sent \/ kid'[k].sent = kid[k].sent + 1
                /\ kid[k].pc \in Ended => kid'[k].pc \in Ended
<1>c. SUFFICES G
  <2>1. kid[k].sent \in Nat
    BY <1>a DEF KidState
  <2>2. d.piece <= kid'[k].sent
    BY <1>b, <2>1 DEF Blank
  <2> QED
    BY <1>b, <2>2 DEF Known
<1> USE <1>a, <1>b DEF KidState, Ended, Zombies, serverVars, parentVars
<1>1. ASSUME Receive, UNCHANGED clientVars PROVE G
  BY <1>1 DEF Receive
<1>2. ASSUME ForkFails, UNCHANGED clientVars PROVE G
  BY <1>2 DEF ForkFails
<1>3. ASSUME EnterHandler, UNCHANGED clientVars PROVE G
  BY <1>3 DEF EnterHandler
<1>4. ASSUME kidhandler, UNCHANGED clientVars PROVE G
  BY <1>4 DEF kidhandler
<1>5. ASSUME NEW c \in Kid, Fork(c), UNCHANGED clientVars PROVE G
  BY <1>5 DEF Fork
<1>6. ASSUME NEW c \in Kid, Open(c), UNCHANGED clientVars PROVE G
  BY <1>6 DEF Open
<1>7. ASSUME NEW c \in Kid, OpenFails(c), UNCHANGED clientVars PROVE G
  BY <1>7 DEF OpenFails
<1>8. ASSUME NEW c \in Kid, SendPiece(c), UNCHANGED clientVars PROVE G
  BY <1>8 DEF SendPiece
<1>9. ASSUME NEW c \in Kid, SendFails(c), UNCHANGED clientVars PROVE G
  BY <1>9 DEF SendFails
<1>10. ASSUME NEW c \in Kid, SendNotFound(c), UNCHANGED clientVars PROVE G
  BY <1>10 DEF SendNotFound
<1>11. ASSUME NEW c \in Kid, writelog(c), UNCHANGED clientVars PROVE G
  BY <1>11 DEF writelog
<1>12. ASSUME NEW c \in Kid, Exit(c), UNCHANGED clientVars PROVE G
  BY <1>12 DEF Exit
<1>13. ASSUME NEW s \in Session, Start(s), UNCHANGED serverVars PROVE G
  BY <1>13 DEF Start
<1>14. ASSUME NEW s \in Session, BindFails(s), UNCHANGED serverVars PROVE G
  BY <1>14 DEF BindFails
<1>15. ASSUME NEW s \in Session, Show(s), UNCHANGED serverVars PROVE G
  BY <1>15 DEF Show
<1>16. ASSUME NEW s \in Session, TimeOut(s), UNCHANGED serverVars PROVE G
  BY <1>16 DEF TimeOut
<1>17. CASE UNCHANGED vars
  BY <1>17 DEF vars, serverVars, clientVars, parentVars, sockets
<1>18. ASSUME NEW c \in Kid, SendBlank(c), UNCHANGED clientVars PROVE G
  BY <1>18 DEF SendBlank
<1> QED
  BY <1>1, <1>2, <1>3, <1>4, <1>5, <1>6, <1>7, <1>8, <1>9, <1>10, <1>11,
     <1>12, <1>13, <1>14, <1>15, <1>16, <1>17, <1>18
  DEF Next, ServerNext, ClientNext, ParentStep, Handler, KidStep, KidWorks, Run

(***************************************************************************)
(* A later piece at the end keeps the pieces growing.                      *)
(***************************************************************************)
LEMMA GrowsByAppend ==
  ASSUME NEW S \in Seq(Datagram), Grows(S), NEW d \in Datagram,
         \A m \in DOMAIN S : S[m].req = d.req /\ d.piece # Blank => S[m].piece < d.piece
  PROVE  Grows(Append(S, d))
<1>1. /\ DOMAIN Append(S, d) = DOMAIN S \cup {Len(S) + 1}
      /\ Append(S, d)[Len(S) + 1] = d
      /\ \A m \in DOMAIN S : Append(S, d)[m] = S[m] /\ m < Len(S) + 1
      /\ Len(S) \in Nat
  OBVIOUS
<1> DEFINE A == Append(S, d)  last == Len(S) + 1
<1> HIDE DEF A
<1> SUFFICES ASSUME NEW m \in DOMAIN S \cup {last}, NEW n \in DOMAIN S \cup {last},
                    m < n, A[m].req = A[n].req, A[n].piece # Blank
             PROVE  A[m].piece < A[n].piece
  BY <1>1 DEF Grows, A
<1>2. m \in DOMAIN S
  BY <1>1
<1>3. CASE n = last
  BY <1>1, <1>2, <1>3 DEF A
<1>4. CASE n \in DOMAIN S
  BY <1>1, <1>2, <1>4 DEF A, Grows
<1> QED
  BY <1>3, <1>4

(***************************************************************************)
(* Without its first piece the rest still grows, and the first was before  *)
(* it.                                                                     *)
(***************************************************************************)
LEMMA GrowsInTail ==
  ASSUME NEW S \in Seq(Datagram), Grows(S), S # <<>>
  PROVE  /\ Grows(Tail(S))
         /\ \A n \in DOMAIN Tail(S) :
              /\ Tail(S)[n].req = Head(S).req /\ Tail(S)[n].piece # Blank
                   => Head(S).piece < Tail(S)[n].piece
              /\ \E m \in DOMAIN S : Tail(S)[n] = S[m]
<1>1. /\ \A n \in DOMAIN Tail(S) : n \in Nat /\ n + 1 \in DOMAIN S /\ Tail(S)[n] = S[n + 1]
      /\ Head(S) = S[1] /\ 1 \in DOMAIN S
      /\ \A n \in DOMAIN Tail(S) : 1 < n + 1
  OBVIOUS
<1>2. Grows(Tail(S))
  BY <1>1 DEF Grows
<1> QED
  BY <1>1, <1>2 DEF Grows

(***************************************************************************)
(* Every step keeps the run that waits bound to the port.                  *)
(***************************************************************************)
LEMMA BoundStep == TypeOK /\ ClientTypeOK /\ BoundInv /\ [Next]_vars => BoundInv'
<1> SUFFICES ASSUME TypeOK, ClientTypeOK, BoundInv, [Next]_vars PROVE BoundInv'
  OBVIOUS
<1>a. client \in [Session -> {"new", "wait", "failed", "done"}] /\ 0 \notin Session
  BY ServerAssumption DEF ClientTypeOK
<1> USE <1>a DEF BoundInv, clientVars, sockets, NextToStart
<1>1. ASSUME Receive, UNCHANGED clientVars PROVE BoundInv'
  BY <1>1 DEF Receive
<1>2. ASSUME ForkFails, UNCHANGED clientVars PROVE BoundInv'
  BY <1>2 DEF ForkFails
<1>3. ASSUME EnterHandler, UNCHANGED clientVars PROVE BoundInv'
  BY <1>3 DEF EnterHandler
<1>4. ASSUME kidhandler, UNCHANGED clientVars PROVE BoundInv'
  BY <1>4 DEF kidhandler
<1>5. ASSUME NEW c \in Kid, Fork(c), UNCHANGED clientVars PROVE BoundInv'
  BY <1>5 DEF Fork
<1>6. ASSUME NEW c \in Kid, Open(c), UNCHANGED clientVars PROVE BoundInv'
  BY <1>6 DEF Open
<1>7. ASSUME NEW c \in Kid, OpenFails(c), UNCHANGED clientVars PROVE BoundInv'
  BY <1>7 DEF OpenFails
<1>8. ASSUME NEW c \in Kid, SendPiece(c), UNCHANGED clientVars PROVE BoundInv'
  BY <1>8 DEF SendPiece
<1>9. ASSUME NEW c \in Kid, SendFails(c), UNCHANGED clientVars PROVE BoundInv'
  BY <1>9 DEF SendFails
<1>10. ASSUME NEW c \in Kid, SendNotFound(c), UNCHANGED clientVars PROVE BoundInv'
  BY <1>10 DEF SendNotFound
<1>11. ASSUME NEW c \in Kid, writelog(c), UNCHANGED clientVars PROVE BoundInv'
  BY <1>11 DEF writelog
<1>12. ASSUME NEW c \in Kid, Exit(c), UNCHANGED clientVars PROVE BoundInv'
  BY <1>12 DEF Exit
<1>13. ASSUME NEW s \in Session, Start(s), UNCHANGED serverVars PROVE BoundInv'
  BY <1>13 DEF Start
<1>14. ASSUME NEW s \in Session, BindFails(s), UNCHANGED serverVars PROVE BoundInv'
  BY <1>14 DEF BindFails
<1>15. ASSUME NEW s \in Session, Show(s), UNCHANGED serverVars PROVE BoundInv'
  BY <1>15 DEF Show
<1>16. ASSUME NEW s \in Session, TimeOut(s), UNCHANGED serverVars PROVE BoundInv'
  BY <1>16 DEF TimeOut
<1>17. CASE UNCHANGED vars
  BY <1>17 DEF vars, serverVars, clientVars, parentVars, sockets
<1>18. ASSUME NEW c \in Kid, SendBlank(c), UNCHANGED clientVars PROVE BoundInv'
  BY <1>18 DEF SendBlank
<1> QED
  BY <1>1, <1>2, <1>3, <1>4, <1>5, <1>6, <1>7, <1>8, <1>9, <1>10, <1>11,
     <1>12, <1>13, <1>14, <1>15, <1>16, <1>17, <1>18
  DEF Next, ServerNext, ClientNext, ParentStep, Handler, KidStep, KidWorks, Run

(***************************************************************************)
(* Every step keeps missing files unsent.                                  *)
(***************************************************************************)
LEMMA SentStep == TypeOK /\ SentInv /\ [Next]_vars => SentInv'
<1> SUFFICES ASSUME TypeOK, SentInv, [Next]_vars PROVE SentInv'
  OBVIOUS
<1>a. kid \in [Kid -> KidState]
  BY DEF TypeOK
<1> USE <1>a DEF SentInv, Missing, KidState, Zombies, serverVars
<1>1. ASSUME Receive, UNCHANGED clientVars PROVE SentInv'
  BY <1>1 DEF Receive
<1>2. ASSUME ForkFails, UNCHANGED clientVars PROVE SentInv'
  BY <1>2 DEF ForkFails
<1>3. ASSUME EnterHandler, UNCHANGED clientVars PROVE SentInv'
  BY <1>3 DEF EnterHandler
<1>4. ASSUME kidhandler, UNCHANGED clientVars PROVE SentInv'
  BY <1>4 DEF kidhandler
<1>5. ASSUME NEW c \in Kid, Fork(c), UNCHANGED clientVars PROVE SentInv'
  BY <1>5 DEF Fork
<1>6. ASSUME NEW c \in Kid, Open(c), UNCHANGED clientVars PROVE SentInv'
  BY <1>6 DEF Open
<1>7. ASSUME NEW c \in Kid, OpenFails(c), UNCHANGED clientVars PROVE SentInv'
  BY <1>7 DEF OpenFails
<1>8. ASSUME NEW c \in Kid, SendPiece(c), UNCHANGED clientVars PROVE SentInv'
  BY <1>8 DEF SendPiece
<1>9. ASSUME NEW c \in Kid, SendFails(c), UNCHANGED clientVars PROVE SentInv'
  BY <1>9 DEF SendFails
<1>10. ASSUME NEW c \in Kid, SendNotFound(c), UNCHANGED clientVars PROVE SentInv'
  BY <1>10 DEF SendNotFound
<1>11. ASSUME NEW c \in Kid, writelog(c), UNCHANGED clientVars PROVE SentInv'
  BY <1>11 DEF writelog
<1>12. ASSUME NEW c \in Kid, Exit(c), UNCHANGED clientVars PROVE SentInv'
  BY <1>12 DEF Exit
<1>13. ASSUME NEW s \in Session, Start(s), UNCHANGED serverVars PROVE SentInv'
  BY <1>13 DEF Start
<1>14. ASSUME NEW s \in Session, BindFails(s), UNCHANGED serverVars PROVE SentInv'
  BY <1>14 DEF BindFails
<1>15. ASSUME NEW s \in Session, Show(s), UNCHANGED serverVars PROVE SentInv'
  BY <1>15 DEF Show
<1>16. ASSUME NEW s \in Session, TimeOut(s), UNCHANGED serverVars PROVE SentInv'
  BY <1>16 DEF TimeOut
<1>17. CASE UNCHANGED vars
  BY <1>17 DEF vars, serverVars, clientVars, parentVars, sockets
<1>18. ASSUME NEW c \in Kid, SendBlank(c), UNCHANGED clientVars PROVE SentInv'
  BY <1>18 DEF SendBlank
<1> QED
  BY <1>1, <1>2, <1>3, <1>4, <1>5, <1>6, <1>7, <1>8, <1>9, <1>10, <1>11,
     <1>12, <1>13, <1>14, <1>15, <1>16, <1>17, <1>18
  DEF Next, ServerNext, ClientNext, ParentStep, Handler, KidStep, KidWorks, Run

Posts(c, d) ==
  /\ kid[c].pc = "send" /\ kid[c].req = d.req
  /\ d.piece # Blank =>
       d.piece = IF Missing(kid[c].req.name) THEN 0 ELSE kid[c].sent + 1
  /\ kid'[c].pc # "none" /\ kid'[c].req = kid[c].req
  /\ d.piece <= kid'[c].sent /\ (d.piece = 0 => kid'[c].pc \in Ended)
  /\ bound # 0 /\ mailbox' = Append(mailbox, d)
  /\ UNCHANGED <<printed, bound>>

(***************************************************************************)
(* How a step may change what is in the socket buffer of the client and    *)
(* what is printed.                                                        *)
(***************************************************************************)
LEMMA Sockets ==
  ASSUME TypeOK, ClientTypeOK, ReqInv, [Next]_vars
  PROVE  \/ UNCHANGED <<mailbox, printed, bound>>
         \/ \E c \in Kid, d \in Datagram : Posts(c, d)
         \/ \E s \in Session : Start(s) \/ Show(s) \/ TimeOut(s)
<1> DEFINE G == \/ UNCHANGED <<mailbox, printed, bound>>
                \/ \E c \in Kid, d \in Datagram : Posts(c, d)
                \/ \E s \in Session : Start(s) \/ Show(s) \/ TimeOut(s)
<1> SUFFICES G
  OBVIOUS
<1> USE DEF sockets, clientVars
<1>1. ASSUME Receive, UNCHANGED clientVars PROVE G
  BY <1>1 DEF Receive
<1>2. ASSUME ForkFails, UNCHANGED clientVars PROVE G
  BY <1>2 DEF ForkFails
<1>3. ASSUME EnterHandler, UNCHANGED clientVars PROVE G
  BY <1>3 DEF EnterHandler
<1>4. ASSUME kidhandler, UNCHANGED clientVars PROVE G
  BY <1>4 DEF kidhandler
<1>5. ASSUME NEW c \in Kid, Fork(c), UNCHANGED clientVars PROVE G
  BY <1>5 DEF Fork
<1>6. ASSUME NEW c \in Kid, Open(c), UNCHANGED clientVars PROVE G
  BY <1>6 DEF Open
<1>7. ASSUME NEW c \in Kid, OpenFails(c), UNCHANGED clientVars PROVE G
  BY <1>7 DEF OpenFails
<1>8. ASSUME NEW c \in Kid, SendPiece(c), UNCHANGED clientVars PROVE G
  <2>1. kid[c] \in KidState /\ kid[c].pc = "send" /\ kid[c].req \in Request
    BY <1>8 DEF SendPiece, TypeOK, ReqInv
  <2> DEFINE n == kid[c].sent + 1
  <2>2. kid[c].sent \in Nat /\ n \in Nat
    BY <2>1 DEF KidState
  <2> DEFINE d == [req |-> kid[c].req, piece |-> n]
  <2>3. d \in Datagram /\ d.req = kid[c].req /\ d.piece = n
    BY <2>1, <2>2, Wires DEF Blank
  <2>4. /\ Transmit(d)
        /\ UNCHANGED <<printed, bound>>
    BY <1>8 DEF SendPiece
  <2>5. /\ kid'[c].pc # "none" /\ kid'[c].req = kid[c].req
        /\ n <= kid'[c].sent /\ (n = 0 => kid'[c].pc \in Ended)
        /\ n = IF Missing(kid[c].req.name) THEN 0 ELSE kid[c].sent + 1
    BY <1>8, <2>1, <2>2 DEF SendPiece, Missing, TypeOK, KidState, Ended
  <2> HIDE DEF d, n
  <2>6. CASE mailbox' = mailbox
    BY <2>4, <2>6
  <2>7. CASE mailbox' # mailbox
    <3>1. bound # 0 /\ mailbox' = Append(mailbox, d)
      BY <2>4, <2>7 DEF Transmit
    <3>2. Posts(c, d)
      BY <2>1, <2>3, <2>4, <2>5, <3>1 DEF Posts
    <3> QED
      BY <2>3, <3>2
  <2> QED
    BY <2>6, <2>7
<1>9. ASSUME NEW c \in Kid, SendFails(c), UNCHANGED clientVars PROVE G
  BY <1>9 DEF SendFails
<1>10. ASSUME NEW c \in Kid, SendNotFound(c), UNCHANGED clientVars PROVE G
  <2>1. kid[c] \in KidState /\ kid[c].pc = "send" /\ kid[c].req \in Request
    BY <1>10 DEF SendNotFound, TypeOK, ReqInv
  <2> DEFINE n == 0
  <2>2. kid[c].sent \in Nat /\ n \in Nat
    BY <2>1 DEF KidState
  <2> DEFINE d == [req |-> kid[c].req, piece |-> n]
  <2>3. d \in Datagram /\ d.req = kid[c].req /\ d.piece = n
    BY <2>1, <2>2, Wires DEF Blank
  <2>4. /\ Transmit(d) \/ UNCHANGED mailbox
        /\ UNCHANGED <<printed, bound>>
    BY <1>10 DEF SendNotFound
  <2>5. /\ kid'[c].pc # "none" /\ kid'[c].req = kid[c].req
        /\ n <= kid'[c].sent /\ (n = 0 => kid'[c].pc \in Ended)
        /\ n = IF Missing(kid[c].req.name) THEN 0 ELSE kid[c].sent + 1
    BY <1>10, <2>1, <2>2 DEF SendNotFound, TypeOK, KidState, Ended
  <2> HIDE DEF d, n
  <2>6. CASE mailbox' = mailbox
    BY <2>4, <2>6
  <2>7. CASE mailbox' # mailbox
    <3>1. bound # 0 /\ mailbox' = Append(mailbox, d)
      BY <2>4, <2>7 DEF Transmit
    <3>2. Posts(c, d)
      BY <2>1, <2>3, <2>4, <2>5, <3>1 DEF Posts
    <3> QED
      BY <2>3, <3>2
  <2> QED
    BY <2>6, <2>7
<1>11. ASSUME NEW c \in Kid, writelog(c), UNCHANGED clientVars PROVE G
  BY <1>11 DEF writelog
<1>12. ASSUME NEW c \in Kid, Exit(c), UNCHANGED clientVars PROVE G
  BY <1>12 DEF Exit
<1>13. ASSUME NEW s \in Session, Start(s), UNCHANGED serverVars PROVE G
  BY <1>13
<1>14. ASSUME NEW s \in Session, BindFails(s), UNCHANGED serverVars PROVE G
  BY <1>14 DEF BindFails
<1>15. ASSUME NEW s \in Session, Show(s), UNCHANGED serverVars PROVE G
  BY <1>15
<1>16. ASSUME NEW s \in Session, TimeOut(s), UNCHANGED serverVars PROVE G
  BY <1>16
<1>17. CASE UNCHANGED vars
  BY <1>17 DEF vars, serverVars, clientVars, parentVars, sockets
<1>18. ASSUME NEW c \in Kid, SendBlank(c), UNCHANGED clientVars PROVE G
  <2>1. kid[c] \in KidState /\ kid[c].pc = "send" /\ kid' = kid
    BY <1>18 DEF SendBlank, TypeOK
  <2> DEFINE d == [req |-> kid[c].req, piece |-> Blank]
  <2>2. d \in Datagram /\ d.req = kid[c].req /\ d.piece = Blank
    BY <2>1, Wires
  <2>3. Transmit(d) /\ UNCHANGED <<printed, bound>>
    BY <1>18 DEF SendBlank
  <2>4. Blank <= kid[c].sent /\ Blank # 0
    BY <2>1 DEF KidState, Blank
  <2> HIDE DEF d
  <2>5. CASE mailbox' = mailbox
    BY <2>3, <2>5
  <2>6. CASE mailbox' # mailbox
    <3>1. bound # 0 /\ mailbox' = Append(mailbox, d)
      BY <2>3, <2>6 DEF Transmit
    <3>2. Posts(c, d)
      BY <2>1, <2>2, <2>3, <2>4, <3>1 DEF Posts
    <3> QED
      BY <2>2, <3>2
  <2> QED
    BY <2>5, <2>6
<1> QED
  BY <1>1, <1>2, <1>3, <1>4, <1>5, <1>6, <1>7, <1>8, <1>9, <1>10, <1>11,
     <1>12, <1>13, <1>14, <1>15, <1>16, <1>17, <1>18
  DEF Next, ServerNext, ClientNext, ParentStep, Handler, KidStep, KidWorks, Run

(***************************************************************************)
(* Every datagram that is on its way or printed comes from a child.        *)
(***************************************************************************)
LEMMA KnownStep ==
  TypeOK /\ ClientTypeOK /\ ReqInv /\ KnownInv /\ [Next]_vars => KnownInv'
<1> SUFFICES ASSUME TypeOK, ClientTypeOK, ReqInv, KnownInv, [Next]_vars PROVE KnownInv'
  OBVIOUS
<1> DEFINE K(d) == \E c \in Kid : /\ kid'[c].pc # "none" /\ kid'[c].req = d.req
                                  /\ d.piece <= kid'[c].sent
                                  /\ d.piece = 0 => kid'[c].pc \in Ended
<1>a. mailbox \in Seq(Datagram) /\ printed \in [Session -> Seq(Datagram)]
  BY DEF TypeOK, ClientTypeOK
<1>b. ASSUME NEW d \in Datagram, Known(d) PROVE K(d)
  <2>1. d.piece \in Nat \cup {Blank}
    BY DEF Datagram
  <2>2. Known(d)'
    BY <1>b, <2>1, KnownStays
  <2> QED
    BY <2>2 DEF Known
<1>c. \A m \in DOMAIN mailbox : K(mailbox[m])
  <2> SUFFICES ASSUME NEW m \in DOMAIN mailbox PROVE K(mailbox[m])
    OBVIOUS
  <2>1. mailbox[m] \in Datagram /\ Known(mailbox[m])
    BY <1>a DEF KnownInv
  <2> HIDE DEF K
  <2> QED
    BY <1>b, <2>1
<1>d. \A s \in Session : \A m \in DOMAIN printed[s] : K(printed[s][m])
  <2> SUFFICES ASSUME NEW s \in Session, NEW m \in DOMAIN printed[s] PROVE K(printed[s][m])
    OBVIOUS
  <2>1. printed[s] \in Seq(Datagram)
    BY <1>a
  <2>2. printed[s][m] \in Datagram /\ Known(printed[s][m])
    BY <2>1 DEF KnownInv
  <2> HIDE DEF K
  <2> QED
    BY <1>b, <2>2
<1>e. SUFFICES /\ \A m \in DOMAIN mailbox' : K(mailbox'[m])
               /\ \A s \in Session : \A m \in DOMAIN printed'[s] : K(printed'[s][m])
  BY DEF KnownInv, Known
<1> HIDE DEF K
<1>1. CASE UNCHANGED <<mailbox, printed, bound>>
  BY <1>1, <1>c, <1>d
<1>2. ASSUME NEW c \in Kid, NEW d \in Datagram, Posts(c, d)
      PROVE  /\ \A m \in DOMAIN mailbox' : K(mailbox'[m])
             /\ printed' = printed
  <2>1. K(d)
    BY <1>2 DEF Posts, K
  <2>2. mailbox' = Append(mailbox, d) /\ printed' = printed
    BY <1>2 DEF Posts
  <2>3. /\ DOMAIN mailbox' = DOMAIN mailbox \cup {Len(mailbox) + 1}
        /\ mailbox'[Len(mailbox) + 1] = d
        /\ \A m \in DOMAIN mailbox : mailbox'[m] = mailbox[m]
    BY <1>a, <2>2
  <2> QED
    BY <1>c, <2>1, <2>2, <2>3
<1>3. ASSUME NEW s \in Session, Start(s) \/ TimeOut(s)
      PROVE  mailbox' = <<>> /\ printed' = printed
  BY <1>3 DEF Start, TimeOut
<1>4. ASSUME NEW s \in Session, Show(s)
      PROVE  /\ \A m \in DOMAIN mailbox' : K(mailbox'[m])
             /\ \A t \in Session : \A m \in DOMAIN printed'[t] : K(printed'[t][m])
  <2>1. /\ mailbox # <<>> /\ mailbox' = Tail(mailbox)
        /\ \/ printed' = [printed EXCEPT ![s] = Append(printed[s], Head(mailbox))]
           \/ printed' = printed
    BY <1>4 DEF Show
  <2> DEFINE d == Head(mailbox)
  <2>2. d \in Datagram /\ K(d)
    <3>1. 1 \in DOMAIN mailbox /\ d = mailbox[1] /\ d \in Datagram
      BY <1>a, <2>1
    <3> QED
      BY <1>c, <3>1
  <2>3. \/ printed' = [printed EXCEPT ![s] = Append(printed[s], d)]
        \/ printed' = printed
    BY <2>1
  <2> HIDE DEF d
  <2>4. ASSUME NEW m \in DOMAIN mailbox' PROVE K(mailbox'[m])
    <3>1. m + 1 \in DOMAIN mailbox /\ mailbox'[m] = mailbox[m + 1]
      BY <1>a, <2>1
    <3> QED
      BY <1>c, <3>1
  <2>5. ASSUME NEW t \in Session, NEW m \in DOMAIN printed'[t] PROVE K(printed'[t][m])
    <3>0. CASE printed' = printed
      BY <1>d, <2>5, <3>0
    <3>1. CASE t = s /\ printed' # printed
      <4>1. printed[s] \in Seq(Datagram) /\ printed'[s] = Append(printed[s], d)
        BY <1>a, <2>3, <3>1
      <4>2. \/ m \in DOMAIN printed[s] /\ printed'[s][m] = printed[s][m]
            \/ printed'[s][m] = d
        BY <2>2, <2>5, <3>1, <4>1
      <4> QED
        BY <1>d, <2>2, <3>1, <4>2
    <3>2. CASE t # s
      <4>1. printed'[t] = printed[t]
        BY <1>a, <2>3, <3>2
      <4> QED
        BY <1>d, <2>5, <4>1
    <3> QED
      BY <3>0, <3>1, <3>2
  <2> QED
    BY <2>4, <2>5
<1>5. CASE \E s \in Session : Start(s) \/ TimeOut(s)
  <2>1. mailbox' = <<>> /\ printed' = printed /\ DOMAIN mailbox' = {}
    BY <1>3, <1>5
  <2> QED
    BY <1>d, <2>1
<1> QED
  BY <1>1, <1>2, <1>4, <1>5, <1>d, Sockets

(***************************************************************************)
(* Every step keeps the pieces growing, in the socket buffer and from what *)
(* is printed to it.                                                       *)
(***************************************************************************)
LEMMA GrowStep ==
  TypeOK /\ ClientTypeOK /\ ReqInv /\ FromInv /\ BoundInv /\ SentInv /\ KnownInv
    /\ GrowInv /\ [Next]_vars => GrowInv'
<1> SUFFICES ASSUME TypeOK, ClientTypeOK, ReqInv, FromInv, BoundInv, SentInv,
                    KnownInv, GrowInv, [Next]_vars
             PROVE  GrowInv'
  OBVIOUS
<1>a. /\ mailbox \in Seq(Datagram) /\ printed \in [Session -> Seq(Datagram)]
      /\ kid \in [Kid -> KidState] /\ 0 \notin Session
  BY ServerAssumption DEF TypeOK, ClientTypeOK
<1>1. CASE UNCHANGED <<mailbox, printed, bound>>
  BY <1>1 DEF GrowInv, Grows
<1>2. ASSUME NEW c \in Kid, NEW d \in Datagram, Posts(c, d) PROVE GrowInv'
  <2>1. ASSUME NEW e \in Datagram, Known(e), e.req = d.req, d.piece # Blank
        PROVE  e.piece < d.piece
    <3>1. PICK k \in Kid : /\ kid[k].pc # "none" /\ kid[k].req = e.req
                           /\ e.piece <= kid[k].sent
                           /\ e.piece = 0 => kid[k].pc \in Ended
      BY <2>1 DEF Known
    <3>2. kid[c].pc = "send" /\ kid[c].req = d.req
          /\ d.piece = (IF Missing(kid[c].req.name) THEN 0 ELSE kid[c].sent + 1)
      BY <1>2, <2>1 DEF Posts
    <3>3. k = c
      BY <2>1, <3>1, <3>2 DEF FromInv
    <3>4. kid[c].sent \in Nat /\ e.piece \in Nat \cup {-1}
      BY <1>a DEF KidState, Datagram, Blank
    <3>5. e.piece # 0
      BY <3>1, <3>2, <3>3 DEF Ended
    <3>6. Missing(kid[c].req.name) => kid[c].sent = 0
      BY DEF SentInv
    <3> QED
      BY <3>1, <3>2, <3>3, <3>4, <3>5, <3>6
  <2>2. /\ mailbox' = Append(mailbox, d) /\ printed' = printed /\ bound' = bound
    BY <1>2 DEF Posts
  <2>3. \A m \in DOMAIN mailbox :
          mailbox[m].req = d.req /\ d.piece # Blank => mailbox[m].piece < d.piece
    <3>1. \A m \in DOMAIN mailbox : mailbox[m] \in Datagram /\ Known(mailbox[m])
      BY <1>a DEF KnownInv
    <3> QED
      BY <2>1, <3>1
  <2>4. \A s \in Session : \A m \in DOMAIN printed[s] :
          printed[s][m].req = d.req /\ d.piece # Blank => printed[s][m].piece < d.piece
    <3>1. ASSUME NEW s \in Session, NEW m \in DOMAIN printed[s]
          PROVE  printed[s][m] \in Datagram /\ Known(printed[s][m])
      <4>1. printed[s] \in Seq(Datagram)
        BY <1>a
      <4> QED
        BY <4>1 DEF KnownInv
    <3> QED
      BY <2>1, <3>1
  <2>5. Grows(mailbox)'
    <3>1. Grows(Append(mailbox, d))
      BY <1>a, <2>3, GrowsByAppend DEF GrowInv
    <3> QED
      BY <2>2, <3>1 DEF Grows
  <2>6. /\ DOMAIN mailbox' = DOMAIN mailbox \cup {Len(mailbox) + 1}
        /\ mailbox'[Len(mailbox) + 1] = d
        /\ \A m \in DOMAIN mailbox : mailbox'[m] = mailbox[m]
    BY <1>a, <2>2
  <2>7. ASSUME NEW s \in Session
        PROVE  /\ Grows(printed[s])
               /\ \A m \in DOMAIN printed[s] : printed[s][m].piece # Blank
               /\ bound = s =>
                    \A m \in DOMAIN printed[s], n \in DOMAIN mailbox' :
                      printed[s][m].req = mailbox'[n].req /\ mailbox'[n].piece # Blank
                        => printed[s][m].piece < mailbox'[n].piece
    BY <2>4, <2>6 DEF GrowInv
  <2> QED
    BY <2>2, <2>5, <2>7 DEF GrowInv, Grows
<1>3. ASSUME NEW s \in Session, Start(s) \/ TimeOut(s) PROVE GrowInv'
  <2>1. DOMAIN mailbox' = {} /\ printed' = printed
    BY <1>3 DEF Start, TimeOut
  <2> QED
    BY <2>1 DEF GrowInv, Grows
<1>4. ASSUME NEW s \in Session, Show(s) PROVE GrowInv'
  <2> DEFINE d == Head(mailbox)
  <2>1. /\ mailbox # <<>> /\ mailbox' = Tail(mailbox) /\ bound' = bound
        /\ client[s] = "wait"
        /\ IF d.piece < 0 THEN printed' = printed
           ELSE printed' = [printed EXCEPT ![s] = Append(printed[s], d)]
    BY <1>4 DEF Show
  <2>2. 1 \in DOMAIN mailbox /\ d = mailbox[1] /\ d \in Datagram
    BY <1>a, <2>1
  <2>p. d.piece < 0 <=> d.piece = Blank
    BY <2>2 DEF Datagram, Blank
  <2> HIDE DEF d
  <2>3. bound = s
    BY <2>1 DEF BoundInv
  <2>4. /\ printed[s] \in Seq(Datagram)
        /\ IF d.piece = Blank THEN printed'[s] = printed[s]
                              ELSE printed'[s] = Append(printed[s], d)
        /\ \A t \in Session : t # s => printed'[t] = printed[t]
    BY <1>a, <2>1, <2>p
  <2>5. Grows(printed'[s]) /\ \A m \in DOMAIN printed'[s] : printed'[s][m].piece # Blank
    <3>1. \A m \in DOMAIN printed[s] :
            printed[s][m].req = d.req /\ d.piece # Blank => printed[s][m].piece < d.piece
      BY <2>2, <2>3 DEF GrowInv
    <3>2. CASE d.piece = Blank
      BY <2>4, <3>2 DEF GrowInv
    <3>3. CASE d.piece # Blank
      <4>1. Grows(Append(printed[s], d))
        BY <2>2, <2>4, <3>1, GrowsByAppend DEF GrowInv
      <4>2. \A m \in DOMAIN Append(printed[s], d) :
              \/ Append(printed[s], d)[m] = d
              \/ m \in DOMAIN printed[s] /\ Append(printed[s], d)[m] = printed[s][m]
        BY <2>2, <2>4
      <4> QED
        BY <2>4, <3>3, <4>1, <4>2 DEF GrowInv
    <3> QED
      BY <3>2, <3>3
  <2>6. /\ Grows(Tail(mailbox))
        /\ \A n \in DOMAIN Tail(mailbox) :
             Tail(mailbox)[n].req = Head(mailbox).req /\ Tail(mailbox)[n].piece # Blank
             => Head(mailbox).piece < Tail(mailbox)[n].piece
        /\ \A n \in DOMAIN Tail(mailbox) : \E m \in DOMAIN mailbox : Tail(mailbox)[n] = mailbox[m]
    BY <1>a, <2>1, GrowsInTail DEF GrowInv
  <2>7. ASSUME NEW m \in DOMAIN printed'[s], NEW n \in DOMAIN mailbox',
               printed'[s][m].req = mailbox'[n].req, mailbox'[n].piece # Blank
        PROVE  printed'[s][m].piece < mailbox'[n].piece
    <3>1. \/ m \in DOMAIN printed[s] /\ printed'[s][m] = printed[s][m]
          \/ printed'[s][m] = d
      BY <2>2, <2>4, <2>7
    <3>2. CASE m \in DOMAIN printed[s] /\ printed'[s][m] = printed[s][m]
      <4>1. PICK k \in DOMAIN mailbox : mailbox'[n] = mailbox[k]
        BY <2>1, <2>6, <2>7
      <4> QED
        BY <2>3, <2>7, <3>2, <4>1 DEF GrowInv
    <3>3. CASE printed'[s][m] = d
      BY <2>1, <2>6, <2>7, <3>3 DEF d
    <3> QED
      BY <3>1, <3>2, <3>3
  <2>8. ASSUME NEW t \in Session
        PROVE  /\ Grows(printed'[t])
               /\ \A m \in DOMAIN printed'[t] : printed'[t][m].piece # Blank
               /\ bound' = t =>
                    \A m \in DOMAIN printed'[t], n \in DOMAIN mailbox' :
                      printed'[t][m].req = mailbox'[n].req /\ mailbox'[n].piece # Blank
                        => printed'[t][m].piece < mailbox'[n].piece
    <3>1. CASE t = s
      BY <2>4, <2>5, <2>7, <3>1
    <3>2. CASE t # s
      BY <2>1, <2>3, <2>4, <3>2 DEF GrowInv
    <3> QED
      BY <3>1, <3>2
  <2>9. Grows(mailbox)'
    BY <2>1, <2>6 DEF Grows
  <2> QED
    BY <2>8, <2>9 DEF GrowInv, Grows
<1> QED
  BY <1>1, <1>2, <1>3, <1>4, Sockets

-----------------------------------------------------------------------------
(* The log.                                                                *)

(***************************************************************************)
(* What a child has ended with stays.                                      *)
(***************************************************************************)
LEMMA EndedStays ==
  ASSUME TypeOK, [Next]_vars, NEW k \in Kid, kid[k].pc \in Ended
  PROVE  kid'[k].pc \in Ended /\ kid'[k].req = kid[k].req /\ kid'[k].sent = kid[k].sent
<1>a. kid \in [Kid -> KidState]
  BY DEF TypeOK
<1> DEFINE G == /\ kid'[k].pc \in Ended /\ kid'[k].req = kid[k].req
                /\ kid'[k].sent = kid[k].sent
<1>b. SUFFICES G
  OBVIOUS
<1> USE <1>a DEF KidState, Ended, Zombies, serverVars, parentVars
<1>1. ASSUME Receive, UNCHANGED clientVars PROVE G
  BY <1>1 DEF Receive
<1>2. ASSUME ForkFails, UNCHANGED clientVars PROVE G
  BY <1>2 DEF ForkFails
<1>3. ASSUME EnterHandler, UNCHANGED clientVars PROVE G
  BY <1>3 DEF EnterHandler
<1>4. ASSUME kidhandler, UNCHANGED clientVars PROVE G
  BY <1>4 DEF kidhandler
<1>5. ASSUME NEW c \in Kid, Fork(c), UNCHANGED clientVars PROVE G
  BY <1>5 DEF Fork
<1>6. ASSUME NEW c \in Kid, Open(c), UNCHANGED clientVars PROVE G
  BY <1>6 DEF Open
<1>7. ASSUME NEW c \in Kid, OpenFails(c), UNCHANGED clientVars PROVE G
  BY <1>7 DEF OpenFails
<1>8. ASSUME NEW c \in Kid, SendPiece(c), UNCHANGED clientVars PROVE G
  BY <1>8 DEF SendPiece
<1>9. ASSUME NEW c \in Kid, SendFails(c), UNCHANGED clientVars PROVE G
  BY <1>9 DEF SendFails
<1>10. ASSUME NEW c \in Kid, SendNotFound(c), UNCHANGED clientVars PROVE G
  BY <1>10 DEF SendNotFound
<1>11. ASSUME NEW c \in Kid, writelog(c), UNCHANGED clientVars PROVE G
  BY <1>11 DEF writelog
<1>12. ASSUME NEW c \in Kid, Exit(c), UNCHANGED clientVars PROVE G
  BY <1>12 DEF Exit
<1>13. ASSUME NEW s \in Session, Start(s), UNCHANGED serverVars PROVE G
  BY <1>13 DEF Start
<1>14. ASSUME NEW s \in Session, BindFails(s), UNCHANGED serverVars PROVE G
  BY <1>14 DEF BindFails
<1>15. ASSUME NEW s \in Session, Show(s), UNCHANGED serverVars PROVE G
  BY <1>15 DEF Show
<1>16. ASSUME NEW s \in Session, TimeOut(s), UNCHANGED serverVars PROVE G
  BY <1>16 DEF TimeOut
<1>17. CASE UNCHANGED vars
  BY <1>17 DEF vars, serverVars, clientVars, parentVars, sockets
<1>18. ASSUME NEW c \in Kid, SendBlank(c), UNCHANGED clientVars PROVE G
  BY <1>18 DEF SendBlank
<1> QED
  BY <1>1, <1>2, <1>3, <1>4, <1>5, <1>6, <1>7, <1>8, <1>9, <1>10, <1>11,
     <1>12, <1>13, <1>14, <1>15, <1>16, <1>17, <1>18
  DEF Next, ServerNext, ClientNext, ParentStep, Handler, KidStep, KidWorks, Run

(***************************************************************************)
(* A child comes to the log with a position and a flag that fit what it    *)
(* has sent.                                                               *)
(***************************************************************************)
Ready(c) ==
  LET missing == Missing(kid[c].req.name)
      first   == LineLen[kid[c].req.name][2]
  IN  /\ kid[c].pc \in {"none", "open", "send"} => kid[c].off = 0 /\ kid[c].flag = 0
      /\ kid[c].pc \in {"none", "open"} => kid[c].sent = 0
      /\ kid[c].pc = "send" => missing \/ ~ AllSent(c)
      /\ kid[c].pc = "log" =>
           \/ kid[c].flag = 1 /\ kid[c].off = 0 /\ missing
           \/ kid[c].flag = 2 /\ kid[c].off = 0 /\ ~ missing /\ ~ AllSent(c)
           \/ kid[c].flag = 0 /\ kid[c].off = 0 /\ ~ missing /\ AllSent(c)
           \/ kid[c].flag = 0 /\ kid[c].off = first /\ ~ missing /\ ~ AllSent(c)

ReadyInv == \A c \in Kid : Ready(c)

(***************************************************************************)
(* Every step keeps it so.                                                 *)
(***************************************************************************)
LEMMA ReadyStep == TypeOK /\ ReqInv /\ ReadyInv /\ [Next]_vars => ReadyInv'
<1> SUFFICES ASSUME TypeOK, ReqInv, ReadyInv, [Next]_vars PROVE ReadyInv'
  OBVIOUS
<1>a. kid \in [Kid -> KidState]
  BY DEF TypeOK
<1>b. \A k \in Kid : kid[k].sent \in Nat
  BY <1>a DEF KidState
<1>p. \A k \in Kid : Ready(k)
  BY DEF ReadyInv
<1> SUFFICES ASSUME NEW k \in Kid PROVE Ready(k)'
  BY DEF ReadyInv
<1> USE <1>a, <1>p DEF Ready, AllSent, AtEnd, Missing, KidState, Zombies, serverVars, parentVars
<1>1. ASSUME Receive, UNCHANGED clientVars PROVE Ready(k)'
  BY <1>1 DEF Receive
<1>2. ASSUME ForkFails, UNCHANGED clientVars PROVE Ready(k)'
  BY <1>2 DEF ForkFails
<1>3. ASSUME EnterHandler, UNCHANGED clientVars PROVE Ready(k)'
  BY <1>3 DEF EnterHandler
<1>4. ASSUME kidhandler, UNCHANGED clientVars PROVE Ready(k)'
  BY <1>4 DEF kidhandler
<1>5. ASSUME NEW c \in Kid, Fork(c), UNCHANGED clientVars PROVE Ready(k)'
  BY <1>5 DEF Fork
<1>6. ASSUME NEW c \in Kid, Open(c), UNCHANGED clientVars PROVE Ready(k)'
  BY <1>6 DEF Open
<1>7. ASSUME NEW c \in Kid, OpenFails(c), UNCHANGED clientVars PROVE Ready(k)'
  BY <1>7 DEF OpenFails
<1>8. ASSUME NEW c \in Kid, SendPiece(c), UNCHANGED clientVars PROVE Ready(k)'
  BY <1>8 DEF SendPiece
<1>9. ASSUME NEW c \in Kid, SendFails(c), UNCHANGED clientVars PROVE Ready(k)'
  BY <1>9 DEF SendFails
<1>10. ASSUME NEW c \in Kid, SendNotFound(c), UNCHANGED clientVars PROVE Ready(k)'
  BY <1>10 DEF SendNotFound
<1>11. ASSUME NEW c \in Kid, writelog(c), UNCHANGED clientVars PROVE Ready(k)'
  <2>1. CASE k # c
    BY <1>11, <2>1 DEF writelog
  <2>2. CASE k = c /\ kid[c].flag = 2
    <3> DEFINE first == LineLen[kid[c].req.name][2]
    <3>1. kid[c].off = 0 /\ ~ Missing(kid[c].req.name) /\ ~ AllSent(c)
      BY <1>11, <2>2 DEF writelog
    <3>2. first \in Nat
      BY <1>11, Lengths DEF writelog
    <3>3. kid' = [kid EXCEPT ![c].off = 0 + first, ![c].flag = 0, ![c].pc = "log"]
      BY <1>11, <2>2, <3>1 DEF writelog
    <3>4. /\ kid'[c].off = first /\ kid'[c].flag = 0 /\ kid'[c].pc = "log"
          /\ kid'[c].req = kid[c].req /\ kid'[c].sent = kid[c].sent
      BY <3>2, <3>3
    <3> QED
      BY <2>2, <3>1, <3>4
  <2>3. CASE k = c /\ kid[c].flag # 2
    <3>1. kid'[c].pc = "exit"
      BY <1>11, <2>3 DEF writelog
    <3> QED
      BY <2>3, <3>1
  <2> QED
    BY <2>1, <2>2, <2>3
<1>12. ASSUME NEW c \in Kid, Exit(c), UNCHANGED clientVars PROVE Ready(k)'
  BY <1>12 DEF Exit
<1>13. ASSUME NEW s \in Session, Start(s), UNCHANGED serverVars PROVE Ready(k)'
  BY <1>13 DEF Start
<1>14. ASSUME NEW s \in Session, BindFails(s), UNCHANGED serverVars PROVE Ready(k)'
  BY <1>14 DEF BindFails
<1>15. ASSUME NEW s \in Session, Show(s), UNCHANGED serverVars PROVE Ready(k)'
  BY <1>15 DEF Show
<1>16. ASSUME NEW s \in Session, TimeOut(s), UNCHANGED serverVars PROVE Ready(k)'
  BY <1>16 DEF TimeOut
<1>17. CASE UNCHANGED vars
  BY <1>17 DEF vars, serverVars, clientVars, parentVars, sockets
<1>18. ASSUME NEW c \in Kid, SendBlank(c), UNCHANGED clientVars PROVE Ready(k)'
  BY <1>18 DEF SendBlank
<1> QED
  BY <1>1, <1>2, <1>3, <1>4, <1>5, <1>6, <1>7, <1>8, <1>9, <1>10, <1>11,
     <1>12, <1>13, <1>14, <1>15, <1>16, <1>17, <1>18
  DEF Next, ServerNext, ClientNext, ParentStep, Handler, KidStep, KidWorks, Run

(***************************************************************************)
(* What a line tells of a child that has ended its work.                   *)
(***************************************************************************)
Told(c, n) ==
  /\ kid[c].pc \in Ended
  /\ IF log[n] = Hole THEN GaveUp(c) /\ n <= LineLen[kid[c].req.name][2]
                      ELSE kid[c].req = log[n].req /\ Tells(c, n, log[n].flag)

LinesInv == \A n \in DOMAIN log : \E c \in Kid : Told(c, n)

(***************************************************************************)
(* Only two steps change the log.                                          *)
(***************************************************************************)
LEMMA LogChanges ==
  ASSUME [Next]_vars
  PROVE  \/ log' = log
         \/ \E c \in Kid : Open(c) \/ writelog(c)
<1> DEFINE G == log' = log \/ \E c \in Kid : Open(c) \/ writelog(c)
<1> SUFFICES G
  OBVIOUS
<1> USE DEF serverVars
<1>1. ASSUME Receive, UNCHANGED clientVars PROVE G
  BY <1>1 DEF Receive
<1>2. ASSUME ForkFails, UNCHANGED clientVars PROVE G
  BY <1>2 DEF ForkFails
<1>3. ASSUME EnterHandler, UNCHANGED clientVars PROVE G
  BY <1>3 DEF EnterHandler
<1>4. ASSUME kidhandler, UNCHANGED clientVars PROVE G
  BY <1>4 DEF kidhandler
<1>5. ASSUME NEW c \in Kid, Fork(c), UNCHANGED clientVars PROVE G
  BY <1>5 DEF Fork
<1>6. ASSUME NEW c \in Kid, Open(c), UNCHANGED clientVars PROVE G
  BY <1>6
<1>7. ASSUME NEW c \in Kid, OpenFails(c), UNCHANGED clientVars PROVE G
  BY <1>7 DEF OpenFails
<1>8. ASSUME NEW c \in Kid, SendPiece(c), UNCHANGED clientVars PROVE G
  BY <1>8 DEF SendPiece
<1>9. ASSUME NEW c \in Kid, SendFails(c), UNCHANGED clientVars PROVE G
  BY <1>9 DEF SendFails
<1>10. ASSUME NEW c \in Kid, SendNotFound(c), UNCHANGED clientVars PROVE G
  BY <1>10 DEF SendNotFound
<1>11. ASSUME NEW c \in Kid, writelog(c), UNCHANGED clientVars PROVE G
  BY <1>11
<1>12. ASSUME NEW c \in Kid, Exit(c), UNCHANGED clientVars PROVE G
  BY <1>12 DEF Exit
<1>13. ASSUME NEW s \in Session, Start(s), UNCHANGED serverVars PROVE G
  BY <1>13 DEF Start
<1>14. ASSUME NEW s \in Session, BindFails(s), UNCHANGED serverVars PROVE G
  BY <1>14 DEF BindFails
<1>15. ASSUME NEW s \in Session, Show(s), UNCHANGED serverVars PROVE G
  BY <1>15 DEF Show
<1>16. ASSUME NEW s \in Session, TimeOut(s), UNCHANGED serverVars PROVE G
  BY <1>16 DEF TimeOut
<1>17. CASE UNCHANGED vars
  BY <1>17 DEF vars, serverVars, clientVars, parentVars, sockets
<1>18. ASSUME NEW c \in Kid, SendBlank(c), UNCHANGED clientVars PROVE G
  BY <1>18 DEF SendBlank
<1> QED
  BY <1>1, <1>2, <1>3, <1>4, <1>5, <1>6, <1>7, <1>8, <1>9, <1>10, <1>11,
     <1>12, <1>13, <1>14, <1>15, <1>16, <1>17, <1>18
  DEF Next, ServerNext, ClientNext, ParentStep, Handler, KidStep, KidWorks, Run

(***************************************************************************)
(* Every step keeps the lines as true as they are.                         *)
(***************************************************************************)
LEMMA LinesStep ==
  TypeOK /\ ReqInv /\ ReadyInv /\ LinesInv /\ [Next]_vars => LinesInv'
<1> SUFFICES ASSUME TypeOK, ReqInv, ReadyInv, LinesInv, [Next]_vars PROVE LinesInv'
  OBVIOUS
<1>a. log \in Seq(Line) /\ kid \in [Kid -> KidState] /\ Len(log) \in Nat
  BY DEF TypeOK
<1>b. ASSUME NEW n \in DOMAIN log, NEW k \in Kid, Told(k, n), log'[n] = log[n]
      PROVE  Told(k, n)'
  <2>1. kid'[k].pc \in Ended /\ kid'[k].req = kid[k].req /\ kid'[k].sent = kid[k].sent
    BY <1>b, EndedStays DEF Told
  <2> QED
    BY <1>b, <2>1 DEF Told, Tells, GaveUp, AllSent
<1>1. CASE log' = log
  BY <1>1, <1>b DEF LinesInv
<1>2. ASSUME NEW c \in Kid, Open(c) PROVE LinesInv'
  <2>1. log' = <<>>
    BY <1>2 DEF Open
  <2> QED
    BY <2>1 DEF LinesInv
<1>3. ASSUME NEW c \in Kid, writelog(c) PROVE LinesInv'
  <2>0. PICK flag \in 0 .. 2 : flag = kid[c].flag
    BY <1>a, <1>3 DEF KidState
  <2> DEFINE line == [req |-> kid[c].req, flag |-> kid[c].flag]
             len  == LineLen[kid[c].req.name]
             off  == kid[c].off
             end  == off + len[kid[c].flag]
             last == IF end < Len(log) THEN Len(log) ELSE end
  <2>1. /\ kid[c].pc = "log" /\ off \in Nat /\ kid[c].req \in Request
        /\ \A f \in 0 .. 2 : len[f] \in Nat \ {0}
        /\ len[kid[c].flag] \in Nat \ {0}
    <3>1. kid[c].pc = "log" /\ kid[c] \in KidState
      BY <1>a, <1>3 DEF writelog
    <3> QED
      BY <3>1, Lengths DEF KidState
  <2>2. \/ kid[c].flag = 1 /\ off = 0 /\ Missing(kid[c].req.name)
        \/ kid[c].flag = 2 /\ off = 0 /\ ~ Missing(kid[c].req.name) /\ ~ AllSent(c)
        \/ kid[c].flag = 0 /\ off = 0 /\ ~ Missing(kid[c].req.name) /\ AllSent(c)
        \/ kid[c].flag = 0 /\ off = len[2] /\ ~ Missing(kid[c].req.name) /\ ~ AllSent(c)
    BY <2>1 DEF ReadyInv, Ready
  <2>3. log' = [n \in 1 .. last |->
                  IF off < n /\ n <= end THEN line ELSE IF n <= Len(log) THEN log[n] ELSE Hole]
    BY <1>3 DEF writelog, Written
  <2>4. kid'[c].pc \in Ended /\ kid'[c].req = kid[c].req /\ kid'[c].sent = kid[c].sent
    BY <2>1, EndedStays DEF Ended
  <2>5. line # Hole
    <3>1. NoRequest \notin Request
      BY ServerAssumption DEF NoRequest, Request
    <3> QED
      BY <2>1, <3>1 DEF Hole
  <2>6. end \in Nat /\ last \in Nat /\ last >= Len(log)
    BY <1>a, <2>1
  <2>7. GaveUp(c)' <=> ~ Missing(kid[c].req.name) /\ ~ AllSent(c)
    BY <2>4 DEF GaveUp, AllSent
  <2>8. AllSent(c)' <=> AllSent(c)
    BY <2>4 DEF AllSent
  <2>9. SUFFICES ASSUME NEW n \in 1 .. last PROVE \E k \in Kid : Told(k, n)'
    BY <2>3 DEF LinesInv, Told
  <2>10. CASE off < n /\ n <= end
    <3>1. log'[n] = line
      BY <2>3, <2>9, <2>10
    <3>2. \/ kid[c].flag = 1 /\ n <= len[1] /\ Missing(kid[c].req.name)
          \/ kid[c].flag = 2 /\ n <= len[2] /\ GaveUp(c)'
          \/ kid[c].flag = 0 /\ n <= len[0] /\ ~ Missing(kid[c].req.name) /\ AllSent(c)
          \/ kid[c].flag = 0 /\ len[2] < n /\ n <= len[2] + len[0] /\ GaveUp(c)'
      <4>1. n \in Nat /\ off < n /\ n <= off + len[kid[c].flag]
        BY <2>6, <2>9, <2>10
      <4> HIDE DEF end, off, len, last, line
      <4> QED
        BY <2>1, <2>2, <2>7, <4>1
    <3>3. Tells(c, n, flag)'
      BY <2>0, <2>4, <2>8, <3>2 DEF Tells
    <3>4. log'[n].req = kid[c].req /\ log'[n].flag = flag
      BY <2>0, <3>1
    <3> HIDE DEF line, len, off, end, last
    <3>5. Told(c, n)'
      BY <2>4, <2>5, <3>1, <3>3, <3>4 DEF Told
    <3> QED
      BY <3>5
  <2>11. CASE ~ (off < n /\ n <= end) /\ n <= Len(log)
    <3>0. log'[n] = IF off < n /\ n <= end THEN line
                    ELSE IF n <= Len(log) THEN log[n] ELSE Hole
      BY <2>3, <2>9
    <3>1. n \in DOMAIN log /\ log'[n] = log[n]
      <4>1. log'[n] = log[n]
        BY <2>11, <3>0
      <4> HIDE DEF last
      <4>2. n \in DOMAIN log
        BY <1>a, <2>6, <2>9, <2>11
      <4> QED
        BY <4>1, <4>2
    <3> QED
      BY <1>b, <3>1 DEF LinesInv
  <2>12. CASE ~ (off < n /\ n <= end) /\ ~ (n <= Len(log))
    <3>1. log'[n] = Hole
      BY <2>3, <2>9, <2>12
    <3>2. n <= off /\ n >= 1
      BY <1>a, <2>1, <2>6, <2>9, <2>12
    <3>3. off = len[2] /\ ~ Missing(kid[c].req.name) /\ ~ AllSent(c)
      BY <2>2, <3>2
    <3> QED
      BY <2>4, <2>7, <3>1, <3>2, <3>3 DEF Told
  <2> QED
    BY <2>10, <2>11, <2>12
<1> QED
  BY <1>1, <1>2, <1>3, LogChanges

IInv == /\ TypeOK /\ ClientTypeOK /\ ReqInv /\ FromInv
        /\ IsFiniteSet(Zombies) /\ ZombiesAccountedFor
        /\ BoundInv /\ SentInv /\ KnownInv /\ GrowInv /\ ReadyInv /\ LinesInv

(***************************************************************************)
(* It all holds in every state.                                            *)
(***************************************************************************)
LEMMA Inductive == Spec => []IInv
<1>1. Init => IInv
  <2> SUFFICES ASSUME Init PROVE IInv
    OBVIOUS
  <2> USE DEF Init, ServerInit, ClientInit
  <2>1. kid \in [Kid -> KidState] /\ \A c \in Kid : kid[c].pc = "none" /\ kid[c].sent = 0
    BY DEF KidState
  <2>a. \A c \in Kid : kid[c].off = 0 /\ kid[c].flag = 0
    OBVIOUS
  <2>2. DOMAIN queue = {} /\ DOMAIN mailbox = {} /\ \A s \in Session : DOMAIN printed[s] = {}
    OBVIOUS
  <2>3. /\ queue \in Seq(Request) /\ log \in Seq(Line) /\ mailbox \in Seq(Datagram)
        /\ printed \in [Session -> Seq(Datagram)]
    OBVIOUS
  <2>4. TypeOK
    BY <2>1, <2>3 DEF TypeOK
  <2>5. ClientTypeOK
    BY <2>3 DEF ClientTypeOK
  <2>6. ReqInv
    BY <2>1 DEF ReqInv
  <2>7. FromInv
    BY <2>1, <2>2 DEF FromInv
  <2>8. IsFiniteSet(Zombies) /\ ZombiesAccountedFor
    <3>1. Zombies = {}
      BY <2>1 DEF Zombies
    <3> QED
      BY <3>1, FS_EmptySet DEF ZombiesAccountedFor
  <2>9. BoundInv
    BY ServerAssumption DEF BoundInv
  <2>10. SentInv
    BY <2>1 DEF SentInv
  <2>11. KnownInv /\ GrowInv
    BY <2>2 DEF KnownInv, GrowInv, Grows
  <2>12. ReadyInv
    BY <2>1, <2>a DEF ReadyInv, Ready
  <2>13. LinesInv
    BY DEF LinesInv
  <2> QED
    BY <2>4, <2>5, <2>6, <2>7, <2>8, <2>9, <2>10, <2>11, <2>12, <2>13 DEF IInv
<1>2. IInv /\ [Next]_vars => IInv'
  BY TypeStep, ReqStep, FromStep, ZombieStep, BoundStep, SentStep, KnownStep, GrowStep,
     ReadyStep, LinesStep
  DEF IInv
<1> QED
  BY <1>1, <1>2, PTL DEF Spec

(***************************************************************************)
(* No death of a child is overlooked but by SIGCHLDs that coalesce, for    *)
(* any number of children. (kidhandler, file_server.c:282)                 *)
(***************************************************************************)
THEOREM Zombies_Accounted == Spec => []ZombiesAccountedFor
  BY Inductive, PTL DEF IInv

(***************************************************************************)
(* No two children work on one request, whatever the parent receives while *)
(* they run. (fork, file_server.c:127)                                     *)
(***************************************************************************)
THEOREM OneChild == Spec => []OneChildPerRequest
<1>1. IInv => OneChildPerRequest
  <2> SUFFICES ASSUME IInv, NEW c \in Kid, NEW d \in Kid, kid[c].req # NoRequest,
                      kid[c].req.from = kid[d].req.from
               PROVE  c = d
    BY DEF OneChildPerRequest
  <2>1. kid[c].pc # "none" /\ kid[c].req.from \in Session
    BY DEF IInv, ReqInv, Request
  <2>2. NoRequest.from \notin Session
    BY ServerAssumption DEF NoRequest
  <2>3. kid[d].pc # "none"
    BY <2>1, <2>2 DEF IInv, ReqInv
  <2> QED
    BY <2>1, <2>3 DEF IInv, FromInv
<1> QED
  BY <1>1, Inductive, PTL

(***************************************************************************)
(* A client prints the pieces of an answer in the order of the file, none  *)
(* of them twice, for files and socket buffers of any size.                *)
(* (file_server.c:199, file_client.c:86)                                   *)
(***************************************************************************)
THEOREM PiecesArriveInOrder == Spec => []PiecesInOrder
<1>1. IInv => PiecesInOrder
  BY DEF IInv, GrowInv, Grows, PiecesInOrder
<1> QED
  BY <1>1, Inductive, PTL

(***************************************************************************)
(* Every byte of the log is of a line true of its child, but for the       *)
(* second line of a child that gave up, for any number of children, lines  *)
(* of any length and however they write over each other.                   *)
(* (file_server.c:153 and 261)                                             *)
(***************************************************************************)
THEOREM LogTrue == Spec => []LogBytesTrue
<1>1. IInv => LogBytesTrue
  BY DEF IInv, LinesInv, Told, LogBytesTrue
<1> QED
  BY <1>1, Inductive, PTL

(***************************************************************************)
(* Every variable of the server and its children keeps its type.           *)
(* (file_server.c:128)                                                     *)
(***************************************************************************)
THEOREM TypeCorrect == Spec => []TypeOK
  BY Inductive, PTL DEF IInv
=============================================================================
