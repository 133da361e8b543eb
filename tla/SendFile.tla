------------------------------ MODULE SendFile ------------------------------
(***************************************************************************)
(* How a child of Asn2b/file_server.c cuts a file into chunks: fgetc byte  *)
(* by byte, at most CHUNKLEN to a chunk, until the end-of-file flag is     *)
(* set; a "$" alone in a last chunk when the file ends with a full chunk;  *)
(* one sendto per chunk; and the lines it writes to the log.  strcat of a  *)
(* zero byte appends nothing.                                              *)
(***************************************************************************)
EXTENDS Integers, SequencesExt

CONSTANTS CHUNKLEN,  \* bytes to a chunk, 1024 in the code
          MaxSize    \* bound on the size of the files tried

ASSUME SendAssumption == CHUNKLEN \in Nat \ {0} /\ MaxSize \in Nat

Byte == {"x", "zero", "$"}

VARIABLES
  ifp,       \* the bytes of the file
  canRead,  \* FALSE for what opens but cannot be read, such as a directory
  pos,       \* how many of them have been read
  eof,       \* feof(ifp)
  chunk,     \* the string collected so far
  index,     \* calls of fgetc for it that returned a byte
  sent,      \* the chunks sent
  lines,     \* the flags of the lines written to the log
  sendPc

sendVars == <<ifp, canRead, pos, eof, chunk, index, sent, lines, sendPc>>

SendInit == /\ ifp \in UNION {[1 .. n -> Byte] : n \in 0 .. MaxSize}
        /\ canRead \in BOOLEAN
        /\ pos = 0
        /\ eof = FALSE
        /\ chunk = <<>>
        /\ index = 0
        /\ sent = <<>>
        /\ lines = <<>>
        /\ sendPc = "test"

\* while (!feof(ifp)): start an empty chunk.
NewChunk ==
  /\ sendPc = "test" /\ ~ eof
  /\ chunk' = <<>>
  /\ index' = 0
  /\ sendPc' = "read"
  /\ UNCHANGED <<ifp, canRead, pos, eof, sent, lines>>

\* fgetc returns a byte, and strcat appends it.
ReadByte ==
  /\ sendPc = "read" /\ index < CHUNKLEN
  /\ canRead /\ pos < Len(ifp)
  /\ pos' = pos + 1
  /\ chunk' = IF ifp[pos + 1] = "zero" THEN chunk ELSE Append(chunk, ifp[pos + 1])
  /\ index' = index + 1
  /\ UNCHANGED <<ifp, canRead, eof, sent, lines, sendPc>>

\* Faulty: the end marker is forgotten.
ReadEndUnmarked ==
  /\ sendPc = "read" /\ index < CHUNKLEN
  /\ canRead /\ pos = Len(ifp)
  /\ eof' = TRUE
  /\ sendPc' = "send"
  /\ UNCHANGED <<ifp, canRead, pos, chunk, index, sent, lines>>

\* Faulty: the end of the file is only noticed after a byte.
ReadEndLate ==
  /\ sendPc = "read" /\ index < CHUNKLEN
  /\ canRead /\ pos = Len(ifp)
  /\ eof' = (index # 0)
  /\ chunk' = IF index = 0 THEN Append(chunk, "$") ELSE chunk
  /\ sendPc' = "send"
  /\ UNCHANGED <<ifp, canRead, pos, index, sent, lines>>

\* fgetc returns EOF; a chunk without a byte becomes "$".
ReadEnd ==
  /\ sendPc = "read" /\ index < CHUNKLEN
  /\ canRead /\ pos = Len(ifp)
  /\ eof' = TRUE
  /\ chunk' = IF index = 0 THEN Append(chunk, "$") ELSE chunk
  /\ sendPc' = "send"
  /\ UNCHANGED <<ifp, canRead, pos, index, sent, lines>>

\* fgetc fails without reaching the end: EOF, but no end-of-file flag.
ReadFails ==
  /\ sendPc = "read" /\ index < CHUNKLEN
  /\ ~ canRead
  /\ index' = index + 1
  /\ UNCHANGED <<ifp, canRead, pos, eof, chunk, sent, lines, sendPc>>

\* Faulty: one byte fewer than the chunk holds.
ChunkFullEarly ==
  /\ sendPc = "read" /\ index = CHUNKLEN - 1
  /\ sendPc' = "send"
  /\ UNCHANGED <<ifp, canRead, pos, eof, chunk, index, sent, lines>>

ChunkFull ==
  /\ sendPc = "read" /\ index = CHUNKLEN
  /\ sendPc' = "send"
  /\ UNCHANGED <<ifp, canRead, pos, eof, chunk, index, sent, lines>>

\* The bound on sent is met only by what cannot be read: that is sent as
\* empty chunks for ever.
Send ==
  /\ sendPc = "send" /\ Len(sent) <= MaxSize
  /\ sent' = Append(sent, chunk)
  /\ sendPc' = "test"
  /\ UNCHANGED <<ifp, canRead, pos, eof, chunk, index, lines>>

\* sendto fails: that is logged, and the loop is left.
SendFails ==
  /\ sendPc = "send"
  /\ lines' = Append(lines, 2)
  /\ sendPc' = "log"
  /\ UNCHANGED <<ifp, canRead, pos, eof, chunk, index, sent>>

LoopDone ==
  /\ sendPc = "test" /\ eof
  /\ sendPc' = "log"
  /\ UNCHANGED <<ifp, canRead, pos, eof, chunk, index, sent, lines>>

\* The line that tells of success is written on both ways out of the loop.
LogSuccess ==
  /\ sendPc = "log"
  /\ lines' = Append(lines, 0)
  /\ sendPc' = "exit"
  /\ UNCHANGED <<ifp, canRead, pos, eof, chunk, index, sent>>

Work == \/ NewChunk \/ ReadByte \/ ReadEnd \/ ReadFails \/ ChunkFull
        \/ Send \/ LoopDone \/ LogSuccess

SendNext == Work \/ SendFails

SendSpec == SendInit /\ [][SendNext]_sendVars

\* The child keeps running; sendto need not ever fail.
SendFairSpec == SendSpec /\ WF_sendVars(Work)
-----------------------------------------------------------------------------
SendTypeOK ==
  /\ ifp \in Seq(Byte)
  /\ canRead \in BOOLEAN
  /\ pos \in 0 .. Len(ifp)
  /\ eof \in BOOLEAN
  /\ chunk \in Seq(Byte \ {"zero"}) /\ Len(chunk) <= CHUNKLEN
  /\ index \in 0 .. CHUNKLEN
  /\ sent \in Seq(Seq(Byte \ {"zero"}))
  /\ lines \in Seq({0, 2})
  /\ sendPc \in {"test", "read", "send", "log", "exit"}

\* The file has been sent and the log says so, and nothing else.
Complete == canRead /\ sendPc = "exit" /\ lines = <<0>>

(***************************************************************************)
(* A file takes one datagram more than it has full chunks, and no byte is  *)
(* read into a chunk that is never sent.  (file_server.c:182)              *)
(***************************************************************************)
OneLastChunk ==
  /\ (sendPc = "test" /\ ~ eof) => pos = (IF canRead THEN CHUNKLEN * Len(sent) ELSE 0)
  /\ Complete => Len(sent) = (Len(ifp) \div CHUNKLEN) + 1

\* What a reader makes of the first n bytes.
Text[n \in 0 .. Len(ifp)] ==
  IF n = 0 THEN <<>>
  ELSE IF ifp[n] = "zero" THEN Text[n - 1] ELSE Append(Text[n - 1], ifp[n])

(***************************************************************************)
(* The receiver who strings the chunks together gets the file without its  *)
(* zero bytes, and a "$" exactly when the size is a multiple of the chunk  *)
(* length, the empty file included.  (file_server.c:178)                   *)
(***************************************************************************)
DeliversText ==
  Complete => FlattenSeq(sent) =
                Text[Len(ifp)] \o (IF Len(ifp) % CHUNKLEN = 0 THEN <<"$">> ELSE <<>>)
=============================================================================
