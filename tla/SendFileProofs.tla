--------------------------- MODULE SendFileProofs ---------------------------
(***************************************************************************)
(* How many datagrams a file takes, for files and chunks of any size       *)
(* (Asn2b/file_server.c).                                                  *)
(***************************************************************************)
EXTENDS SendFile, SequenceTheorems, TLAPS

String == Seq(Byte \ {"zero"})

\* A chunk being collected has no more bytes than fgetc has returned.
FitInv == sendPc = "read" => Len(chunk) <= index

(***************************************************************************)
(* Every variable keeps its type, and a chunk never outgrows its buffer.   *)
(***************************************************************************)
LEMMA TypeStep == SendTypeOK /\ FitInv /\ [SendNext]_sendVars => SendTypeOK' /\ FitInv'
<1> SUFFICES ASSUME SendTypeOK, FitInv, [SendNext]_sendVars PROVE SendTypeOK' /\ FitInv'
  OBVIOUS
<1>c. CHUNKLEN \in Nat \ {0}
  BY SendAssumption
<1>t. /\ ifp \in Seq(Byte) /\ canRead \in BOOLEAN /\ pos \in 0 .. Len(ifp)
      /\ eof \in BOOLEAN /\ chunk \in String /\ Len(chunk) <= CHUNKLEN
      /\ index \in 0 .. CHUNKLEN /\ sent \in Seq(String) /\ lines \in Seq({0, 2})
      /\ sendPc \in {"test", "read", "send", "log", "exit"}
  BY DEF SendTypeOK, String
<1>n. /\ Len(ifp) \in Nat /\ Len(chunk) \in Nat
  BY <1>t DEF String
<1>1. CASE NewChunk
  <2>1. <<>> \in String /\ Len(<<>>) = 0
    BY DEF String
  <2>2. /\ UNCHANGED <<ifp, canRead, pos, eof, sent, lines>>
        /\ chunk' = <<>> /\ index' = 0 /\ sendPc' = "read"
    BY <1>1 DEF NewChunk
  <2>3. 0 \in 0 .. CHUNKLEN /\ 0 <= CHUNKLEN /\ 0 <= 0
    BY <1>c
  <2> QED
    BY <1>t, <2>1, <2>2, <2>3 DEF SendTypeOK, FitInv, String
<1>2. CASE ReadByte
  <2>1. /\ UNCHANGED <<ifp, canRead, eof, sent, lines, sendPc>>
        /\ sendPc = "read" /\ index < CHUNKLEN /\ pos < Len(ifp)
        /\ pos' = pos + 1 /\ index' = index + 1
        /\ chunk' = IF ifp[pos + 1] = "zero" THEN chunk ELSE Append(chunk, ifp[pos + 1])
    BY <1>2 DEF ReadByte
  <2>2. index' \in 0 .. CHUNKLEN /\ pos' \in 0 .. Len(ifp) /\ Len(chunk) <= index
    BY <1>c, <1>t, <1>n, <2>1 DEF FitInv
  <2>3. ifp[pos + 1] \in Byte
    <3>1. pos + 1 \in 1 .. Len(ifp)
      BY <1>t, <1>n, <2>1
    <3> QED
      BY <1>t, <3>1
  <2>4. chunk' \in String /\ Len(chunk') <= Len(chunk) + 1
    <3>1. CASE ifp[pos + 1] = "zero"
      BY <1>t, <1>n, <2>1, <3>1
    <3>2. CASE ifp[pos + 1] # "zero"
      <4>1. ifp[pos + 1] \in Byte \ {"zero"} /\ chunk' = Append(chunk, ifp[pos + 1])
        BY <2>1, <2>3, <3>2
      <4> HIDE DEF Byte
      <4> QED
        BY <1>t, <1>n, <4>1 DEF String
    <3> QED
      BY <3>1, <3>2
  <2>5. Len(chunk') \in Nat
    BY <2>4 DEF String
  <2>6. Len(chunk') <= index' /\ Len(chunk') <= CHUNKLEN
    BY <1>c, <1>t, <1>n, <2>1, <2>2, <2>4, <2>5
  <2> QED
    BY <1>t, <2>1, <2>2, <2>4, <2>6 DEF SendTypeOK, FitInv, String
<1>3. CASE ReadEnd
  <2>1. /\ UNCHANGED <<ifp, canRead, pos, index, sent, lines>>
        /\ sendPc = "read" /\ sendPc' = "send" /\ eof' = TRUE
        /\ chunk' = IF index = 0 THEN Append(chunk, "$") ELSE chunk
    BY <1>3 DEF ReadEnd
  <2>2. chunk' \in String /\ Len(chunk') <= CHUNKLEN
    <3>1. CASE index = 0
      <4>1. Len(chunk) = 0 /\ chunk' = Append(chunk, "$")
        BY <1>n, <2>1, <3>1 DEF FitInv
      <4>2. "$" \in Byte \ {"zero"}
        BY DEF Byte
      <4>3. chunk' \in String /\ Len(chunk') = 1
        BY <1>t, <4>1, <4>2 DEF String
      <4> QED
        BY <1>c, <4>3
    <3>2. CASE index # 0
      BY <1>t, <2>1, <3>2
    <3> QED
      BY <3>1, <3>2
  <2>3. eof' \in BOOLEAN /\ sendPc' \in {"test", "read", "send", "log", "exit"} /\ sendPc' # "read"
    BY <2>1
  <2> QED
    BY <1>t, <2>1, <2>2, <2>3 DEF SendTypeOK, FitInv, String
<1>4. CASE ReadFails
  <2>1. /\ UNCHANGED <<ifp, canRead, pos, eof, chunk, sent, lines, sendPc>>
        /\ sendPc = "read" /\ index < CHUNKLEN /\ index' = index + 1
    BY <1>4 DEF ReadFails
  <2>2. index' \in 0 .. CHUNKLEN /\ Len(chunk) <= index'
    BY <1>c, <1>t, <1>n, <2>1 DEF FitInv
  <2> QED
    BY <1>t, <2>1, <2>2 DEF SendTypeOK, FitInv, String
<1>5. CASE ChunkFull
  BY <1>t, <1>5 DEF ChunkFull, SendTypeOK, FitInv, String
<1>6. CASE Send
  <2>1. Append(sent, chunk) \in Seq(String)
    <3> HIDE DEF String
    <3> QED
      BY <1>t
  <2>2. /\ UNCHANGED <<ifp, canRead, pos, eof, chunk, index, lines>>
        /\ sent' = Append(sent, chunk) /\ sendPc' = "test"
    BY <1>6 DEF Send
  <2> QED
    BY <1>t, <2>1, <2>2 DEF SendTypeOK, FitInv, String
<1>7. CASE SendFails
  <2>1. Append(lines, 2) \in Seq({0, 2})
    BY <1>t
  <2>2. /\ UNCHANGED <<ifp, canRead, pos, eof, chunk, index, sent>>
        /\ lines' = Append(lines, 2) /\ sendPc' = "log"
    BY <1>7 DEF SendFails
  <2> QED
    BY <1>t, <2>1, <2>2 DEF SendTypeOK, FitInv, String
<1>8. CASE LoopDone
  BY <1>t, <1>8 DEF LoopDone, SendTypeOK, FitInv, String
<1>9. CASE LogSuccess
  <2>1. Append(lines, 0) \in Seq({0, 2})
    BY <1>t
  <2>2. /\ UNCHANGED <<ifp, canRead, pos, eof, chunk, index, sent>>
        /\ lines' = Append(lines, 0) /\ sendPc' = "exit"
    BY <1>9 DEF LogSuccess
  <2> QED
    BY <1>t, <2>1, <2>2 DEF SendTypeOK, FitInv, String
<1>10. CASE UNCHANGED sendVars
  BY <1>t, <1>10 DEF sendVars, SendTypeOK, FitInv, String
<1> QED
  BY <1>1, <1>2, <1>3, <1>4, <1>5, <1>6, <1>7, <1>8, <1>9, <1>10 DEF SendNext, Work

\* After k full chunks the file ends within the one being collected.
EndsAfter(k) == Len(ifp) = CHUNKLEN * k + index /\ index < CHUNKLEN

(***************************************************************************)
(* Where the reading stands: full chunks have been sent, and a shorter one *)
(* only when the file has ended.                                           *)
(***************************************************************************)
CutInv ==
  /\ ~ canRead => pos = 0 /\ ~ eof
  /\ canRead =>
       /\ sendPc = "test" /\ ~ eof => pos = CHUNKLEN * Len(sent)
       /\ sendPc = "read" => ~ eof /\ pos = CHUNKLEN * Len(sent) + index
       /\ sendPc = "send" /\ ~ eof => pos = CHUNKLEN * Len(sent) + CHUNKLEN
       /\ sendPc = "send" /\ eof => EndsAfter(Len(sent))
       /\ sendPc = "test" /\ eof => EndsAfter(Len(sent) - 1)
       /\ sendPc = "log" /\ Len(lines) = 0 => EndsAfter(Len(sent) - 1)
       /\ sendPc = "exit" /\ Len(lines) = 1 => EndsAfter(Len(sent) - 1)
  /\ sendPc \in {"test", "read", "send"} => Len(lines) = 0

(***************************************************************************)
(* Every step keeps it.                                                    *)
(***************************************************************************)
LEMMA CutStep == SendTypeOK /\ CutInv /\ [SendNext]_sendVars => CutInv'
<1> SUFFICES ASSUME SendTypeOK, CutInv, [SendNext]_sendVars PROVE CutInv'
  OBVIOUS
<1>t. /\ CHUNKLEN \in Nat \ {0} /\ index \in 0 .. CHUNKLEN
      /\ Len(ifp) \in Nat /\ pos \in 0 .. Len(ifp) /\ Len(sent) \in Nat /\ Len(lines) \in Nat
      /\ canRead \in BOOLEAN /\ eof \in BOOLEAN
      /\ sendPc \in {"test", "read", "send", "log", "exit"}
  BY SendAssumption DEF SendTypeOK
<1>m. \A k \in Nat : CHUNKLEN * k \in Nat
  BY <1>t
<1> USE DEF CutInv, EndsAfter
<1>1. CASE NewChunk
  BY <1>t, <1>m, <1>1 DEF NewChunk
<1>2. CASE ReadByte
  <2>1. /\ UNCHANGED <<ifp, canRead, eof, sent, lines, sendPc>>
        /\ sendPc = "read" /\ canRead
        /\ pos' = pos + 1 /\ index' = index + 1
    BY <1>2 DEF ReadByte
  <2>2. CHUNKLEN * Len(sent) \in Nat
    BY <1>t, <1>m
  <2>3. pos = CHUNKLEN * Len(sent) + index /\ ~ eof /\ Len(lines) = 0
    BY <2>1
  <2>4. pos' = CHUNKLEN * Len(sent) + index'
    BY <1>t, <2>1, <2>2, <2>3
  <2> QED
    BY <2>1, <2>3, <2>4
<1>3. CASE ReadEnd
  <2>1. /\ UNCHANGED <<ifp, canRead, pos, index, sent, lines>>
        /\ sendPc = "read" /\ sendPc' = "send" /\ eof' = TRUE /\ canRead
        /\ index < CHUNKLEN /\ pos = Len(ifp)
    BY <1>3 DEF ReadEnd
  <2> QED
    BY <2>1
<1>4. CASE ReadFails
  BY <1>4 DEF ReadFails
<1>5. CASE ChunkFull
  BY <1>t, <1>5 DEF ChunkFull
<1>6. CASE Send
  <2>1. /\ UNCHANGED <<ifp, canRead, pos, eof, index, lines>>
        /\ sent' = Append(sent, chunk) /\ sendPc' = "test" /\ sendPc = "send"
    BY <1>6 DEF Send
  <2>2. Len(sent') = Len(sent) + 1
    BY <2>1 DEF SendTypeOK
  <2>3. /\ Len(sent') - 1 = Len(sent)
        /\ CHUNKLEN * Len(sent') = CHUNKLEN * Len(sent) + CHUNKLEN
    BY <1>t, <2>2
  <2> QED
    BY <2>1, <2>3
<1>7. CASE SendFails
  <2>1. /\ UNCHANGED <<ifp, canRead, pos, eof, index, sent>>
        /\ lines' = Append(lines, 2) /\ sendPc' = "log"
    BY <1>7 DEF SendFails
  <2>2. Len(lines') = Len(lines) + 1
    BY <2>1 DEF SendTypeOK
  <2> QED
    BY <1>t, <2>1, <2>2
<1>8. CASE LoopDone
  BY <1>8 DEF LoopDone
<1>9. CASE LogSuccess
  <2>1. /\ UNCHANGED <<ifp, canRead, pos, eof, index, sent>>
        /\ lines' = Append(lines, 0) /\ sendPc' = "exit" /\ sendPc = "log"
    BY <1>9 DEF LogSuccess
  <2>2. Len(lines') = Len(lines) + 1
    BY <2>1 DEF SendTypeOK
  <2> QED
    BY <1>t, <2>1, <2>2
<1>10. CASE UNCHANGED sendVars
  BY <1>10 DEF sendVars
<1> QED
  BY <1>1, <1>2, <1>3, <1>4, <1>5, <1>6, <1>7, <1>8, <1>9, <1>10 DEF SendNext, Work

IInv == SendTypeOK /\ FitInv /\ CutInv

(***************************************************************************)
(* It all holds in every state.                                            *)
(***************************************************************************)
LEMMA Inductive == SendSpec => []IInv
<1>1. SendInit => IInv
  <2> SUFFICES ASSUME SendInit PROVE IInv
    OBVIOUS
  <2>1. /\ canRead \in BOOLEAN /\ pos = 0 /\ eof = FALSE /\ chunk = <<>> /\ index = 0
        /\ sent = <<>> /\ lines = <<>> /\ sendPc = "test"
    BY DEF SendInit
  <2>2. ifp \in Seq(Byte)
    <3>1. PICK n \in 0 .. MaxSize : ifp \in [1 .. n -> Byte]
      BY DEF SendInit
    <3>2. n \in Nat
      BY SendAssumption
    <3> QED
      BY <3>1, <3>2
  <2>3. CHUNKLEN \in Nat \ {0} /\ Len(ifp) \in Nat
    BY SendAssumption, <2>2
  <2>a. pos \in 0 .. Len(ifp) /\ index \in 0 .. CHUNKLEN
    BY <2>1, <2>3
  <2>b. chunk \in String /\ Len(chunk) <= CHUNKLEN
    BY <2>1, <2>3 DEF String
  <2>c. sent \in Seq(String) /\ lines \in Seq({0, 2})
    BY <2>1
  <2>d. eof \in BOOLEAN /\ sendPc \in {"test", "read", "send", "log", "exit"}
    BY <2>1
  <2>4. SendTypeOK
    BY <2>1, <2>2, <2>a, <2>b, <2>c, <2>d DEF SendTypeOK, String
  <2>5. FitInv /\ CutInv
    BY <2>1, <2>3 DEF FitInv, CutInv
  <2> QED
    BY <2>4, <2>5 DEF IInv
<1>2. IInv /\ [SendNext]_sendVars => IInv'
  BY TypeStep, CutStep DEF IInv
<1> QED
  BY <1>1, <1>2, PTL DEF SendSpec

(***************************************************************************)
(* A chunk never has more bytes than its buffer holds, and nothing else    *)
(* leaves its type. (file_server.c:182)                                    *)
(***************************************************************************)
THEOREM ChunksFit == SendSpec => []SendTypeOK
  BY Inductive, PTL DEF IInv

(***************************************************************************)
(* Whole chunks and a rest leave the number of the chunks as the quotient. *)
(***************************************************************************)
LEMMA Quotient ==
  ASSUME NEW c \in Nat \ {0}, NEW k \in Nat, NEW i \in Nat, i < c
  PROVE  (c * k + i) \div c = k
  OBVIOUS

(***************************************************************************)
(* A file takes one datagram more than it has full chunks, for files of    *)
(* any size and chunks of any length. (file_server.c:178)                  *)
(***************************************************************************)
THEOREM DatagramsOfAFile == SendSpec => []OneLastChunk
<1>1. IInv => OneLastChunk
  <2> SUFFICES ASSUME IInv PROVE OneLastChunk
    OBVIOUS
  <2>1. sendPc = "test" /\ ~ eof => pos = (IF canRead THEN CHUNKLEN * Len(sent) ELSE 0)
    BY DEF IInv, CutInv, SendTypeOK
  <2>2. ASSUME Complete PROVE Len(sent) = (Len(ifp) \div CHUNKLEN) + 1
    <3>1. Len(lines) = 1 /\ canRead /\ sendPc = "exit"
      BY <2>2 DEF Complete
    <3>2. Len(ifp) = CHUNKLEN * (Len(sent) - 1) + index /\ index < CHUNKLEN
      BY <3>1 DEF IInv, CutInv, EndsAfter
    <3>3. /\ CHUNKLEN \in Nat \ {0} /\ index \in Nat /\ Len(ifp) \in Nat /\ Len(sent) \in Nat
      BY SendAssumption DEF IInv, SendTypeOK
    <3>4. Len(sent) # 0
      BY <3>2, <3>3
    <3>5. (CHUNKLEN * (Len(sent) - 1) + index) \div CHUNKLEN = Len(sent) - 1
      BY <3>2, <3>3, <3>4, Quotient
    <3> QED
      BY <3>2, <3>3, <3>5
  <2> QED
    BY <2>1, <2>2 DEF OneLastChunk
<1> QED
  BY <1>1, Inductive, PTL
-----------------------------------------------------------------------------
(***************************************************************************)
(* What the receiver strings together.  Text and FlattenSeq are recursive  *)
(* functions, so the invariant speaks of every function that obeys their   *)
(* equations as far as the reading and the sending have come, and says     *)
(* that there is one.                                                      *)
(***************************************************************************)
TextRule(f, k) ==
  IF k = 0 THEN <<>>
  ELSE IF ifp[k] = "zero" THEN f[k - 1] ELSE Append(f[k - 1], ifp[k])

JoinRule(s, g, k) == IF k = 1 THEN s[k] ELSE g[k - 1] \o s[k]

IsText(f, n) == /\ f = [k \in 0 .. n |-> f[k]]
                /\ \A k \in 0 .. n : f[k] = TextRule(f, k)

IsJoin(g, s) == /\ g = [k \in 1 .. Len(s) |-> g[k]]
                /\ \A k \in 1 .. Len(s) : g[k] = JoinRule(s, g, k)

Joined(g, s) == IF Len(s) = 0 THEN <<>> ELSE g[Len(s)]

\* No chunk was lost: sendto has not failed.
Whole == \/ sendPc \in {"test", "read", "send"}
         \/ sendPc = "log" /\ Len(lines) = 0
         \/ sendPc = "exit" /\ Len(lines) = 1

\* What has been read and not yet sent, and the end marker.
Open == IF sendPc \in {"read", "send"} THEN chunk ELSE <<>>
Mark == IF eof /\ index = 0 THEN <<"$">> ELSE <<>>

TextInv == /\ \E f : IsText(f, pos)
           /\ \A f : IsText(f, pos) => f[pos] \in Seq(Byte)

JoinInv == /\ \E g : IsJoin(g, sent)
           /\ \A g : IsJoin(g, sent) => Joined(g, sent) \in Seq(Byte)

SameInv == Whole => \A f, g : IsText(f, pos) /\ IsJoin(g, sent) =>
                      Joined(g, sent) \o Open = f[pos] \o Mark

(***************************************************************************)
(* Appending to the second of two sequences appends to both together.      *)
(***************************************************************************)
LEMMA AppendLast ==
  ASSUME NEW S, NEW s \in Seq(S), NEW t \in Seq(S), NEW b \in S
  PROVE  s \o Append(t, b) = Append(s \o t, b)
<1>1. Append(t, b) = t \o <<b>> /\ Append(s \o t, b) = (s \o t) \o <<b>>
  BY AppendIsConcat, ConcatProperties
<1>2. <<b>> \in Seq(S)
  OBVIOUS
<1> QED
  BY <1>1, <1>2, ConcatAssociative

(***************************************************************************)
(* Up to the byte before, what reads one byte more is a text, and every    *)
(* text can be read one byte further.                                      *)
(***************************************************************************)
LEMMA TextShorter ==
  ASSUME NEW n \in Nat, NEW f, IsText(f, n + 1)
  PROVE  f[n + 1] = TextRule(f, n + 1) /\ \E h : IsText(h, n) /\ h[n] = f[n]
<1> DEFINE h == [k \in 0 .. n |-> f[k]]
<1>1. \A k \in 0 .. n + 1 : f[k] = TextRule(f, k)
  BY DEF IsText
<1>2. \A k \in 0 .. n : h[k] = TextRule(h, k)
  BY <1>1 DEF TextRule
<1>3. h = [k \in 0 .. n |-> h[k]] /\ h[n] = f[n]
  OBVIOUS
<1>4. f[n + 1] = TextRule(f, n + 1)
  BY <1>1
<1> HIDE DEF h
<1>5. IsText(h, n)
  BY <1>2, <1>3 DEF IsText
<1> QED
  BY <1>3, <1>4, <1>5

LEMMA TextLonger ==
  ASSUME NEW n \in Nat, NEW f, IsText(f, n)
  PROVE  \E h : IsText(h, n + 1)
<1> DEFINE h == [k \in 0 .. n + 1 |-> TextRule(f, k)]
<1>1. \A k \in 0 .. n : f[k] = TextRule(f, k)
  BY DEF IsText
<1>2. ASSUME NEW k \in 0 .. n + 1 PROVE h[k] = TextRule(h, k)
  <2>1. k # 0 => k - 1 \in 0 .. n /\ k - 1 \in 0 .. n + 1 /\ h[k - 1] = f[k - 1]
    BY <1>1
  <2> QED
    BY <2>1 DEF TextRule
<1>3. h = [k \in 0 .. n + 1 |-> h[k]]
  OBVIOUS
<1> HIDE DEF h
<1> QED
  BY <1>2, <1>3 DEF IsText

(***************************************************************************)
(* The same for the chunks strung together and one chunk more.             *)
(***************************************************************************)
LEMMA JoinShorter ==
  ASSUME NEW s \in Seq(Seq(Byte)), NEW c \in Seq(Byte), NEW g, IsJoin(g, Append(s, c))
  PROVE  \E h : IsJoin(h, s) /\ Joined(g, Append(s, c)) = Joined(h, s) \o c
<1> DEFINE n == Len(s)
           t == Append(s, c)
           h == [k \in 1 .. n |-> g[k]]
<1>1. /\ n \in Nat /\ Len(t) = n + 1 /\ t[n + 1] = c
      /\ \A k \in 1 .. n : t[k] = s[k]
  OBVIOUS
<1> HIDE DEF n, t
<1>2. \A k \in 1 .. n + 1 : g[k] = JoinRule(t, g, k)
  BY <1>1 DEF IsJoin, t
<1>3. \A k \in 1 .. n : h[k] = JoinRule(s, h, k)
  BY <1>1, <1>2 DEF JoinRule
<1>4. h = [k \in 1 .. n |-> h[k]] /\ (n # 0 => h[n] = g[n])
  BY <1>1
<1>5. Joined(g, t) = JoinRule(t, g, n + 1)
  BY <1>1, <1>2 DEF Joined
<1>6. CASE n = 0
  <2>1. Joined(g, t) = c /\ Joined(h, s) = <<>>
    BY <1>1, <1>5, <1>6 DEF JoinRule, Joined, n
  <2>2. <<>> \o c = c
    OBVIOUS
  <2> HIDE DEF h
  <2> QED
    BY <1>3, <1>4, <2>1, <2>2 DEF IsJoin, n, t
<1>7. CASE n # 0
  <2>1. Joined(g, t) = g[n] \o c
    <3>1. n + 1 # 1 /\ (n + 1) - 1 = n
      BY <1>1, <1>7
    <3> QED
      BY <1>1, <1>5, <3>1 DEF JoinRule
  <2>2. Joined(h, s) = g[n]
    BY <1>4, <1>7 DEF Joined, n
  <2> HIDE DEF h
  <2> QED
    BY <1>3, <1>4, <2>1, <2>2 DEF IsJoin, n, t
<1> QED
  BY <1>6, <1>7

LEMMA JoinLonger ==
  ASSUME NEW s \in Seq(Seq(Byte)), NEW c \in Seq(Byte), NEW h, IsJoin(h, s)
  PROVE  \E g : IsJoin(g, Append(s, c))
<1> DEFINE n == Len(s)
           t == Append(s, c)
           g == [k \in 1 .. n + 1 |-> JoinRule(t, h, k)]
<1>1. /\ n \in Nat /\ Len(t) = n + 1
      /\ \A k \in 1 .. n : t[k] = s[k]
  OBVIOUS
<1> HIDE DEF n, t
<1>2. \A k \in 1 .. n : h[k] = JoinRule(t, h, k)
  BY <1>1 DEF IsJoin, JoinRule, n
<1>3. ASSUME NEW k \in 1 .. n + 1 PROVE g[k] = JoinRule(t, g, k)
  <2>1. k # 1 => k - 1 \in 1 .. n /\ k - 1 \in 1 .. n + 1 /\ g[k - 1] = h[k - 1]
    BY <1>1, <1>2
  <2> QED
    BY <2>1 DEF JoinRule
<1>4. g = [k \in 1 .. n + 1 |-> g[k]]
  OBVIOUS
<1> HIDE DEF g
<1> QED
  BY <1>1, <1>3, <1>4 DEF IsJoin, t

(***************************************************************************)
(* At the start nothing has been read and nothing sent.                    *)
(***************************************************************************)
LEMMA DeliverInit == SendInit => TextInv /\ JoinInv /\ SameInv
<1> SUFFICES ASSUME SendInit PROVE TextInv /\ JoinInv /\ SameInv
  OBVIOUS
<1>1. pos = 0 /\ sent = <<>> /\ Len(sent) = 0 /\ sendPc = "test" /\ eof = FALSE
  BY DEF SendInit
<1>2. TextInv
  <2> DEFINE f == [k \in 0 .. 0 |-> <<>>]
  <2>1. IsText(f, 0)
    BY DEF IsText, TextRule
  <2>2. \A h : IsText(h, 0) => h[0] = <<>>
    BY DEF IsText, TextRule
  <2>3. <<>> \in Seq(Byte)
    OBVIOUS
  <2> HIDE DEF f
  <2> QED
    BY <1>1, <2>1, <2>2, <2>3 DEF TextInv
<1>3. JoinInv
  <2> DEFINE g == [k \in 1 .. 0 |-> <<>>]
  <2>1. g = [k \in 1 .. 0 |-> g[k]] /\ \A k \in 1 .. 0 : FALSE
    OBVIOUS
  <2> HIDE DEF g
  <2>2. IsJoin(g, sent)
    BY <1>1, <2>1 DEF IsJoin
  <2> QED
    BY <1>1, <2>2 DEF JoinInv, Joined
<1>4. SameInv
  <2>1. \A f : IsText(f, 0) => f[0] = <<>>
    BY DEF IsText, TextRule
  <2> QED
    BY <1>1, <2>1 DEF SameInv, Joined, Open, Mark
<1> QED
  BY <1>2, <1>3, <1>4

(***************************************************************************)
(* Reading a byte adds to the text, and to the chunk unless it is zero.    *)
(***************************************************************************)
LEMMA DeliverRead ==
  ASSUME IInv, TextInv, JoinInv, SameInv, ReadByte
  PROVE  TextInv' /\ JoinInv' /\ SameInv'
<1>1. /\ UNCHANGED <<ifp, canRead, eof, sent, lines, sendPc>>
      /\ sendPc = "read" /\ pos < Len(ifp) /\ canRead
      /\ pos' = pos + 1 /\ index' = index + 1
      /\ chunk' = IF ifp[pos + 1] = "zero" THEN chunk ELSE Append(chunk, ifp[pos + 1])
  BY DEF ReadByte
<1>2. /\ pos \in Nat /\ index \in Nat /\ ~ eof /\ ifp[pos + 1] \in Byte
      /\ chunk \in Seq(Byte) /\ chunk' \in Seq(Byte)
  <2>1. pos \in 0 .. Len(ifp) /\ Len(ifp) \in Nat /\ ifp \in Seq(Byte) /\ index \in Nat
    BY SendAssumption DEF IInv, SendTypeOK
  <2>2. pos + 1 \in 1 .. Len(ifp)
    BY <1>1, <2>1
  <2>3. ifp[pos + 1] \in Byte
    BY <2>1, <2>2
  <2>4. chunk \in Seq(Byte)
    <3>1. chunk \in Seq(Byte \ {"zero"})
      BY DEF IInv, SendTypeOK
    <3> HIDE DEF Byte
    <3> QED
      BY <3>1
  <2>5. ~ eof
    BY <1>1 DEF IInv, CutInv
  <2>6. chunk' \in Seq(Byte)
    <3> HIDE DEF Byte
    <3> QED
      BY <1>1, <2>3, <2>4
  <2> QED
    BY <2>1, <2>3, <2>4, <2>5, <2>6
<1>3. JoinInv'
  BY <1>1 DEF JoinInv, IsJoin, JoinRule, Joined
<1>4. ASSUME NEW f, IsText(f, pos + 1)
      PROVE  \E h : /\ IsText(h, pos) /\ h[pos] \in Seq(Byte)
                    /\ f[pos + 1] = IF ifp[pos + 1] = "zero" THEN h[pos]
                                                       ELSE Append(h[pos], ifp[pos + 1])
  <2>1. f[pos + 1] = TextRule(f, pos + 1) /\ \E h : IsText(h, pos) /\ h[pos] = f[pos]
    BY <1>2, <1>4, TextShorter
  <2>2. PICK h : IsText(h, pos) /\ h[pos] = f[pos]
    BY <2>1
  <2>3. pos + 1 # 0 /\ (pos + 1) - 1 = pos
    BY <1>2
  <2>4. f[pos + 1] = IF ifp[pos + 1] = "zero" THEN f[pos] ELSE Append(f[pos], ifp[pos + 1])
    BY <2>1, <2>3 DEF TextRule
  <2> QED
    BY <2>2, <2>4 DEF TextInv
<1>5. TextInv'
  <2>1. \E f : IsText(f, pos + 1)
    BY <1>2, TextLonger DEF TextInv
  <2>2. ASSUME NEW f, IsText(f, pos + 1) PROVE f[pos + 1] \in Seq(Byte)
    <3>1. PICK h : /\ h[pos] \in Seq(Byte)
                   /\ f[pos + 1] = IF ifp[pos + 1] = "zero" THEN h[pos]
                                                      ELSE Append(h[pos], ifp[pos + 1])
      BY <1>4, <2>2
    <3> HIDE DEF Byte
    <3> QED
      BY <1>2, <3>1
  <2>3. \A f, n : IsText(f, n)' <=> IsText(f, n)
    BY <1>1 DEF IsText, TextRule
  <2> QED
    BY <1>1, <2>1, <2>2, <2>3 DEF TextInv, IsText, TextRule
<1>6. SameInv'
  <2> SUFFICES ASSUME NEW f, NEW g, IsText(f, pos + 1), IsJoin(g, sent)
               PROVE  Joined(g, sent) \o chunk' = f[pos + 1] \o <<>>
    <3>1. Open' = chunk' /\ Mark' = <<>>
      BY <1>1, <1>2 DEF Open, Mark
    <3>2. \A f : IsText(f, pos)' <=> IsText(f, pos + 1)
      BY <1>1 DEF IsText, TextRule
    <3>3. \A g : /\ IsJoin(g, sent)' <=> IsJoin(g, sent)
                /\ Joined(g, sent)' = Joined(g, sent)
      BY <1>1 DEF IsJoin, JoinRule, Joined
    <3> QED
      BY <1>1, <3>1, <3>2, <3>3 DEF SameInv
  <2>1. PICK h : /\ IsText(h, pos) /\ h[pos] \in Seq(Byte)
                 /\ f[pos + 1] = IF ifp[pos + 1] = "zero" THEN h[pos]
                                                    ELSE Append(h[pos], ifp[pos + 1])
    BY <1>4
  <2>2. Joined(g, sent) \o chunk = h[pos] \o <<>> /\ Joined(g, sent) \in Seq(Byte)
    BY <1>1, <1>2, <2>1 DEF SameInv, JoinInv, Whole, Open, Mark
  <2> HIDE DEF Byte
  <2>3. h[pos] \o <<>> = h[pos]
    BY <2>1
  <2>4. CASE ifp[pos + 1] = "zero"
    BY <1>1, <2>1, <2>2, <2>3, <2>4
  <2>5. CASE ifp[pos + 1] # "zero"
    <3>1. Joined(g, sent) \o Append(chunk, ifp[pos + 1])
            = Append(Joined(g, sent) \o chunk, ifp[pos + 1])
      <4>1. /\ Joined(g, sent) \in Seq(Byte) /\ chunk \in Seq(Byte)
            /\ ifp[pos + 1] \in Byte
        BY <1>2, <2>2
      <4> QED
        BY <4>1, AppendLast
    <3>2. Append(h[pos], ifp[pos + 1]) \o <<>> = Append(h[pos], ifp[pos + 1])
      BY <1>2, <2>1
    <3> QED
      BY <1>1, <2>1, <2>2, <2>3, <2>5, <3>1, <3>2
  <2> QED
    BY <2>4, <2>5
<1> QED
  BY <1>3, <1>5, <1>6

(***************************************************************************)
(* Sending moves the chunk from what is open to what is joined.            *)
(***************************************************************************)
LEMMA DeliverSend ==
  ASSUME IInv, TextInv, JoinInv, SameInv, Send
  PROVE  TextInv' /\ JoinInv' /\ SameInv'
<1>1. /\ UNCHANGED <<ifp, canRead, pos, eof, chunk, index, lines>>
      /\ sendPc = "send" /\ sendPc' = "test" /\ sent' = Append(sent, chunk)
  BY DEF Send
<1>2. /\ chunk \in Seq(Byte) /\ sent \in Seq(Seq(Byte))
  <2>1. chunk \in Seq(Byte \ {"zero"}) /\ sent \in Seq(Seq(Byte \ {"zero"}))
    BY DEF IInv, SendTypeOK
  <2>2. Seq(Byte \ {"zero"}) \subseteq Seq(Byte)
    <3> HIDE DEF Byte
    <3> QED
      OBVIOUS
  <2>3. Seq(Seq(Byte \ {"zero"})) \subseteq Seq(Seq(Byte))
    BY <2>2, SeqMonotonic
  <2> QED
    BY <2>1, <2>2, <2>3
<1>3. TextInv'
  BY <1>1 DEF TextInv, IsText, TextRule
<1>4. JoinInv'
  <2>1. \E g : IsJoin(g, Append(sent, chunk))
    BY <1>2, JoinLonger DEF JoinInv
  <2>2. ASSUME NEW g, IsJoin(g, Append(sent, chunk))
        PROVE  Joined(g, Append(sent, chunk)) \in Seq(Byte)
    <3>1. PICK h : IsJoin(h, sent) /\ Joined(g, Append(sent, chunk)) = Joined(h, sent) \o chunk
      BY <1>2, <2>2, JoinShorter
    <3>2. Joined(h, sent) \in Seq(Byte)
      BY <3>1 DEF JoinInv
    <3> HIDE DEF Byte
    <3> QED
      BY <1>2, <3>1, <3>2
  <2> QED
    BY <1>1, <2>1, <2>2 DEF JoinInv
<1>5. SameInv'
  <2> SUFFICES ASSUME NEW f, NEW g, IsText(f, pos), IsJoin(g, Append(sent, chunk))
               PROVE  Joined(g, Append(sent, chunk)) \o <<>> = f[pos] \o Mark
    BY <1>1 DEF SameInv, IsText, TextRule, Open, Mark
  <2>1. PICK h : IsJoin(h, sent) /\ Joined(g, Append(sent, chunk)) = Joined(h, sent) \o chunk
    BY <1>2, JoinShorter
  <2>2. Joined(h, sent) \o chunk = f[pos] \o Mark
    BY <1>1, <2>1 DEF SameInv, Whole, Open
  <2>3. Joined(h, sent) \in Seq(Byte)
    BY <2>1 DEF JoinInv
  <2>4. (Joined(h, sent) \o chunk) \o <<>> = Joined(h, sent) \o chunk
    <3> HIDE DEF Byte
    <3> QED
      BY <1>2, <2>3
  <2> QED
    BY <2>1, <2>2, <2>4
<1> QED
  BY <1>3, <1>4, <1>5

(***************************************************************************)
(* The other steps neither read nor send: a chunk is begun, ended by the   *)
(* end of the file, or found full, and the log is written.                 *)
(***************************************************************************)
LEMMA DeliverStep == IInv /\ TextInv /\ JoinInv /\ SameInv /\ [SendNext]_sendVars =>
                       TextInv' /\ JoinInv' /\ SameInv'
<1> SUFFICES ASSUME IInv, TextInv, JoinInv, SameInv, [SendNext]_sendVars
             PROVE  TextInv' /\ JoinInv' /\ SameInv'
  OBVIOUS
<1>1. CASE ReadByte
  BY <1>1, DeliverRead
<1>2. CASE Send
  BY <1>2, DeliverSend
<1>3. ASSUME UNCHANGED <<ifp, pos, sent>>,
             Whole' => Whole /\ Open' = Open /\ Mark' = Mark
      PROVE  TextInv' /\ JoinInv' /\ SameInv'
  <2>1. \A f : IsText(f, pos)' <=> IsText(f, pos)
    BY <1>3 DEF IsText, TextRule
  <2>2. \A g : /\ IsJoin(g, sent)' <=> IsJoin(g, sent)
               /\ Joined(g, sent)' = Joined(g, sent)
    BY <1>3 DEF IsJoin, JoinRule, Joined
  <2>3. TextInv'
    BY <1>3, <2>1 DEF TextInv
  <2>4. JoinInv'
    BY <2>2 DEF JoinInv
  <2>5. SameInv'
    BY <1>3, <2>1, <2>2 DEF SameInv
  <2> QED
    BY <2>3, <2>4, <2>5
<1>t. /\ Len(lines) \in Nat /\ lines \in Seq({0, 2}) /\ index \in Nat
      /\ sendPc \in {"test", "read", "send", "log", "exit"}
  BY SendAssumption DEF IInv, SendTypeOK
<1>4. CASE NewChunk
  <2>1. /\ sendPc = "test" /\ sendPc' = "read" /\ ~ eof /\ chunk' = <<>>
        /\ UNCHANGED <<ifp, pos, eof, sent>>
    BY <1>4 DEF NewChunk
  <2> QED
    BY <1>3, <2>1 DEF Whole, Open, Mark
<1>5. CASE ReadEnd
  <2>1. /\ sendPc = "read" /\ sendPc' = "send" /\ eof' = TRUE
        /\ UNCHANGED <<ifp, pos, sent, index>>
        /\ chunk' = IF index = 0 THEN Append(chunk, "$") ELSE chunk
    BY <1>5 DEF ReadEnd
  <2>2. ~ eof
    <3>1. canRead
      BY <1>5 DEF ReadEnd
    <3> QED
      BY <2>1, <3>1 DEF IInv, CutInv
  <2>3. CASE index # 0
    BY <1>3, <2>1, <2>2, <2>3 DEF Whole, Open, Mark
  <2>4. CASE index = 0
    <3>1. TextInv'
      BY <2>1 DEF TextInv, IsText, TextRule
    <3>2. \A g : /\ IsJoin(g, sent)' <=> IsJoin(g, sent)
                 /\ Joined(g, sent)' = Joined(g, sent)
      BY <2>1 DEF IsJoin, JoinRule, Joined
    <3>3. JoinInv'
      BY <3>2 DEF JoinInv
    <3>4. ASSUME NEW f, NEW g, IsText(f, pos), IsJoin(g, sent)
          PROVE  Joined(g, sent) \o Append(chunk, "$") = f[pos] \o <<"$">>
      <4>1. Joined(g, sent) \o chunk = f[pos] \o <<>>
        BY <2>1, <2>2, <3>4 DEF SameInv, Whole, Open, Mark
      <4>2. Joined(g, sent) \in Seq(Byte) /\ f[pos] \in Seq(Byte)
        BY <3>4 DEF JoinInv, TextInv
      <4>3. chunk \in Seq(Byte) /\ "$" \in Byte
        <5>1. chunk \in Seq(Byte \ {"zero"})
          BY DEF IInv, SendTypeOK
        <5>2. "$" \in Byte
          BY DEF Byte
        <5> HIDE DEF Byte
        <5> QED
          BY <5>1, <5>2
      <4> HIDE DEF Byte
      <4>4. Joined(g, sent) \o Append(chunk, "$") = Append(Joined(g, sent) \o chunk, "$")
        BY <4>2, <4>3, AppendLast
      <4>5. f[pos] \o <<>> = f[pos] /\ Append(f[pos], "$") = f[pos] \o <<"$">>
        BY <4>2, <4>3, AppendIsConcat, ConcatEmptySeq
      <4> QED
        BY <4>1, <4>4, <4>5
    <3>5. \A f : IsText(f, pos)' <=> IsText(f, pos)
      BY <2>1 DEF IsText, TextRule
    <3>6. Open' = Append(chunk, "$") /\ Mark' = <<"$">>
      BY <2>1, <2>4 DEF Open, Mark
    <3>7. SameInv'
      BY <2>1, <3>2, <3>4, <3>5, <3>6 DEF SameInv
    <3> QED
      BY <3>1, <3>3, <3>7
  <2> QED
    BY <2>3, <2>4
<1>6. CASE ReadFails
  <2>1. /\ sendPc = "read" /\ UNCHANGED <<ifp, pos, sent, eof, sendPc, chunk>> /\ ~ canRead
    BY <1>6 DEF ReadFails
  <2>2. ~ eof
    BY <2>1 DEF IInv, CutInv
  <2> QED
    BY <1>3, <2>1, <2>2 DEF Whole, Open, Mark
<1>7. CASE ChunkFull
  BY <1>3, <1>7 DEF ChunkFull, Whole, Open, Mark
<1>8. CASE SendFails
  <2>1. /\ sendPc' = "log" /\ lines' = Append(lines, 2) /\ UNCHANGED <<ifp, pos, sent>>
    BY <1>8 DEF SendFails
  <2>2. Len(lines') # 0
    BY <1>t, <2>1
  <2> QED
    BY <1>3, <2>1, <2>2 DEF Whole
<1>9. CASE LoopDone
  BY <1>3, <1>9 DEF LoopDone, Whole, Open, Mark
<1>10. CASE LogSuccess
  <2>1. /\ sendPc = "log" /\ sendPc' = "exit" /\ lines' = Append(lines, 0)
        /\ UNCHANGED <<ifp, pos, sent, eof, index, chunk>>
    BY <1>10 DEF LogSuccess
  <2>2. Len(lines') = Len(lines) + 1
    BY <1>t, <2>1
  <2> QED
    BY <1>t, <1>3, <2>1, <2>2 DEF Whole, Open, Mark
<1>11. CASE UNCHANGED sendVars
  BY <1>3, <1>11 DEF sendVars, Whole, Open, Mark
<1> QED
  BY <1>1, <1>2, <1>4, <1>5, <1>6, <1>7, <1>8, <1>9, <1>10, <1>11 DEF SendNext, Work

(***************************************************************************)
(* The end of the file is noticed when all of it has been read, and the    *)
(* loop is left for nothing else but a failed sendto.                      *)
(***************************************************************************)
EofInv == /\ eof => pos = Len(ifp)
          /\ sendPc = "log" /\ Len(lines) = 0 => eof
          /\ sendPc = "exit" /\ Len(lines) = 1 => eof

LEMMA EofStep == SendTypeOK /\ CutInv /\ EofInv /\ [SendNext]_sendVars => EofInv'
<1> SUFFICES ASSUME SendTypeOK, CutInv, EofInv, [SendNext]_sendVars PROVE EofInv'
  OBVIOUS
<1>t. /\ Len(lines) \in Nat /\ lines \in Seq({0, 2})
      /\ sendPc \in {"test", "read", "send", "log", "exit"}
  BY DEF SendTypeOK
<1>1. CASE NewChunk
  BY <1>1 DEF NewChunk, EofInv
<1>2. CASE ReadByte
  BY <1>2 DEF ReadByte, EofInv, CutInv
<1>3. CASE ReadEnd
  BY <1>3 DEF ReadEnd, EofInv
<1>4. CASE ReadFails
  BY <1>4 DEF ReadFails, EofInv
<1>5. CASE ChunkFull
  BY <1>5 DEF ChunkFull, EofInv
<1>6. CASE Send
  BY <1>6 DEF Send, EofInv
<1>7. CASE SendFails
  <2>1. Len(Append(lines, 2)) # 0
    BY <1>t
  <2> QED
    BY <1>7, <2>1 DEF SendFails, EofInv
<1>8. CASE LoopDone
  BY <1>8 DEF LoopDone, EofInv
<1>9. CASE LogSuccess
  <2>1. Len(Append(lines, 0)) = Len(lines) + 1
    BY <1>t
  <2> QED
    BY <1>t, <1>9, <2>1 DEF LogSuccess, EofInv
<1>10. CASE UNCHANGED sendVars
  BY <1>10 DEF sendVars, EofInv
<1> QED
  BY <1>1, <1>2, <1>3, <1>4, <1>5, <1>6, <1>7, <1>8, <1>9, <1>10 DEF SendNext, Work

(***************************************************************************)
(* Whole chunks and a rest leave the rest as the remainder.                *)
(***************************************************************************)
LEMMA Remainder ==
  ASSUME NEW c \in Nat \ {0}, NEW k \in Nat, NEW i \in Nat, i < c
  PROVE  (c * k + i) % c = i
  OBVIOUS

(***************************************************************************)
(* The recursive functions of the property obey their equations when some  *)
(* function does.                                                          *)
(***************************************************************************)
LEMMA TextObeys == ASSUME NEW f, IsText(f, Len(ifp)) PROVE IsText(Text, Len(ifp))
<1>1. f = [n \in 0 .. Len(ifp) |-> TextRule(f, n)]
  BY Zenon DEF IsText
<1>2. Text = [n \in 0 .. Len(ifp) |-> TextRule(Text, n)]
  BY <1>1, Zenon DEF Text, TextRule
<1> QED
  BY <1>2, Zenon DEF IsText

LEMMA JoinObeys == ASSUME NEW g, IsJoin(g, sent), Len(sent) # 0
                   PROVE  \E h : IsJoin(h, sent) /\ FlattenSeq(sent) = h[Len(sent)]
<1> DEFINE flatten == CHOOSE h : h = [k \in 1 .. Len(sent) |-> JoinRule(sent, h, k)]
<1>1. g = [k \in 1 .. Len(sent) |-> JoinRule(sent, g, k)]
  BY Zenon DEF IsJoin
<1>2. flatten = [k \in 1 .. Len(sent) |-> JoinRule(sent, flatten, k)]
  BY <1>1, Zenon
<1>3. FlattenSeq(sent) = flatten[Len(sent)]
  BY Zenon DEF FlattenSeq, JoinRule
<1> HIDE DEF flatten
<1>4. IsJoin(flatten, sent)
  BY <1>2, Zenon DEF IsJoin
<1> QED
  BY <1>3, <1>4

(***************************************************************************)
(* The receiver who strings the chunks together gets the file without its  *)
(* zero bytes, for files of any size and content and chunks of any length. *)
(* (file_server.c:178)                                                     *)
(***************************************************************************)
THEOREM TextArrives == SendSpec => []DeliversText
<1>1. IInv /\ EofInv /\ TextInv /\ JoinInv /\ SameInv => DeliversText
  <2> SUFFICES ASSUME IInv, EofInv, TextInv, JoinInv, SameInv, Complete
               PROVE  FlattenSeq(sent) =
                        Text[Len(ifp)] \o (IF Len(ifp) % CHUNKLEN = 0 THEN <<"$">> ELSE <<>>)
    BY DEF DeliversText
  <2>1. Len(lines) = 1 /\ canRead /\ sendPc = "exit"
    BY DEF Complete
  <2>2. Len(ifp) = CHUNKLEN * (Len(sent) - 1) + index /\ index < CHUNKLEN
    BY <2>1 DEF IInv, CutInv, EndsAfter
  <2>3. /\ CHUNKLEN \in Nat \ {0} /\ index \in Nat /\ Len(ifp) \in Nat /\ Len(sent) \in Nat
    BY SendAssumption DEF IInv, SendTypeOK
  <2>4. Len(sent) # 0
    BY <2>2, <2>3
  <2>5. Len(ifp) % CHUNKLEN = index
    <3> DEFINE k == Len(sent) - 1
    <3>1. k \in Nat
      BY <2>3, <2>4
    <3>2. Len(ifp) = CHUNKLEN * k + index
      BY <2>2
    <3> HIDE DEF k
    <3>3. (CHUNKLEN * k + index) % CHUNKLEN = index
      BY <2>2, <2>3, <3>1, Remainder
    <3> QED
      BY <3>2, <3>3
  <2>6. eof /\ pos = Len(ifp)
    BY <2>1 DEF EofInv
  <2>7. IsText(Text, Len(ifp))
    BY <2>6, TextObeys DEF TextInv
  <2>8. PICK h : IsJoin(h, sent) /\ FlattenSeq(sent) = h[Len(sent)]
    BY <2>4, JoinObeys DEF JoinInv
  <2>9. Joined(h, sent) \o <<>> = Text[Len(ifp)] \o Mark
    BY <2>1, <2>6, <2>7, <2>8 DEF SameInv, Whole, Open
  <2>10. Joined(h, sent) = FlattenSeq(sent) /\ Joined(h, sent) \in Seq(Byte)
    BY <2>4, <2>8 DEF Joined, JoinInv
  <2>11. Joined(h, sent) \o <<>> = Joined(h, sent)
    BY <2>10, ConcatEmptySeq
  <2> QED
    BY <2>5, <2>6, <2>9, <2>10, <2>11 DEF Mark
<1>2. SendInit => EofInv
  BY DEF SendInit, EofInv
<1>3. IInv /\ EofInv /\ [SendNext]_sendVars => EofInv'
  BY EofStep DEF IInv
<1> QED
  BY <1>1, <1>2, <1>3, Inductive, DeliverInit, DeliverStep, PTL DEF SendSpec
=============================================================================
