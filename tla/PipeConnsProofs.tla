---------------------------- MODULE PipeConnsProofs ----------------------------
(***************************************************************************)
(* Proofs about PipeConns, for any capacity, any lengths of the slices and *)
(* any number of bytes: its types, that it implements ByteStream, and that *)
(* a reader gets io.EOF only after everything accepted before Close.       *)
(***************************************************************************)
EXTENDS PipeConns, SequenceTheorems, TLAPS

USE PipeAssumption

\* The bytes of s are those that follow the first m.
Follows(s, m) == \A i \in 1 .. Len(s) : s[i] = m + i

\* The buffers of q hold the bytes between the first m and the first n: off[i]
\* is the number of bytes before buffer i.
Laid(off, q, m, n) ==
  /\ off[1] = m /\ off[Len(q) + 1] = n
  /\ \A i \in 1 .. Len(q) : off[i + 1] = off[i] + Len(q[i]) /\ Follows(q[i], off[i])
  /\ \A i \in 1 .. Len(q) + 1 : off[i] <= n

InChannel(q, m, n) ==
  \E off \in [1 .. Len(q) + 1 -> 0 .. MaxBytes] : Laid(off, q, m, n)

\* From the first byte to the last one accepted: read, in c.bb, in the channel.
Sequenced == /\ Follows(got, 0) /\ Follows(bb, Len(got))
             /\ InChannel(ch, Len(got) + Len(bb), sent)

\* A Write carries the bytes that will be accepted next.
Writing == wr.pc # "idle" => /\ Follows(wr.b, sent)
                             /\ sent + Len(wr.b) <= MaxBytes /\ Len(wr.b) <= MaxWrite

\* A Read waits only when c.bb is used up, and looks for io.EOF after Close.
Reading == /\ rd.pc # "idle" => rd.want >= 1
           /\ rd.pc \in {"slow", "lastTimeout", "lastEOF"} => bb = <<>>

Closing == atClose <= sent

IInv == TypeOK /\ Sequenced /\ Writing /\ Reading /\ Closing

-------------------------------------------------------------------------------
(* Bytes that follow each other.                                           *)

LEMMA FollowsFirst ==
  ASSUME NEW s \in Bytes, NEW m \in Nat, Follows(s, m), NEW k \in 0 .. Len(s)
  PROVE  /\ SubSeq(s, 1, k) = Stream!Numbers(m, k)
         /\ SubSeq(s, 1, k) \in Bytes /\ Len(SubSeq(s, 1, k)) = k
         /\ Follows(SubSeq(s, 1, k), m)
<1>1. \A i \in 1 .. k : s[i] \in 1 .. MaxBytes /\ s[i] = m + i
  BY ElementOfSeq, LenProperties DEF Bytes, Follows
<1>2. /\ SubSeq(s, 1, k) \in Bytes /\ Len(SubSeq(s, 1, k)) = k
      /\ \A i \in 1 .. k : SubSeq(s, 1, k)[i] = m + i
  <2>1. /\ SubSeq(s, 1, k) \in Seq(1 .. MaxBytes)
        /\ Len(SubSeq(s, 1, k)) = IF 1 <= k THEN k - 1 + 1 ELSE 0
        /\ \A i \in 1 .. k - 1 + 1 : SubSeq(s, 1, k)[i] = s[1 + i - 1]
    BY <1>1, SubSeqProperties
  <2>. QED  BY <1>1, <2>1, LenProperties DEF Bytes
<1>3. SubSeq(s, 1, k) \in [1 .. k -> 1 .. MaxBytes]
  BY <1>2, LenProperties DEF Bytes
<1>4. SubSeq(s, 1, k) = [i \in 1 .. k |-> m + i]
  BY <1>2, <1>3
<1>. QED  BY <1>2, <1>4 DEF Stream!Numbers, Follows

LEMMA FollowsRest ==
  ASSUME NEW s \in Bytes, NEW m \in Nat, Follows(s, m), NEW k \in 0 .. Len(s)
  PROVE  /\ SubSeq(s, k + 1, Len(s)) \in Bytes
         /\ Len(SubSeq(s, k + 1, Len(s))) = Len(s) - k
         /\ Follows(SubSeq(s, k + 1, Len(s)), m + k)
<1>1. \A i \in k + 1 .. Len(s) : s[i] \in 1 .. MaxBytes /\ s[i] = m + i
  BY ElementOfSeq, LenProperties DEF Bytes, Follows
<1>2. Len(s) \in Nat
  BY LenProperties DEF Bytes
<1>3. /\ SubSeq(s, k + 1, Len(s)) \in Seq(1 .. MaxBytes)
      /\ Len(SubSeq(s, k + 1, Len(s)))
           = IF k + 1 <= Len(s) THEN Len(s) - (k + 1) + 1 ELSE 0
      /\ \A i \in 1 .. Len(s) - (k + 1) + 1 :
           SubSeq(s, k + 1, Len(s))[i] = s[k + 1 + i - 1]
  BY <1>1, <1>2, SubSeqProperties
<1>4. Len(SubSeq(s, k + 1, Len(s))) = Len(s) - k
  BY <1>2, <1>3
<1>. QED  BY <1>1, <1>2, <1>3, <1>4 DEF Follows, Bytes

LEMMA FollowsConcat ==
  ASSUME NEW s \in Bytes, NEW t \in Bytes, NEW m \in Nat, Follows(s, m),
         Follows(t, m + Len(s))
  PROVE  /\ s \o t \in Bytes /\ Len(s \o t) = Len(s) + Len(t)
         /\ Follows(s \o t, m)
<1>1. Len(s) \in Nat /\ Len(t) \in Nat
  BY LenProperties DEF Bytes
<1>2. /\ s \o t \in Bytes /\ Len(s \o t) = Len(s) + Len(t)
      /\ \A i \in 1 .. Len(s) + Len(t) :
           (s \o t)[i] = IF i <= Len(s) THEN s[i] ELSE t[i - Len(s)]
  BY ConcatProperties DEF Bytes
<1>3. \A i \in 1 .. Len(s) + Len(t) : (s \o t)[i] = m + i
  <2>. SUFFICES ASSUME NEW i \in 1 .. Len(s) + Len(t) PROVE (s \o t)[i] = m + i
    OBVIOUS
  <2>1. CASE i <= Len(s)
    BY <1>1, <1>2, <2>1 DEF Follows
  <2>2. CASE ~(i <= Len(s))
    <3>1. i - Len(s) \in 1 .. Len(t) /\ (s \o t)[i] = t[i - Len(s)]
      BY <1>1, <1>2, <2>2
    <3>2. t[i - Len(s)] = m + Len(s) + (i - Len(s))
      BY <3>1 DEF Follows
    <3>. QED  BY <1>1, <3>1, <3>2
  <2>. QED  BY <2>1, <2>2
<1>. QED  BY <1>2, <1>3 DEF Follows

\* Numbered bytes, as Write is passed them.
LEMMA NumbersBytes ==
  ASSUME NEW m \in Nat, NEW n \in Nat, m + n <= MaxBytes
  PROVE  LET s == [i \in 1 .. n |-> m + i]
         IN  s \in Bytes /\ Len(s) = n /\ Follows(s, m)
<1>. DEFINE s == [i \in 1 .. n |-> m + i]
<1>1. s \in [1 .. n -> 1 .. MaxBytes]
  OBVIOUS
<1>2. s \in Seq(1 .. MaxBytes)
  BY <1>1, SeqDef
<1>3. Len(s) = n
  <2>1. DOMAIN s = 1 .. Len(s) /\ Len(s) \in Nat /\ DOMAIN s = 1 .. n
    BY <1>2, LenProperties
  <2>. HIDE DEF s
  <2>. DEFINE l == Len(s)
  <2>2. l \in Nat /\ \A i \in Nat : (1 <= i /\ i <= l) <=> (1 <= i /\ i <= n)
    BY <2>1
  <2>. HIDE DEF l
  <2>3. (1 <= l /\ l <= l) <=> (1 <= l /\ l <= n)
    BY <2>2
  <2>4. (1 <= n /\ n <= l) <=> (1 <= n /\ n <= n)
    BY <2>2
  <2>5. l = n
    BY <2>2, <2>3, <2>4
  <2>. QED  BY <2>5 DEF l
<1>4. \A i \in 1 .. n : s[i] = m + i
  OBVIOUS
<1>. HIDE DEF s
<1>5. s \in Bytes /\ Len(s) = n /\ Follows(s, m)
  BY <1>2, <1>3, <1>4 DEF Bytes, Follows
<1>. QED  BY <1>5 DEF s

-------------------------------------------------------------------------------
(* The buffers of the channel.                                             *)

LEMMA EmptyChannel ==
  ASSUME NEW m, NEW n, InChannel(<<>>, m, n) PROVE m = n
  BY DEF InChannel, Laid

LEMMA ChannelBound ==
  ASSUME NEW q \in Seq(Bytes), NEW m, NEW n, InChannel(q, m, n) PROVE m <= n
<1>1. 1 \in 1 .. Len(q) + 1
  BY LenProperties
<1>. QED  BY <1>1 DEF InChannel, Laid

LEMMA ChannelSend ==
  ASSUME NEW q \in Seq(Bytes), NEW m \in Nat, NEW n \in Nat, InChannel(q, m, n),
         NEW b \in Bytes, Follows(b, n), n + Len(b) <= MaxBytes
  PROVE  InChannel(Append(q, b), m, n + Len(b))
<1>. DEFINE N == Len(q)
            r == Append(q, b)
            k == n + Len(b)
<1>1. /\ N \in Nat /\ Len(b) \in Nat /\ k \in 0 .. MaxBytes /\ Len(r) = N + 1
      /\ r[N + 1] = b /\ \A i \in 1 .. N : r[i] = q[i]
  BY LenProperties, AppendProperties DEF Bytes
<1>2. PICK off \in [1 .. N + 1 -> 0 .. MaxBytes] : Laid(off, q, m, n)
  BY DEF InChannel
<1>. DEFINE new == [i \in 1 .. N + 2 |-> IF i <= N + 1 THEN off[i] ELSE k]
<1>3. new \in [1 .. N + 2 -> 0 .. MaxBytes]
  BY <1>1, <1>2
<1>4. /\ \A i \in 1 .. N + 1 : new[i] = off[i] /\ off[i] \in Nat
      /\ new[N + 2] = k
  BY <1>1, <1>2
<1>. HIDE DEF new, r, k
<1>5. new[1] = m /\ new[N + 2] = k
  BY <1>1, <1>2, <1>4 DEF Laid
<1>6. \A i \in 1 .. N + 1 : new[i + 1] = new[i] + Len(r[i]) /\ Follows(r[i], new[i])
  <2>. SUFFICES ASSUME NEW i \in 1 .. N + 1
                PROVE  new[i + 1] = new[i] + Len(r[i]) /\ Follows(r[i], new[i])
    OBVIOUS
  <2>1. CASE i = N + 1
    <3>1. new[i] = n /\ new[i + 1] = k /\ r[i] = b
      BY <1>1, <1>2, <1>4, <2>1 DEF Laid
    <3>. QED  BY <1>1, <3>1 DEF k
  <2>2. CASE i # N + 1
    <3>1. i \in 1 .. N /\ i + 1 \in 1 .. N + 1
      BY <1>1, <2>2
    <3>2. new[i] = off[i] /\ new[i + 1] = off[i + 1] /\ r[i] = q[i]
      BY <1>1, <1>4, <3>1
    <3>3. off[i + 1] = off[i] + Len(q[i]) /\ Follows(q[i], off[i])
      BY <1>2, <3>1 DEF Laid
    <3>. QED  BY <3>2, <3>3
  <2>. QED  BY <2>1, <2>2
<1>7. \A i \in 1 .. N + 2 : new[i] <= k
  <2>1. \A i \in 1 .. N + 1 : off[i] <= n
    BY <1>2 DEF Laid
  <2>. SUFFICES ASSUME NEW i \in 1 .. N + 2 PROVE new[i] <= k
    OBVIOUS
  <2>2. CASE i = N + 2
    BY <1>1, <1>4, <2>2
  <2>3. CASE i # N + 2
    <3>1. i \in 1 .. N + 1 /\ n <= k
      BY <1>1, <2>3 DEF k
    <3>. QED  BY <1>1, <1>4, <2>1, <3>1
  <2>. QED  BY <2>2, <2>3
<1>8. Laid(new, r, m, k) /\ Len(r) + 1 = N + 2
  BY <1>1, <1>5, <1>6, <1>7 DEF Laid
<1>. QED  BY <1>3, <1>8 DEF InChannel, r, k

LEMMA ChannelReceive ==
  ASSUME NEW q \in Seq(Bytes), NEW m \in Nat, NEW n \in Nat, InChannel(q, m, n), q # <<>>
  PROVE  /\ Head(q) \in Bytes /\ Follows(Head(q), m)
         /\ Tail(q) \in Seq(Bytes) /\ Len(Tail(q)) = Len(q) - 1
         /\ InChannel(Tail(q), m + Len(Head(q)), n)
<1>. DEFINE N == Len(q)
            t == Tail(q)
<1>1. /\ N \in Nat \ {0} /\ Head(q) \in Bytes /\ Head(q) = q[1]
      /\ t \in Seq(Bytes) /\ Len(t) = N - 1
      /\ \A i \in 1 .. N - 1 : t[i] = q[i + 1]
  BY HeadTailProperties, LenProperties, EmptySeq
<1>2. PICK off \in [1 .. N + 1 -> 0 .. MaxBytes] : Laid(off, q, m, n)
  BY DEF InChannel
<1>. DEFINE new == [i \in 1 .. N |-> off[i + 1]]
<1>3. new \in [1 .. N -> 0 .. MaxBytes]
  BY <1>1, <1>2
<1>4. \A i \in 1 .. N : new[i] = off[i + 1]
  OBVIOUS
<1>. HIDE DEF new, t
<1>5. off[1] = m /\ off[2] = m + Len(q[1]) /\ Follows(q[1], m)
  <2>1. 1 \in 1 .. N
    BY <1>1
  <2>. QED  BY <1>2, <2>1 DEF Laid
<1>6. new[1] = m + Len(Head(q)) /\ new[N] = n
  BY <1>1, <1>2, <1>4, <1>5 DEF Laid
<1>7. \A i \in 1 .. N - 1 : new[i + 1] = new[i] + Len(t[i]) /\ Follows(t[i], new[i])
  <2>. SUFFICES ASSUME NEW i \in 1 .. N - 1
                PROVE  new[i + 1] = new[i] + Len(t[i]) /\ Follows(t[i], new[i])
    OBVIOUS
  <2>1. /\ i + 1 \in 1 .. N /\ new[i] = off[i + 1] /\ new[i + 1] = off[(i + 1) + 1]
        /\ t[i] = q[i + 1]
    BY <1>1, <1>4
  <2>2. /\ off[(i + 1) + 1] = off[i + 1] + Len(q[i + 1])
        /\ Follows(q[i + 1], off[i + 1])
    BY <1>2, <2>1 DEF Laid
  <2>. QED  BY <2>1, <2>2
<1>8. \A i \in 1 .. N : new[i] <= n
  BY <1>1, <1>2, <1>4 DEF Laid
<1>9. Laid(new, t, m + Len(Head(q)), n) /\ Len(t) + 1 = N
  BY <1>1, <1>6, <1>7, <1>8 DEF Laid
<1>10. InChannel(t, m + Len(Head(q)), n)
  BY <1>3, <1>9 DEF InChannel
<1>. QED  BY <1>1, <1>5, <1>10 DEF t

-------------------------------------------------------------------------------
(* The steps.                                                              *)

Message  == ch \in Seq(Bytes) /\ Len(ch) <= Capacity
Clock    == rDeadline \in DeadlineChs /\ wDeadline \in DeadlineChs
            /\ rTimer \in Timers /\ wTimer \in Timers
WriteT   == wr \in [pc : {"idle", "test", "fast", "slow"}, b : Bytes, dl : DeadlineChs]
ReadT    == rd \in [pc : {"idle", "loop", "slow", "lastTimeout", "lastEOF"},
                    want : 0 .. MaxRead, mayBlock : BOOLEAN, dl : DeadlineChs]
HistoryT == /\ stopped \in BOOLEAN /\ bb \in Bytes /\ got \in Bytes
            /\ sent \in 0 .. MaxBytes /\ atClose \in 0 .. MaxBytes

LEMMA TypeParts == /\ TypeOK <=> Message /\ Clock /\ WriteT /\ ReadT /\ HistoryT
                   /\ TypeOK' <=> Message' /\ Clock' /\ WriteT' /\ ReadT' /\ HistoryT'
  BY DEF TypeOK, Message, Clock, WriteT, ReadT, HistoryT

\* Steps that leave the bytes alone.
LEMMA BytesKept ==
  ASSUME Sequenced, Closing, Message, HistoryT,
         UNCHANGED <<ch, bb, stopped, sent, got, atClose>>
  PROVE  Sequenced' /\ Closing' /\ Message' /\ HistoryT'
  BY DEF Sequenced, Closing, Message, HistoryT

LEMMA DeadlineStep ==
  ASSUME IInv, \/ \E dl \in Deadlines : SetReadDeadline(dl) \/ SetWriteDeadline(dl)
               \/ FireRead \/ FireWrite
  PROVE  IInv' /\ UNCHANGED <<sent, got>>
<1>1. UNCHANGED <<ch, stopped, wr, rd, bb, sent, got, atClose>>
  BY DEF SetReadDeadline, SetWriteDeadline, FireRead, FireWrite
<1>2. Clock'
  <2>1. Clock /\ [armed |-> FALSE, fired |-> TRUE] \in Timers
    BY DEF IInv, TypeOK, Clock, Timers
  <2>2. ASSUME NEW dl \in Deadlines, SetReadDeadline(dl) \/ SetWriteDeadline(dl)
        PROVE  Clock'
    <3>1. dl \in DeadlineChs /\ Updated(dl) \in Timers
      BY DEF Updated, Timers
    <3>. QED  BY <2>1, <2>2, <3>1 DEF Clock, SetReadDeadline, SetWriteDeadline
  <2>3. CASE FireRead \/ FireWrite
    BY <2>1, <2>3 DEF Clock, FireRead, FireWrite, Fire
  <2>. QED  BY <2>2, <2>3
<1>. QED  BY <1>1, <1>2, BytesKept, TypeParts DEF IInv, WriteT, ReadT, Writing, Reading

LEMMA CloseStep == ASSUME IInv, Close PROVE IInv' /\ UNCHANGED <<sent, got>>
<1>1. /\ UNCHANGED <<ch, wr, rd, bb, deadlines, sent, got>>
      /\ stopped' = TRUE /\ atClose' = sent /\ sent \in Nat
  BY DEF Close, IInv, TypeOK
<1>2. TypeOK'
  BY <1>1 DEF IInv, TypeOK, deadlines
<1>. QED  BY <1>1, <1>2 DEF IInv, Sequenced, Writing, Reading, Closing

\* Write starts, looks at stopCh, blocks, or gives up.
LEMMA WriteOther ==
  ASSUME IInv, NEW n \in 0 .. MaxWrite,
         \/ Write(n) \/ WriteTest
         \/ (WriteFast \/ WriteSlow) /\ ~SendBuffer
  PROVE  IInv' /\ UNCHANGED <<sent, got>>
<1>1. /\ Sequenced /\ Closing /\ Message /\ HistoryT /\ WriteT /\ ReadT /\ Clock
      /\ Writing /\ Reading
  BY TypeParts DEF IInv
<1>2. UNCHANGED <<ch, stopped, rd, bb, rDeadline, rTimer, sent, got, atClose>>
  BY DEF Write, WriteTest, WriteFast, WriteSlow, WriteTimeout, Closed, deadlines
<1>3. Clock'
  BY <1>1 DEF Clock, Write, WriteTest, WriteFast, WriteSlow, WriteTimeout, Closed,
              deadlines, Received, AfterTimeout, Timers, DeadlineChs
<1>4. WriteT' /\ Writing'
  <2>1. CASE wr' = NoWrite
    <3>1. <<>> \in Bytes
      BY EmptySeq DEF Bytes
    <3>. QED  BY <2>1, <3>1 DEF WriteT, Writing, NoWrite, DeadlineChs
  <2>2. CASE Write(n)
    <3>. DEFINE b == [i \in 1 .. n |-> sent + i]
    <3>1. sent \in Nat /\ n \in Nat /\ sent + n <= MaxBytes /\ n <= MaxWrite
      BY <1>1, <2>2 DEF Write, HistoryT
    <3>2. b \in Bytes /\ Len(b) = n /\ Follows(b, sent)
      BY <3>1, NumbersBytes
    <3>3. wr' = [wr EXCEPT !.pc = "test", !.b = b]
      BY <2>2 DEF Write
    <3>. HIDE DEF b
    <3>4. WriteT' /\ wr'.b = b /\ wr'.pc = "test"
      BY <1>1, <3>2, <3>3 DEF WriteT
    <3>. QED  BY <1>2, <3>1, <3>2, <3>4 DEF Writing
  <2>3. CASE wr' = [wr EXCEPT !.pc = "fast"] /\ wr.pc = "test"
    <3>1. WriteT' /\ wr'.b = wr.b
      BY <1>1, <2>3 DEF WriteT
    <3>. QED  BY <1>1, <1>2, <2>3, <3>1 DEF Writing
  <2>4. CASE wr' = [wr EXCEPT !.pc = "slow", !.dl = wDeadline] /\ wr.pc = "fast"
    <3>1. WriteT' /\ wr'.b = wr.b
      BY <1>1, <2>4 DEF WriteT, Clock
    <3>. QED  BY <1>1, <1>2, <2>4, <3>1 DEF Writing
  <2>. QED  BY <2>1, <2>2, <2>3, <2>4
            DEF WriteTest, WriteFast, WriteSlow, WriteTimeout, Closed
<1>5. ReadT' /\ Reading'
  BY <1>1, <1>2 DEF ReadT, Reading
<1>. QED  BY <1>1, <1>2, <1>3, <1>4, <1>5, BytesKept, TypeParts DEF IInv

\* The bytes of Write enter the channel.
LEMMA SendStep ==
  ASSUME IInv, SendBuffer, wr.pc # "idle"
  PROVE  /\ IInv'
         /\ \E n \in 0 .. MaxWrite : sent' = sent + n
         /\ UNCHANGED got
<1>1. /\ Sequenced /\ Closing /\ Message /\ HistoryT /\ WriteT /\ ReadT /\ Clock
      /\ Writing /\ Reading
  BY TypeParts DEF IInv
<1>2. /\ ch' = Append(ch, wr.b) /\ sent' = sent + Len(wr.b) /\ wr' = NoWrite
      /\ UNCHANGED <<stopped, rd, bb, deadlines, got, atClose>>
      /\ Len(ch) < Capacity
  BY DEF SendBuffer, HasRoom
<1>3. /\ wr.b \in Bytes /\ Len(wr.b) \in Nat /\ Follows(wr.b, sent)
      /\ sent + Len(wr.b) <= MaxBytes /\ Len(wr.b) <= MaxWrite /\ sent \in Nat
  BY <1>1, LenProperties DEF WriteT, Writing, HistoryT, Bytes
<1>4. /\ Append(ch, wr.b) \in Seq(Bytes) /\ Len(Append(ch, wr.b)) = Len(ch) + 1
      /\ Len(ch) \in Nat
  BY <1>1, <1>3, AppendProperties, LenProperties DEF Message
<1>5. InChannel(Append(ch, wr.b), Len(got) + Len(bb), sent + Len(wr.b))
  <2>1. Len(got) + Len(bb) \in Nat
    BY <1>1, LenProperties DEF HistoryT, Bytes
  <2>. QED  BY <1>1, <1>3, <2>1, ChannelSend DEF Sequenced, Message
<1>6. Sequenced'
  BY <1>1, <1>2, <1>5 DEF Sequenced
<1>7. Message' /\ HistoryT' /\ Closing'
  BY <1>1, <1>2, <1>3, <1>4 DEF Message, HistoryT, Closing
<1>8. WriteT' /\ Writing'
  BY <1>2, EmptySeq DEF WriteT, Writing, NoWrite, DeadlineChs, Bytes
<1>9. ReadT' /\ Reading' /\ Clock'
  BY <1>1, <1>2 DEF ReadT, Reading, Clock, deadlines
<1>. QED  BY <1>2, <1>3, <1>6, <1>7, <1>8, <1>9, TypeParts DEF IInv

\* Read starts, blocks, times out, sees stopCh, or returns without bytes.
LEMMA ReadOther ==
  ASSUME IInv, NEW n \in 1 .. MaxRead,
         Read(n) \/ ((ReadNext \/ ReadSlow \/ ReadLast) /\ ~TakeBuffer)
  PROVE  IInv' /\ UNCHANGED <<sent, got>>
<1>1. /\ Sequenced /\ Closing /\ Message /\ HistoryT /\ WriteT /\ ReadT /\ Clock
      /\ Writing /\ Reading
  BY TypeParts DEF IInv
<1>2. UNCHANGED <<ch, stopped, wr, bb, wDeadline, wTimer, sent, got, atClose>>
  BY DEF Read, ReadNext, ReadSlow, ReadLast, TakeLate, ReadTimeout, deadlines
<1>3. Clock'
  BY <1>1 DEF Clock, Read, ReadNext, ReadSlow, ReadLast, TakeLate, ReadTimeout, deadlines,
              Received, AfterTimeout, Timers, DeadlineChs
<1>4. ReadT' /\ Reading'
  <2>1. CASE rd' = NoRead
    BY <2>1 DEF ReadT, Reading, NoRead, DeadlineChs
  <2>2. CASE Read(n)
    <3>1. rd' = [rd EXCEPT !.pc = "loop", !.want = n, !.mayBlock = TRUE]
      BY <2>2 DEF Read
    <3>2. n \in 0 .. MaxRead /\ n >= 1
      OBVIOUS
    <3>3. ReadT' /\ rd'.want = n /\ rd'.pc = "loop"
      BY <1>1, <3>1, <3>2 DEF ReadT
    <3>. QED  BY <3>2, <3>3 DEF Reading
  <2>3. CASE /\ rd.pc = "loop" /\ bb = <<>>
             /\ rd' = [rd EXCEPT !.pc = "slow", !.dl = rDeadline]
    BY <1>1, <1>2, <2>3 DEF ReadT, Reading, Clock
  <2>4. CASE /\ rd.pc = "slow"
             /\ \E at \in {"lastTimeout", "lastEOF"} : rd' = [rd EXCEPT !.pc = at]
    BY <1>1, <1>2, <2>4 DEF ReadT, Reading
  <2>. QED  BY <2>1, <2>2, <2>3, <2>4
            DEF ReadNext, ReadSlow, ReadLast, TakeLate, ReadTimeout
<1>5. WriteT' /\ Writing'
  BY <1>1, <1>2 DEF WriteT, Writing
<1>. QED  BY <1>1, <1>2, <1>3, <1>4, <1>5, BytesKept, TypeParts DEF IInv

\* The next buffer of the channel becomes c.bb, which is used up.
LEMMA TakeStep ==
  ASSUME IInv, TakeBuffer, ReadNext \/ ReadSlow \/ ReadLast
  PROVE  IInv' /\ UNCHANGED <<sent, got>>
<1>1. /\ Sequenced /\ Closing /\ Message /\ HistoryT /\ WriteT /\ ReadT /\ Clock
      /\ Writing /\ Reading
  BY TypeParts DEF IInv
<1>2. /\ ch # <<>> /\ bb' = Head(ch) /\ ch' = Tail(ch)
      /\ rd' = [rd EXCEPT !.pc = "loop", !.mayBlock = FALSE, !.dl = "nil"]
  BY DEF TakeBuffer
<1>3. /\ UNCHANGED <<stopped, wr, wDeadline, wTimer, sent, got, atClose>>
      /\ rd.pc # "idle" /\ bb = <<>>
  BY <1>1, <1>2 DEF ReadNext, ReadSlow, ReadLast, TakeLate, ReadTimeout, Reading, deadlines
<1>4. /\ Head(ch) \in Bytes /\ Follows(Head(ch), Len(got) + Len(bb))
      /\ Tail(ch) \in Seq(Bytes) /\ Len(Tail(ch)) = Len(ch) - 1 /\ Len(ch) \in Nat
      /\ InChannel(Tail(ch), Len(got) + Len(bb) + Len(Head(ch)), sent)
  <2>1. Len(got) + Len(bb) \in Nat /\ sent \in Nat /\ ch \in Seq(Bytes)
    BY <1>1, LenProperties DEF HistoryT, Bytes, Message
  <2>. QED  BY <1>1, <1>2, <2>1, ChannelReceive, LenProperties DEF Sequenced
<1>5. Len(bb) = 0 /\ Len(got) \in Nat
  BY <1>1, <1>3, LenProperties, EmptySeq DEF HistoryT, Bytes
<1>6. Sequenced'
  <2>1. Len(got) + Len(bb) = Len(got)
    BY <1>5
  <2>. QED  BY <1>1, <1>2, <1>3, <1>4, <2>1 DEF Sequenced
<1>7. Message' /\ HistoryT' /\ Closing'
  BY <1>1, <1>2, <1>3, <1>4 DEF Message, HistoryT, Closing
<1>8. WriteT' /\ Writing'
  BY <1>1, <1>3 DEF WriteT, Writing
<1>9. ReadT' /\ Reading'
  BY <1>1, <1>2, <1>3 DEF ReadT, Reading, DeadlineChs
<1>10. Clock'
  BY <1>1 DEF Clock, ReadNext, ReadSlow, ReadLast, TakeLate, ReadTimeout, deadlines,
              Received, AfterTimeout, Timers, DeadlineChs
<1>. QED  BY <1>3, <1>6, <1>7, <1>8, <1>9, <1>10, TypeParts DEF IInv

\* Bytes pass from c.bb to the caller of Read.
LEMMA CopyStep ==
  ASSUME IInv, ReadCopy
  PROVE  /\ IInv'
         /\ UNCHANGED sent
         /\ \E n \in 1 .. MaxRead : /\ Len(got) + n <= sent
                                    /\ got' = got \o Stream!Numbers(Len(got), n)
<1>1. /\ Sequenced /\ Closing /\ Message /\ HistoryT /\ WriteT /\ ReadT /\ Clock
      /\ Writing /\ Reading
  BY TypeParts DEF IInv
<1>. DEFINE n == Copied
            first == SubSeq(bb, 1, n)
            rest  == SubSeq(bb, n + 1, Len(bb))
<1>2. /\ rd.pc = "loop" /\ bb # <<>> /\ got' = got \o first /\ bb' = rest
      /\ rd' = IF n = rd.want THEN NoRead
               ELSE [rd EXCEPT !.want = @ - n, !.mayBlock = FALSE]
      /\ UNCHANGED <<ch, stopped, wr, deadlines, sent, atClose>>
  BY DEF ReadCopy, NotCopied
<1>3. /\ Len(got) \in Nat /\ Len(bb) \in Nat \ {0} /\ sent \in Nat
      /\ got \in Bytes /\ bb \in Bytes
  BY <1>1, <1>2, LenProperties, EmptySeq DEF HistoryT, Bytes
<1>4. n \in 1 .. MaxRead /\ n <= Len(bb) /\ n <= rd.want /\ rd.want \in 1 .. MaxRead
  BY <1>1, <1>2, <1>3 DEF Copied, Reading, ReadT
<1>. HIDE DEF n
<1>5. /\ first = Stream!Numbers(Len(got), n) /\ first \in Bytes /\ Len(first) = n
      /\ Follows(first, Len(got))
  BY <1>1, <1>3, <1>4, FollowsFirst DEF Sequenced
<1>6. rest \in Bytes /\ Len(rest) = Len(bb) - n /\ Follows(rest, Len(got) + n)
  BY <1>1, <1>3, <1>4, FollowsRest DEF Sequenced
<1>. HIDE DEF first, rest
<1>7. /\ got \o first \in Bytes /\ Len(got \o first) = Len(got) + n
      /\ Follows(got \o first, 0)
  <2>1. 0 + Len(got) = Len(got)
    BY <1>3
  <2>. QED  BY <1>1, <1>3, <1>5, <2>1, FollowsConcat DEF Sequenced
<1>8. got' \in Bytes /\ Len(got') = Len(got) + n /\ Follows(got', 0)
  BY <1>2, <1>7
<1>9. Sequenced'
  <2>1. Len(got') + Len(bb') = Len(got) + Len(bb)
    BY <1>2, <1>3, <1>4, <1>6, <1>8
  <2>2. Follows(bb', Len(got'))
    BY <1>2, <1>6, <1>8
  <2>. QED  BY <1>1, <1>2, <1>8, <2>1, <2>2 DEF Sequenced
<1>10. Message' /\ Closing' /\ Clock' /\ WriteT' /\ Writing'
  BY <1>1, <1>2 DEF Message, Closing, Clock, WriteT, Writing, deadlines
<1>11. HistoryT'
  BY <1>1, <1>2, <1>6, <1>8 DEF HistoryT
<1>12. ReadT' /\ Reading'
  <2>1. CASE n = rd.want
    BY <1>2, <2>1 DEF ReadT, Reading, NoRead, DeadlineChs
  <2>2. CASE n # rd.want
    <3>1. rd' = [rd EXCEPT !.want = @ - n, !.mayBlock = FALSE]
      BY <1>2, <2>2
    <3>2. rd.want - n \in 0 .. MaxRead /\ rd.want - n >= 1
      BY <1>4, <2>2
    <3>3. ReadT' /\ rd'.want = rd.want - n /\ rd'.pc = "loop"
      BY <1>1, <1>2, <3>1, <3>2 DEF ReadT
    <3>. QED  BY <3>2, <3>3 DEF Reading
  <2>. QED  BY <2>1, <2>2
<1>13. Len(got) + n <= sent
  <2>1. Len(got) + Len(bb) <= sent
    BY <1>1, ChannelBound DEF Sequenced, Message
  <2>. QED  BY <1>3, <1>4, <2>1
<1>14. IInv'
  BY <1>9, <1>10, <1>11, <1>12, TypeParts DEF IInv
<1>15. got' = got \o Stream!Numbers(Len(got), n)
  BY <1>2, <1>5
<1>. QED  BY <1>2, <1>4, <1>13, <1>14, <1>15

-------------------------------------------------------------------------------
LEMMA Initially == Init => IInv /\ Stream!Init
<1>. SUFFICES ASSUME Init PROVE IInv /\ Stream!Init
  OBVIOUS
<1>1. <<>> \in Bytes /\ <<>> \in Seq(Bytes) /\ Len(<<>>) = 0
  BY EmptySeq DEF Bytes
<1>2. TypeOK
  <2>1. NoWrite \in [pc : {"idle", "test", "fast", "slow"}, b : Bytes, dl : DeadlineChs]
    BY <1>1 DEF NoWrite, DeadlineChs
  <2>2. NoRead \in [pc : {"idle", "loop", "slow", "lastTimeout", "lastEOF"},
                    want : 0 .. MaxRead, mayBlock : BOOLEAN, dl : DeadlineChs]
    BY DEF NoRead, DeadlineChs
  <2>3. Stopped \in Timers /\ "nil" \in DeadlineChs
    BY DEF Stopped, Timers, DeadlineChs
  <2>4. 0 \in 0 .. MaxBytes /\ Len(<<>>) <= Capacity
    BY <1>1
  <2>. QED  BY <1>1, <2>1, <2>2, <2>3, <2>4 DEF Init, TypeOK
<1>3. InChannel(<<>>, 0, 0)
  <2>. DEFINE off == [i \in 1 .. 1 |-> 0]
  <2>1. off \in [1 .. Len(<<>>) + 1 -> 0 .. MaxBytes] /\ Laid(off, <<>>, 0, 0)
    BY <1>1 DEF Laid
  <2>. QED  BY <2>1 DEF InChannel
<1>4. Sequenced
  BY <1>1, <1>3 DEF Init, Sequenced, Follows
<1>5. Writing /\ Reading /\ Closing /\ Stream!Init
  BY DEF Init, Writing, Reading, Closing, NoWrite, NoRead, Stream!Init
<1>. QED  BY <1>2, <1>4, <1>5 DEF IInv

LEMMA Steps ==
  ASSUME IInv, [Next]_vars
  PROVE  IInv' /\ [Stream!Accept \/ Stream!Deliver]_<<sent, got>>
<1>1. ASSUME NEW n \in 0 .. MaxWrite, Write(n)
      PROVE  IInv' /\ UNCHANGED <<sent, got>>
  BY <1>1, WriteOther
<1>2. ASSUME NEW n \in 1 .. MaxRead, Read(n)
      PROVE  IInv' /\ UNCHANGED <<sent, got>>
  BY <1>2, ReadOther
<1>3. CASE WriterStep
  <2>1. CASE SendBuffer /\ wr.pc # "idle"
    <3>1. IInv' /\ UNCHANGED got
      BY <2>1, SendStep
    <3>2. PICK n \in 0 .. MaxWrite : sent' = sent + n
      BY <2>1, SendStep
    <3>3. CASE n = 0
      BY <3>1, <3>2, <3>3 DEF IInv, TypeOK
    <3>4. CASE n # 0
      BY <3>1, <3>2, <3>4 DEF Stream!Accept
    <3>. QED  BY <3>3, <3>4
  <2>2. CASE WriteTest \/ ((WriteFast \/ WriteSlow) /\ ~SendBuffer)
    <3>1. 0 \in 0 .. MaxWrite
      OBVIOUS
    <3>. QED  BY <2>2, <3>1, WriteOther
  <2>3. (WriteFast \/ WriteSlow) => wr.pc # "idle"
    BY DEF WriteFast, WriteSlow
  <2>. QED  BY <1>3, <2>1, <2>2, <2>3 DEF WriterStep
<1>4. CASE ReaderStep
  <2>1. CASE ReadCopy
    BY <2>1, CopyStep DEF Stream!Deliver
  <2>2. CASE (ReadNext \/ ReadSlow \/ ReadLast) /\ TakeBuffer
    BY <2>2, TakeStep
  <2>3. CASE (ReadNext \/ ReadSlow \/ ReadLast) /\ ~TakeBuffer
    <3>1. 1 \in 1 .. MaxRead
      OBVIOUS
    <3>. QED  BY <2>3, <3>1, ReadOther
  <2>. QED  BY <1>4, <2>1, <2>2, <2>3 DEF ReaderStep
<1>5. CASE UNCHANGED vars
  <2>1. UNCHANGED <<ch, stopped, wr, rd, bb, rDeadline, wDeadline, rTimer, wTimer, sent,
                    got, atClose>>
    BY <1>5 DEF vars
  <2>2. Clock' /\ WriteT' /\ ReadT' /\ Writing' /\ Reading'
    BY <2>1, TypeParts DEF IInv, Clock, WriteT, ReadT, Writing, Reading
  <2>. QED  BY <2>1, <2>2, BytesKept, TypeParts DEF IInv
<1>. QED  BY <1>1, <1>2, <1>3, <1>4, <1>5, DeadlineStep, CloseStep DEF Next

LEMMA Always == Spec => []IInv
<1>1. Init => IInv
  BY Initially
<1>2. IInv /\ [Next]_vars => IInv'
  BY Steps
<1>. QED  BY <1>1, <1>2, PTL DEF Spec

\* The variables keep their types, and the channel never holds more buffers
\* than its capacity.
THEOREM TypeCorrect == Spec => []TypeOK
<1>1. IInv => TypeOK
  BY DEF IInv
<1>. QED  BY <1>1, Always, PTL

\* Whatever deadlines pass and whenever either side closes, the bytes read are
\* those that Write accepted, in that order, each once.
THEOREM StreamImplemented == Spec => ImplementsStream
<1>1. Init => Stream!Init
  BY Initially
<1>2. IInv /\ [Next]_vars => [Stream!Accept \/ Stream!Deliver]_<<sent, got>>
  BY Steps
<1>. QED  BY <1>1, <1>2, Always, PTL DEF Spec, ImplementsStream, Stream!Spec

\* A Read returns io.EOF only after everything that was accepted before Close.
THEOREM EofAfterDataAlways == Spec => EofAfterData
<1>1. IInv /\ [Next]_vars =>
        [rd.pc = "lastEOF" /\ rd'.pc = "idle" => Len(got) >= atClose]_vars
  <2>. SUFFICES ASSUME IInv, Next, rd.pc = "lastEOF", rd'.pc = "idle"
                PROVE  Len(got) >= atClose
    OBVIOUS
  <2>1. ch = <<>> /\ bb = <<>>
    <3>1. ReadLast
      BY DEF Next, Write, Read, WriterStep, WriteTest, WriteFast, WriteSlow, SendBuffer,
             WriteTimeout, Closed, ReaderStep, ReadCopy, ReadNext, ReadSlow,
             SetReadDeadline, SetWriteDeadline, FireRead, FireWrite, Close
    <3>2. ~TakeBuffer
      BY TypeParts DEF TakeBuffer, IInv, ReadT
    <3>. QED  BY <3>1, <3>2 DEF ReadLast, Drained, IInv, Reading
  <2>2. Len(got) + Len(bb) = sent
    BY <2>1, EmptyChannel DEF IInv, Sequenced
  <2>3. Len(bb) = 0 /\ Len(got) \in Nat
    BY <2>1, LenProperties, EmptySeq DEF IInv, TypeOK, Bytes
  <2>. QED  BY <2>2, <2>3 DEF IInv, Closing, TypeOK
<1>. QED  BY <1>1, Always, PTL DEF Spec, EofAfterData

===============================================================================
