-------------------------- MODULE PipelineConnProofs --------------------------
(***************************************************************************)
(* Proofs about PipelineConn, for any number of calls, any capacity of the *)
(* channels, any number of generations and any set of faults.              *)
(***************************************************************************)
EXTENDS PipelineConn, SequenceTheorems, TLAPS

USE ConnAssumption

\* The contents of the channels: types, and at most the capacity.
Channels(q) == /\ q \in [Gens -> Seq(Calls)]
               /\ \A g \in Gens : Len(q[g]) <= MaxPendingRequests

LEMMA ConstantTypes == /\ Gens \subseteq Nat /\ Gens \subseteq Refs
                       /\ Nil \in Refs /\ Nil \notin Gens
                       /\ \A c \in Refs : c # Nil => c \in Gens
  BY DEF Gens, Refs, Nil

\* A send keeps the channels within their capacity.
LEMMA PutType ==
  ASSUME NEW q, Channels(q), NEW c \in Refs, CanSend(c, q), NEW p \in Calls
  PROVE  Channels(Put(q, c, p))
<1>1. c \in Gens
  BY DEF CanSend, Gens, Refs, Nil
<1>2. /\ Append(q[c], p) \in Seq(Calls)
      /\ Len(Append(q[c], p)) = Len(q[c]) + 1
      /\ Len(q[c]) \in Nat
  BY <1>1, AppendProperties, LenProperties DEF Channels
<1>. QED  BY <1>1, <1>2 DEF Channels, Put, CanSend

\* A receive yields a call and keeps the channels within their capacity.
LEMMA DropType ==
  ASSUME NEW q, Channels(q), NEW c \in Refs, CanRecv(c, q)
  PROVE  /\ Channels(Drop(q, c))
         /\ c \in Gens /\ q[c] \in Seq(Calls) /\ q[c] # <<>>
         /\ Head(q[c]) \in Calls
<1>1. c \in Gens
  BY DEF CanRecv, Gens, Refs, Nil
<1>2. /\ Head(q[c]) \in Calls
      /\ Tail(q[c]) \in Seq(Calls)
      /\ Len(Tail(q[c])) = Len(q[c]) - 1
      /\ Len(q[c]) \in Nat
  BY <1>1, HeadTailProperties, LenProperties DEF Channels, CanRecv
<1>. QED  BY <1>1, <1>2 DEF Channels, Drop, CanRecv

\* TypeOK, one part per variable.
FieldsT  == chR \in Refs /\ chW \in Refs
CallT    == call \in [Clients -> [pc : ClientPCs, ch : Refs]]
PendingT == pending \in [Polls -> Nat]
WorkT    == work \in [Calls -> [done : BOOLEAN, err : Errors, resp : Hands,
                               stray : BOOLEAN]]
SupT     == sup \in [Gens -> [pc : SupPCs, err : Errors, ch : Refs]]
WrT      == wr \in [Gens -> [pc : WriterPCs, chR : Refs, chW : Refs, w : Hands,
                             err : Errors, flush : BOOLEAN]]
RdT      == rd \in [Gens -> [pc : ReaderPCs, chR : Refs, w : Hands, err : Errors]]
ConnRec  == [wire : Seq(Calls), flushed : Nat, torn : BOOLEAN, shifted : BOOLEAN]
ConnT    == conn \in [Gens -> ConnRec]

Parts    == /\ FieldsT /\ Channels(qR) /\ Channels(qW) /\ CallT /\ PendingT
            /\ WorkT /\ SupT /\ WrT /\ RdT /\ ConnT

LEMMA TypeParts == TypeOK <=> Parts
  BY DEF Parts, TypeOK, Channels, FieldsT, CallT, PendingT, WorkT, SupT, WrT, RdT, ConnT,
         ConnRec

LEMMA TypePartsNext == TypeOK' <=> Parts'
  BY TypeParts, PTL

\* A variable that does not change keeps its part.
LEMMA TypeFrame ==
  /\ FieldsT /\ UNCHANGED <<chR, chW>> => FieldsT'
  /\ Channels(qR) /\ UNCHANGED qR => Channels(qR')
  /\ Channels(qW) /\ UNCHANGED qW => Channels(qW')
  /\ CallT /\ UNCHANGED call => CallT'
  /\ PendingT /\ UNCHANGED pending => PendingT'
  /\ WorkT /\ UNCHANGED work => WorkT'
  /\ SupT /\ UNCHANGED sup => SupT'
  /\ WrT /\ UNCHANGED wr => WrT'
  /\ RdT /\ UNCHANGED rd => RdT'
  /\ ConnT /\ UNCHANGED conn => ConnT'
<1>1. FieldsT /\ UNCHANGED <<chR, chW>> => FieldsT'
  BY DEF FieldsT
<1>2. CallT /\ UNCHANGED call => CallT'
  BY DEF CallT
<1>3. PendingT /\ UNCHANGED pending => PendingT'
  BY DEF PendingT
<1>4. WorkT /\ UNCHANGED work => WorkT'
  BY DEF WorkT
<1>5. SupT /\ UNCHANGED sup => SupT'
  BY DEF SupT
<1>6. WrT /\ UNCHANGED wr => WrT'
  BY DEF WrT
<1>7. RdT /\ UNCHANGED rd => RdT'
  BY DEF RdT
<1>8. ConnT /\ UNCHANGED conn => ConnT'
  BY DEF ConnT
<1>. QED  BY <1>1, <1>2, <1>3, <1>4, <1>5, <1>6, <1>7, <1>8

LEMMA TypeInit == Init => TypeOK
<1>. SUFFICES ASSUME Init PROVE TypeOK
  OBVIOUS
<1>1. FieldsT /\ PendingT
  BY ConstantTypes DEF Init, FieldsT, PendingT
<1>2. Channels(qR) /\ Channels(qW)
  BY EmptySeq DEF Init, Channels
<1>3. CallT /\ SupT
  BY ConstantTypes DEF Init, CallT, SupT, ClientPCs, SupPCs, Errors
<1>4. WorkT
  BY DEF Init, WorkT, Errors, Hands
<1>5. WrT /\ RdT
  BY ConstantTypes
     DEF Init, WrT, RdT, NoWriter, NoReader, WriterPCs, ReaderPCs, Errors, Hands
<1>6. ConnT
  BY EmptySeq DEF Init, ConnT, ConnRec, NoConn
<1>. QED  BY <1>1, <1>2, <1>3, <1>4, <1>5, <1>6, TypeParts DEF Parts

\* The fields of the records.
LEMMA TypeFields ==
  ASSUME TypeOK
  PROVE  /\ \A p \in Clients : call[p].pc \in ClientPCs /\ call[p].ch \in Refs
         /\ \A p \in Calls : /\ work[p].done \in BOOLEAN /\ work[p].err \in Errors
                             /\ work[p].resp \in Hands /\ work[p].stray \in BOOLEAN
         /\ \A g \in Gens :
              /\ sup[g].pc \in SupPCs /\ sup[g].err \in Errors /\ sup[g].ch \in Refs
              /\ wr[g].pc \in WriterPCs /\ wr[g].chR \in Refs /\ wr[g].chW \in Refs
              /\ wr[g].w \in Hands /\ wr[g].err \in Errors
              /\ wr[g].flush \in BOOLEAN
              /\ rd[g].pc \in ReaderPCs /\ rd[g].chR \in Refs /\ rd[g].w \in Hands
              /\ rd[g].err \in Errors
              /\ conn[g].wire \in Seq(Calls) /\ conn[g].flushed \in Nat
              /\ conn[g].torn \in BOOLEAN /\ conn[g].shifted \in BOOLEAN
  BY TypeParts DEF Parts, CallT, WorkT, SupT, WrT, RdT, ConnT, ConnRec

LEMMA SignalType ==
  ASSUME WorkT, NEW p, NEW e \in Errors, work' = Signal(p, e)
  PROVE  WorkT'
  BY DEF WorkT, Signal

LEMMA TypeStepCaller ==
  ASSUME TypeOK, NEW p \in Clients,
         InitFound(p) \/ InitMakeR(p) \/ InitMakeW(p)
           \/ (p \in Calls /\ CallStep(p)) \/ (p \in Polls /\ PollCount(p))
  PROVE  TypeOK'
<1>. USE TypeParts, TypePartsNext, TypeFrame DEF Parts, fields, queues, notCall
<1>1. ASSUME NEW at, NEW next \in ClientPCs, Goto(p, at, next) PROVE CallT'
  BY <1>1 DEF Goto, CallT
<1>2. /\ "makeW" \in ClientPCs /\ "wait" \in ClientPCs /\ "ret" \in ClientPCs
      /\ "evalEvict" \in ClientPCs /\ "evalResend" \in ClientPCs
      /\ "send" \in ClientPCs /\ "evict" \in ClientPCs /\ "resend" \in ClientPCs
      /\ AfterInit(p) \in ClientPCs
  BY DEF ClientPCs, AfterInit
<1>3. CASE InitFound(p)
  BY <1>1, <1>2, <1>3 DEF InitFound
<1>4. CASE InitMakeR(p)
  <2>1. FieldsT'
    BY <1>4, ConstantTypes DEF InitMakeR, FieldsT
  <2>. QED  BY <1>1, <1>2, <1>4, <2>1 DEF InitMakeR
<1>5. CASE InitMakeW(p)
  <2>1. FieldsT'
    BY <1>5, ConstantTypes DEF InitMakeW, FieldsT
  <2>2. SupT'
    BY <1>5, ConstantTypes DEF InitMakeW, SupT, SupPCs
  <2>. QED  BY <1>1, <1>2, <1>5, <2>1, <2>2 DEF InitMakeW
<1>6. CASE p \in Calls /\ DoEval(p)
  <2>1. CallT'
    <3>1. ASSUME NEW at, NEW next \in ClientPCs, EvalChW(p, at, next) PROVE CallT'
      BY <3>1 DEF EvalChW, CallT, FieldsT
    <3>. QED  BY <1>2, <1>6, <3>1 DEF DoEval
  <2>. QED  BY <1>6, <2>1 DEF DoEval
<1>7. CASE p \in Calls /\ DoSend(p)
  <2>1. Channels(qW')
    BY <1>7, PutType, TypeFields DEF DoSend
  <2>. QED  BY <1>1, <1>2, <1>7, <2>1 DEF DoSend
<1>8. CASE p \in Calls /\ DoDefault(p)
  BY <1>1, <1>2, <1>8 DEF DoDefault
<1>9. CASE p \in Calls /\ DoEvict(p)
  <2>1. Channels(qW') /\ Head(qW[call[p].ch]) \in Calls
    BY <1>9, DropType, TypeFields DEF DoEvict
  <2>2. "overflow" \in Errors
    BY DEF Errors
  <2>. QED  BY <1>1, <1>2, <1>9, <2>1, <2>2, SignalType DEF DoEvict
<1>10. CASE p \in Calls /\ DoOverflow(p)
  <2>1. WorkT'
    BY <1>10 DEF DoOverflow, WorkT, Errors
  <2>. QED  BY <1>1, <1>2, <1>10, <2>1 DEF DoOverflow
<1>11. CASE p \in Calls /\ DoReturn(p)
  <2>1. WorkT'
    BY <1>11 DEF DoReturn, Returned, WorkT
  <2>. QED  BY <1>1, <1>2, <1>11, <2>1 DEF DoReturn
<1>12. CASE p \in Polls /\ PollCount(p)
  <2>1. Queued(chR, qR) \in Nat /\ Queued(chW, qW) \in Nat
    BY ConstantTypes, LenProperties DEF Queued, Channels, FieldsT
  <2>2. PendingT'
    BY <1>12, <2>1 DEF PollCount, PendingT
  <2>. QED  BY <1>1, <1>2, <1>12, <2>2 DEF PollCount
<1>. QED  BY <1>3, <1>4, <1>5, <1>6, <1>7, <1>8, <1>9, <1>10, <1>11, <1>12
          DEF CallStep

LEMMA TypeStepSup ==
  ASSUME TypeOK, NEW g \in Gens, SupStep(g)
  PROVE  TypeOK'
<1>. USE TypeParts, TypePartsNext, TypeFrame DEF Parts, fields, queues, notSup
<1>1. ASSUME NEW at, NEW next \in SupPCs, SupGoto(g, at, next) PROVE SupT'
  BY <1>1 DEF SupGoto, SupT
<1>2. ASSUME NEW at, NEW next \in SupPCs, NEW e \in Errors, SupFail(g, at, next, e)
      PROVE  SupT'
  BY <1>2 DEF SupFail, SupT
<1>3. /\ "dial" \in SupPCs /\ "run" \in SupPCs /\ "joinR" \in SupPCs
      /\ "joinW" \in SupPCs /\ "drain" \in SupPCs /\ "drainEval" \in SupPCs
      /\ "drainRecv" \in SupPCs /\ "blame" \in SupPCs /\ "blameRecv" \in SupPCs
      /\ "decide" \in SupPCs /\ "nilW" \in SupPCs /\ "gone" \in SupPCs
      /\ "dial" \in Errors /\ "stopped" \in Errors
  BY DEF SupPCs, Errors
<1>4. CASE DialOk(g)
  <2>1. WrT' /\ RdT'
    BY <1>4 DEF DialOk, WrT, RdT, WriterPCs, ReaderPCs
  <2>. QED  BY <1>1, <1>3, <1>4, <2>1 DEF DialOk
<1>5. CASE DialFail(g)
  BY <1>2, <1>3, <1>5 DEF DialFail
<1>6. CASE WriterDone(g)
  <2>1. WrT'
    BY <1>6 DEF WriterDone, WrT, WriterPCs
  <2>. QED  BY <1>2, <1>3, <1>6, <2>1, TypeFields DEF WriterDone
<1>7. CASE ReaderDone(g)
  <2>1. RdT'
    BY <1>7 DEF ReaderDone, RdT, ReaderPCs
  <2>. QED  BY <1>2, <1>3, <1>7, <2>1, TypeFields DEF ReaderDone
<1>8. CASE Join(g)
  <2>1. WrT'
    BY <1>8, ConstantTypes DEF Join, WrT, NoWriter, WriterPCs, Errors, Hands
  <2>2. RdT'
    BY <1>8, ConstantTypes DEF Join, RdT, NoReader, ReaderPCs, Errors, Hands
  <2>3. ConnT'
    BY <1>8, EmptySeq DEF Join, ConnT, ConnRec, NoConn
  <2>. QED  BY <1>1, <1>3, <1>8, <2>1, <2>2, <2>3 DEF Join
<1>9. CASE DrainLoop(g)
  BY <1>1, <1>3, <1>9 DEF DrainLoop
<1>10. CASE EvalRecv(g)
  <2>1. SupT'
    <3>1. ASSUME NEW at, NEW next \in SupPCs, NEW c \in Refs,
                 EvalCh(g, at, next, c)
          PROVE  SupT'
      BY <3>1 DEF EvalCh, SupT
    <3>. QED  BY <1>3, <1>10, <3>1 DEF EvalRecv, FieldsT
  <2>. QED  BY <1>10, <2>1 DEF EvalRecv
<1>11. CASE DrainRecv(g)
  <2>1. Channels(qR') /\ Head(qR[sup[g].ch]) \in Calls
    BY <1>11, DropType, TypeFields DEF DrainRecv
  <2>. QED  BY <1>1, <1>3, <1>11, <2>1, SignalType DEF DrainRecv
<1>12. CASE BlameRecv(g)
  <2>1. Channels(qW') /\ Head(qW[sup[g].ch]) \in Calls
    BY <1>12, DropType, TypeFields DEF BlameRecv
  <2>. QED  BY <1>1, <1>3, <1>12, <2>1, SignalType, TypeFields DEF BlameRecv
<1>13. CASE DecideStop(g)
  BY <1>1, <1>3, <1>13 DEF DecideStop
<1>14. CASE DecideNilR(g)
  <2>1. FieldsT'
    BY <1>14, ConstantTypes DEF DecideNilR, FieldsT
  <2>. QED  BY <1>1, <1>3, <1>14, <2>1 DEF DecideNilR
<1>15. CASE DecideNilW(g)
  <2>1. FieldsT'
    BY <1>15, ConstantTypes DEF DecideNilW, FieldsT
  <2>. QED  BY <1>1, <1>3, <1>15, <2>1 DEF DecideNilW
<1>. QED  BY <1>4, <1>5, <1>6, <1>7, <1>8, <1>9, <1>10, <1>11, <1>12, <1>13,
             <1>14, <1>15 DEF SupStep

-------------------------------------------------------------------------------
(* What a goroutine has in hand at each of its steps.                      *)

Carrying == {"write", "putFast", "putSlow"}
Running  == {"run", "joinR", "joinW"}

WriterHands == \A g \in Gens : wr[g].pc \in Carrying <=> wr[g].w # NoCall
ReaderHands == \A g \in Gens : rd[g].pc = "read" <=> rd[g].w # NoCall

\* bw does not send more than was written to it.
Flushed == \A g \in Gens : conn[g].flushed <= Len(conn[g].wire)

\* Which of the two goroutines of its worker the supervisor still waits for.
Workers ==
  \A g \in Gens :
    /\ sup[g].pc \notin Running => wr[g].pc = "off" /\ rd[g].pc = "off"
    /\ sup[g].pc = "joinR" => wr[g].pc = "off"
    /\ sup[g].pc = "joinW" => rd[g].pc = "off"

\* The critical section of init, between its two assignments.
Locked ==
  \A p \in Clients : call[p].pc = "makeW" =>
    /\ \A r \in Clients : call[r].pc = "makeW" => r = p
    /\ chR \in Gens /\ sup[chR].pc = "none"

Locals == WriterHands /\ ReaderHands /\ Flushed /\ Workers /\ Locked

LEMMA TypeStepWriter ==
  ASSUME TypeOK, WriterHands, NEW g \in Gens, WriterStep(g)
  PROVE  TypeOK'
<1>. USE TypeParts, TypePartsNext, TypeFrame DEF Parts, fields, queues, notWriter
<1>1. ASSUME NEW at, NEW next \in WriterPCs, WGoto(g, at, next) PROVE WrT'
  BY <1>1 DEF WGoto, WrT
<1>2. /\ "loadW" \in WriterPCs /\ "fast" \in WriterPCs /\ "slow" \in WriterPCs
      /\ "write" \in WriterPCs /\ "putFast" \in WriterPCs
      /\ "putSlow" \in WriterPCs /\ "exit" \in WriterPCs
      /\ "nil" \in Errors /\ "write" \in Errors /\ "stopped" \in Errors
  BY DEF WriterPCs, Errors
<1>3. Unflushed \/ FlushedAll(g) => ConnT'
  <2>1. Len(conn[g].wire) \in Nat
    BY TypeFields, LenProperties
  <2>2. FlushedAll(g) => ConnT'
    BY <2>1 DEF FlushedAll, ConnT, ConnRec
  <2>. QED  BY <2>2 DEF Unflushed
<1>4. ASSUME NEW at, NEW e \in Errors, WriterExit(g, at, e)
      PROVE  /\ WrT' /\ ConnT'
             /\ FieldsT' /\ Channels(qR') /\ Channels(qW') /\ CallT' /\ PendingT'
             /\ SupT' /\ RdT'
  <2>1. WrT'
    BY ZenonT(60), <1>2, <1>4 DEF WriterExit, WrT, Hands
  <2>. QED  BY <1>3, <1>4, <2>1 DEF WriterExit
<1>5. wr[g].pc \in Carrying => wr[g].w \in Calls
  BY TypeFields DEF WriterHands, Hands
<1>6. CASE WriterLoad(g)
  <2>1. WrT'
    BY <1>2, <1>6 DEF WriterLoad, WrT, FieldsT
  <2>. QED  BY <1>6, <2>1 DEF WriterLoad
<1>7. CASE WriterTake(g)
  <2>1. Channels(qW') /\ Head(qW[wr[g].chW]) \in Calls
    BY <1>7, DropType, TypeFields DEF WriterTake
  <2>2. WrT'
    BY ZenonT(60), <1>2, <1>7, <2>1 DEF WriterTake, WrT, Hands
  <2>. QED  BY <1>7, <2>1, <2>2 DEF WriterTake
<1>8. CASE WriterBlock(g)
  BY <1>1, <1>2, <1>8 DEF WriterBlock
<1>9. CASE WriterFlush(g)
  <2>1. WrT'
    BY <1>2, <1>9 DEF WriterFlush, WrT
  <2>. QED  BY <1>3, <1>9, <2>1 DEF WriterFlush
<1>10. CASE WriterQuit(g)
  BY <1>2, <1>4, <1>10 DEF WriterQuit
<1>11. CASE WriterDrop(g)
  BY <1>2, <1>4, <1>11, SignalType DEF WriterDrop
<1>12. CASE WriterWrite(g)
  <2>1. wr[g].w \in Calls
    BY <1>5, <1>12 DEF WriterWrite, Carrying
  <2>2. Append(conn[g].wire, wr[g].w) \in Seq(Calls) /\ Len(conn[g].wire) \in Nat
    BY <2>1, TypeFields, AppendProperties, LenProperties
  <2>3. PICK n \in 0 .. Len(conn[g].wire) + 1 :
          conn' = [conn EXCEPT ![g].wire = Append(@, wr[g].w), ![g].flushed = n]
    BY <1>12 DEF WriterWrite
  <2>4. n \in Nat
    BY <2>2, <2>3
  <2>5. ConnT'
    BY <2>2, <2>3, <2>4 DEF ConnT, ConnRec
  <2>6. WrT'
    <3>1. (wr[g].flush \/ ArmsFlush(g)) \in BOOLEAN
      OBVIOUS
    <3>2. wr' = [wr EXCEPT ![g].pc = "putFast",
                           ![g].flush = wr[g].flush \/ ArmsFlush(g)]
      BY <1>12 DEF WriterWrite, WrT
    <3>. QED  BY <1>2, <3>1, <3>2 DEF WrT
  <2>. QED  BY <1>12, <2>5, <2>6 DEF WriterWrite
<1>13. CASE WriterPut(g)
  <2>1. wr[g].w \in Calls
    BY <1>5, <1>13 DEF WriterPut, Carrying
  <2>2. Channels(qR')
    BY <1>13, <2>1, PutType, TypeFields DEF WriterPut
  <2>3. WrT'
    BY ZenonT(60), <1>2, <1>13 DEF WriterPut, WrT, Hands
  <2>. QED  BY <1>13, <2>2, <2>3 DEF WriterPut
<1>. QED  BY <1>6, <1>7, <1>8, <1>9, <1>10, <1>11, <1>12, <1>13 DEF WriterStep

\* One Read: a response was sent, and what is left of the wire is what was not
\* taken, without the first response unless the connection is shifted now.
LEMMA ReadTakes ==
  ASSUME TypeOK, Flushed, NEW g \in Gens, ReaderRead(g)
  PROVE  /\ Head(conn[g].wire) \in Calls
         /\ \E c \in ConnRec :
              /\ conn' = [conn EXCEPT ![g] = c]
              /\ c.flushed <= Len(c.wire)
              /\ ~c.shifted => ~conn[g].shifted /\ c.wire = Tail(conn[g].wire)
<1>. DEFINE s == conn[g].wire
            f == conn[g].flushed
<1>1. /\ s \in Seq(Calls) /\ f \in Nat /\ f > 0 /\ f <= Len(s) /\ Len(s) \in Nat
      /\ ConnT /\ conn[g].shifted \in BOOLEAN
  BY TypeFields, TypeParts, LenProperties DEF ReaderRead, Flushed, Parts
<1>2. s # <<>>
  BY <1>1, EmptySeq
<1>3. Head(s) \in Calls /\ Tail(s) = SubSeq(s, 2, Len(s))
  <2>1. Head(s) \in Calls
    BY <1>1, <1>2, HeadTailProperties
  <2>2. Tail(s) = SubSeq(s, 1 + 1, Len(s))
    BY <1>1, <1>2, TailIsSubSeq
  <2>3. 1 + 1 = 2
    OBVIOUS
  <2>. QED  BY <2>1, <2>2, <2>3
<1>4. PICK n \in 0 .. f, tears \in BOOLEAN :
        conn' = [conn EXCEPT ![g].wire = SubSeq(@, n + 1, Len(@)),
                             ![g].flushed = @ - n, ![g].torn = tears,
                             ![g].shifted = @ \/ n # 1]
  BY DEF ReaderRead
<1>. DEFINE t == SubSeq(s, n + 1, Len(s))
            b == conn[g].shifted \/ n # 1
            c == [conn[g] EXCEPT !.wire = t, !.flushed = f - n, !.torn = tears,
                                 !.shifted = b]
<1>5. t \in Seq(Calls) /\ Len(t) = Len(s) - n
  <2>1. \A i \in n + 1 .. Len(s) : s[i] \in Calls
    BY <1>1, ElementOfSeq
  <2>2. /\ SubSeq(s, n + 1, Len(s)) \in Seq(Calls)
        /\ Len(SubSeq(s, n + 1, Len(s)))
             = IF n + 1 <= Len(s) THEN Len(s) - (n + 1) + 1 ELSE 0
    <3>1. n + 1 \in Int /\ Len(s) \in Int
      BY <1>1
    <3>. HIDE DEF s
    <3>. QED  BY <2>1, <3>1, SubSeqProperties
  <2>. QED  BY <1>1, <2>2
<1>6. c \in ConnRec /\ c.flushed <= Len(c.wire) /\ c.wire = t /\ c.shifted = b
  <2>1. f - n \in Nat /\ f - n <= Len(t) /\ conn[g] \in ConnRec /\ b \in BOOLEAN
    BY <1>1, <1>5 DEF ConnT
  <2>. HIDE DEF t, b
  <2>. QED  BY <1>5, <2>1 DEF ConnRec
<1>7. conn' = [conn EXCEPT ![g] = c]
  BY <1>4
<1>8. ~b => ~conn[g].shifted /\ t = Tail(s)
  <2>1. ~b => n = 1 /\ ~conn[g].shifted
    OBVIOUS
  <2>2. n = 1 => n + 1 = 2
    OBVIOUS
  <2>. QED  BY <1>3, <2>1, <2>2
<1>. HIDE DEF c
<1>. QED  BY <1>3, <1>6, <1>7, <1>8

LEMMA TypeStepReader ==
  ASSUME TypeOK, Flushed, NEW g \in Gens, ReaderStep(g)
  PROVE  TypeOK'
<1>. USE TypeParts, TypePartsNext, TypeFrame DEF Parts, fields, queues, notReader
<1>1. /\ "fast" \in ReaderPCs /\ "slow" \in ReaderPCs /\ "read" \in ReaderPCs
      /\ "exit" \in ReaderPCs /\ "nil" \in Errors /\ "read" \in Errors
  BY DEF ReaderPCs, Errors
<1>2. CASE ReaderLoad(g)
  <2>1. RdT'
    BY <1>1, <1>2 DEF ReaderLoad, RdT, FieldsT
  <2>. QED  BY <1>2, <2>1 DEF ReaderLoad
<1>3. CASE ReaderTake(g)
  <2>1. Channels(qR') /\ Head(qR[rd[g].chR]) \in Calls
    BY <1>3, DropType, TypeFields DEF ReaderTake
  <2>2. RdT'
    BY <1>1, <1>3, <2>1 DEF ReaderTake, RdT, Hands
  <2>. QED  BY <1>3, <2>1, <2>2 DEF ReaderTake
<1>4. CASE ReaderBlock(g)
  <2>1. RdT'
    BY <1>1, <1>4 DEF ReaderBlock, RdT
  <2>. QED  BY <1>4, <2>1 DEF ReaderBlock
<1>5. CASE ReaderStop(g)
  <2>1. RdT'
    BY <1>1, <1>5 DEF ReaderStop, RdT
  <2>. QED  BY <1>5, <2>1 DEF ReaderStop
<1>6. CASE ReaderRead(g)
  <2>2. Head(conn[g].wire) \in Hands
    BY <1>6, ReadTakes DEF Hands
  <2>5. ConnT'
    BY <1>6, ReadTakes DEF ConnT
  <2>6. WorkT'
    <3>1. work' = [work EXCEPT ![rd[g].w].resp = Head(conn[g].wire),
                               ![rd[g].w].stray = conn[g].shifted,
                               ![rd[g].w].done = TRUE]
      BY <1>6 DEF ReaderRead
    <3>2. conn[g].shifted \in BOOLEAN
      BY TypeFields
    <3>. QED  BY <2>2, <3>1, <3>2 DEF WorkT
  <2>7. RdT'
    <3>1. rd' = [rd EXCEPT ![g].pc = "fast", ![g].w = NoCall]
      BY <1>6 DEF ReaderRead
    <3>. QED  BY <1>1, <3>1 DEF RdT, Hands
  <2>. QED  BY <1>6, <2>5, <2>6, <2>7 DEF ReaderRead
<1>7. CASE ReaderFail(g)
  <2>1. RdT'
    BY ZenonT(60), <1>1, <1>7 DEF ReaderFail, ReadError, RdT, Hands
  <2>2. WorkT'
    BY <1>1, <1>7, SignalType DEF ReaderFail
  <2>. QED  BY <1>7, <2>1, <2>2 DEF ReaderFail
<1>. QED  BY <1>2, <1>3, <1>4, <1>5, <1>6, <1>7 DEF ReaderStep

\* A part of Locals is kept by a step that leaves its variables alone.
LEMMA LocalsFrame ==
  /\ WriterHands /\ UNCHANGED wr => WriterHands'
  /\ ReaderHands /\ UNCHANGED rd => ReaderHands'
  /\ Flushed /\ UNCHANGED conn => Flushed'
  /\ Workers /\ UNCHANGED <<sup, wr, rd>> => Workers'
  /\ Locked /\ UNCHANGED <<chR, call, sup>> => Locked'
<1>1. WriterHands /\ UNCHANGED wr => WriterHands'
  BY DEF WriterHands
<1>2. ReaderHands /\ UNCHANGED rd => ReaderHands'
  BY DEF ReaderHands
<1>3. Flushed /\ UNCHANGED conn => Flushed'
  BY DEF Flushed
<1>4. Workers /\ UNCHANGED <<sup, wr, rd>> => Workers'
  BY DEF Workers
<1>5. Locked /\ UNCHANGED <<chR, call, sup>> => Locked'
  BY DEF Locked
<1>. QED  BY <1>1, <1>2, <1>3, <1>4, <1>5

LEMMA LocalsInit == Init => Locals
<1>. SUFFICES ASSUME Init PROVE Locals
  OBVIOUS
<1>1. WriterHands /\ ReaderHands
  BY DEF Init, WriterHands, ReaderHands, NoWriter, NoReader, Carrying
<1>2. Flushed
  BY EmptySeq DEF Init, Flushed, NoConn
<1>3. Workers
  BY DEF Init, Workers, NoWriter, NoReader, Running
<1>4. Locked
  BY DEF Init, Locked
<1>. QED  BY <1>1, <1>2, <1>3, <1>4 DEF Locals

LEMMA LocalsStepCaller ==
  ASSUME TypeOK, Locals, NEW p \in Clients,
         InitFound(p) \/ InitMakeR(p) \/ InitMakeW(p)
           \/ (p \in Calls /\ CallStep(p)) \/ (p \in Polls /\ PollCount(p))
  PROVE  Locals'
<1>. USE TypeParts, LocalsFrame DEF Parts, Locals, fields, queues, notCall
<1>1. ASSUME NEW at, NEW next, Goto(p, at, next), next # "makeW",
             UNCHANGED <<chR, sup>>
      PROVE  Locked'
  <2>1. \A r \in Clients : call'[r].pc = "makeW" => call[r].pc = "makeW"
    BY <1>1 DEF Goto, CallT
  <2>. QED  BY <1>1, <2>1 DEF Locked
<1>2. AfterInit(p) # "makeW"
  BY DEF AfterInit
<1>3. CASE InitFound(p)
  BY <1>1, <1>2, <1>3 DEF InitFound
<1>4. CASE InitMakeR(p)
  <2>1. \A r \in Clients : call'[r].pc = "makeW" => r = p
    BY <1>4 DEF InitMakeR, LockFree, Goto, CallT
  <2>2. chR' \in Gens /\ sup[chR'].pc = "none"
    BY <1>4 DEF InitMakeR
  <2>3. Locked'
    BY <1>4, <2>1, <2>2 DEF InitMakeR, Locked
  <2>. QED  BY <1>4, <2>3 DEF InitMakeR
<1>5. CASE InitMakeW(p)
  <2>1. /\ \A r \in Clients : call[r].pc = "makeW" => r = p
        /\ chR \in Gens /\ sup[chR].pc = "none"
    BY <1>5 DEF InitMakeW, Goto, Locked
  <2>2. \A r \in Clients : call'[r].pc # "makeW"
    BY <1>2, <1>5, <2>1 DEF InitMakeW, Goto, CallT
  <2>3. \A g \in Gens : sup'[g].pc = IF g = chR THEN "dial" ELSE sup[g].pc
    BY <1>5, <2>1 DEF InitMakeW, SupT
  <2>4. Workers'
    BY <1>5, <2>1, <2>3 DEF InitMakeW, Workers, Running
  <2>. QED  BY <1>5, <2>2, <2>4 DEF InitMakeW, Locked
<1>6. CASE p \in Calls /\ DoEval(p)
  <2>1. \A r \in Clients : call'[r].pc = "makeW" => call[r].pc = "makeW"
    BY <1>6 DEF DoEval, EvalChW, CallT
  <2>. QED  BY <1>6, <2>1 DEF DoEval, Locked
<1>7. CASE p \in Calls /\ DoSend(p)
  BY <1>1, <1>7 DEF DoSend
<1>8. CASE p \in Calls /\ DoDefault(p)
  BY <1>1, <1>8 DEF DoDefault
<1>9. CASE p \in Calls /\ DoEvict(p)
  BY <1>1, <1>9 DEF DoEvict
<1>10. CASE p \in Calls /\ DoOverflow(p)
  BY <1>1, <1>10 DEF DoOverflow
<1>11. CASE p \in Calls /\ DoReturn(p)
  BY <1>1, <1>11 DEF DoReturn
<1>12. CASE p \in Polls /\ PollCount(p)
  BY <1>1, <1>12 DEF PollCount
<1>. QED  BY <1>3, <1>4, <1>5, <1>6, <1>7, <1>8, <1>9, <1>10, <1>11, <1>12
          DEF CallStep

LEMMA LocalsStepSup ==
  ASSUME TypeOK, Locals, NEW g \in Gens, SupStep(g)
  PROVE  Locals'
<1>. USE TypeParts, LocalsFrame DEF Parts, Locals, fields, queues, notSup
<1>1. ASSUME NEW next,
             sup[g].pc # "none",
             \A h \in Gens : sup'[h].pc = IF h = g THEN next ELSE sup[h].pc,
             next # "none" , UNCHANGED <<chR, call>>
      PROVE  Locked'
  BY <1>1 DEF Locked
<1>. DEFINE Moves(at, next) ==
              /\ sup[g].pc = at
              /\ \A h \in Gens : sup'[h].pc = IF h = g THEN next ELSE sup[h].pc
<1>. DEFINE Outside == {"dial", "drain", "drainEval", "drainRecv", "blame",
                        "blameRecv", "decide", "nilW", "gone"}
<1>2. /\ \A at, next : SupGoto(g, at, next) => Moves(at, next)
      /\ \A at, next, e : SupFail(g, at, next, e) => Moves(at, next)
      /\ \A at, next, c : EvalCh(g, at, next, c) => Moves(at, next)
  BY DEF SupGoto, SupFail, EvalCh, SupT
<1>3. ASSUME NEW at \in Outside, NEW next \in Outside, Moves(at, next),
             UNCHANGED <<wr, rd, call>>
      PROVE  Workers' /\ (UNCHANGED chR => Locked')
  <2>1. Workers'
    BY <1>3 DEF Workers, Running
  <2>. QED  BY <1>1, <1>3, <2>1
<1>4. CASE DialOk(g)
  <2>1. /\ sup[g].pc = "dial"
        /\ \A h \in Gens : sup'[h].pc = IF h = g THEN "run" ELSE sup[h].pc
    BY <1>2, <1>4 DEF DialOk
  <2>2. /\ wr[g].pc = "off" /\ rd[g].pc = "off"
    BY <2>1 DEF Workers, Running
  <2>3. WriterHands'
    BY <1>4, <2>2 DEF DialOk, WrT, WriterHands, Carrying
  <2>4. ReaderHands'
    BY <1>4, <2>2 DEF DialOk, RdT, ReaderHands
  <2>5. Workers'
    <3>1. \A h \in Gens \ {g} : wr'[h] = wr[h] /\ rd'[h] = rd[h]
      BY <1>4 DEF DialOk, WrT, RdT
    <3>. QED  BY <2>1, <3>1 DEF Workers, Running
  <2>. QED  BY <1>1, <1>4, <2>1, <2>3, <2>4, <2>5 DEF DialOk
<1>5. CASE DialFail(g)
  <2>1. Moves("dial", "blame")
    BY <1>2, <1>5 DEF DialFail
  <2>. QED  BY <1>3, <1>5, <2>1 DEF DialFail
<1>6. CASE WriterDone(g)
  <2>1. /\ sup[g].pc = "run"
        /\ \A h \in Gens : sup'[h].pc = IF h = g THEN "joinR" ELSE sup[h].pc
    BY <1>2, <1>6 DEF WriterDone
  <2>2. /\ wr[g].pc = "exit" /\ wr'[g].pc = "off" /\ wr'[g].w = wr[g].w
        /\ \A h \in Gens \ {g} : wr'[h] = wr[h]
    BY <1>6 DEF WriterDone, WrT
  <2>3. WriterHands'
    BY <2>2 DEF WriterHands, Carrying
  <2>4. Workers'
    BY <1>6, <2>1, <2>2 DEF WriterDone, Workers, Running
  <2>. QED  BY <1>1, <1>6, <2>1, <2>3, <2>4 DEF WriterDone
<1>7. CASE ReaderDone(g)
  <2>1. /\ sup[g].pc = "run"
        /\ \A h \in Gens : sup'[h].pc = IF h = g THEN "joinW" ELSE sup[h].pc
    BY <1>2, <1>7 DEF ReaderDone
  <2>2. /\ rd[g].pc = "exit" /\ rd'[g].pc = "off" /\ rd'[g].w = rd[g].w
        /\ \A h \in Gens \ {g} : rd'[h] = rd[h]
    BY <1>7 DEF ReaderDone, RdT
  <2>3. ReaderHands'
    BY <2>2 DEF ReaderHands
  <2>4. Workers'
    BY <1>7, <2>1, <2>2 DEF ReaderDone, Workers, Running
  <2>. QED  BY <1>1, <1>7, <2>1, <2>3, <2>4 DEF ReaderDone
<1>8. CASE Join(g)
  <2>1. /\ sup[g].pc \in {"joinR", "joinW"}
        /\ \A h \in Gens : sup'[h].pc = IF h = g THEN "drain" ELSE sup[h].pc
    BY <1>2, <1>8 DEF Join
  <2>2. /\ wr'[g] = NoWriter /\ rd'[g] = NoReader
        /\ \A h \in Gens \ {g} : wr'[h] = wr[h] /\ rd'[h] = rd[h]
    BY <1>8 DEF Join, WrT, RdT
  <2>3. WriterHands' /\ ReaderHands'
    BY <2>2 DEF WriterHands, ReaderHands, NoWriter, NoReader, Carrying
  <2>4. Workers'
    BY <2>1, <2>2 DEF Workers, Running, NoWriter, NoReader
  <2>5. Flushed'
    BY <1>8, EmptySeq DEF Join, ConnT, Flushed, NoConn
  <2>. QED  BY <1>1, <1>8, <2>1, <2>3, <2>4, <2>5 DEF Join
<1>9. CASE DrainLoop(g)
  <2>1. \/ Moves("drain", "drainEval") \/ Moves("drain", "decide")
        \/ Moves("drain", "blame")
    BY <1>2, <1>9 DEF DrainLoop
  <2>. QED  BY <1>3, <1>9, <2>1 DEF DrainLoop
<1>10. CASE EvalRecv(g)
  <2>1. Moves("drainEval", "drainRecv") \/ Moves("blame", "blameRecv")
    BY <1>2, <1>10 DEF EvalRecv
  <2>. QED  BY <1>3, <1>10, <2>1 DEF EvalRecv
<1>11. CASE DrainRecv(g)
  <2>1. Moves("drainRecv", "drain")
    BY <1>2, <1>11 DEF DrainRecv
  <2>. QED  BY <1>3, <1>11, <2>1 DEF DrainRecv
<1>12. CASE BlameRecv(g)
  <2>1. Moves("blameRecv", "dial")
    BY <1>2, <1>12 DEF BlameRecv
  <2>. QED  BY <1>3, <1>12, <2>1 DEF BlameRecv
<1>13. CASE DecideStop(g)
  <2>1. Moves("decide", "gone")
    BY <1>2, <1>13 DEF DecideStop
  <2>. QED  BY <1>3, <1>13, <2>1 DEF DecideStop
<1>14. CASE DecideNilR(g)
  <2>1. Moves("decide", "nilW")
    BY <1>2, <1>14 DEF DecideNilR
  <2>2. Locked'
    <3>1. \A p \in Clients : call'[p].pc # "makeW"
      BY <1>14 DEF DecideNilR, LockFree
    <3>. QED  BY <3>1 DEF Locked
  <2>. QED  BY <1>3, <1>14, <2>1, <2>2 DEF DecideNilR
<1>15. CASE DecideNilW(g)
  <2>1. Moves("nilW", "dial")
    BY <1>2, <1>15 DEF DecideNilW
  <2>. QED  BY <1>3, <1>15, <2>1 DEF DecideNilW
<1>. QED  BY <1>4, <1>5, <1>6, <1>7, <1>8, <1>9, <1>10, <1>11, <1>12, <1>13,
             <1>14, <1>15 DEF SupStep

LEMMA LocalsStepWriter ==
  ASSUME TypeOK, Locals, NEW g \in Gens, WriterStep(g)
  PROVE  Locals'
<1>. USE TypeParts, LocalsFrame DEF Parts, Locals, fields, queues, notWriter
<1>. DEFINE Steps(at, next, w) ==
              /\ wr[g].pc = at /\ wr'[g].pc = next /\ wr'[g].w = w
              /\ \A h \in Gens \ {g} : wr'[h] = wr[h]
<1>1. ASSUME NEW at, NEW next, NEW w, Steps(at, next, w), at # "off",
             next \in Carrying <=> w # NoCall, UNCHANGED <<sup, rd>>
      PROVE  WriterHands' /\ Workers'
  BY <1>1 DEF WriterHands, Workers
<1>2. /\ wr[g].pc \in Carrying <=> wr[g].w # NoCall
      /\ Len(conn[g].wire) \in Nat
  BY TypeFields, LenProperties DEF WriterHands
<1>3. Unflushed \/ FlushedAll(g) => Flushed'
  <2>1. FlushedAll(g) => Flushed'
    BY <1>2 DEF FlushedAll, Flushed, ConnT
  <2>. QED  BY <2>1 DEF Unflushed
<1>4. ASSUME NEW at, NEW e, WriterExit(g, at, e) PROVE Steps(at, "exit", NoCall)
  BY <1>4 DEF WriterExit, WrT
<1>. USE <1>2 DEF Carrying
<1>5. CASE WriterLoad(g)
  <2>1. Steps("loadR", "loadW", wr[g].w) \/ Steps("loadW", "fast", wr[g].w)
    BY <1>5 DEF WriterLoad, WrT
  <2>. QED  BY <1>1, <1>5, <2>1 DEF WriterLoad
<1>6. CASE WriterTake(g)
  <2>1. Head(qW[wr[g].chW]) \in Calls
    BY <1>6, DropType, TypeFields DEF WriterTake
  <2>2. \/ Steps("fast", "write", Head(qW[wr[g].chW]))
        \/ Steps("slow", "write", Head(qW[wr[g].chW]))
    BY <1>6 DEF WriterTake, WrT
  <2>. QED  BY <1>1, <1>6, <2>1, <2>2 DEF WriterTake
<1>7. CASE WriterBlock(g)
  <2>1. Steps("fast", "slow", wr[g].w) \/ Steps("putFast", "putSlow", wr[g].w)
    BY <1>7 DEF WriterBlock, WGoto, WrT
  <2>. QED  BY <1>1, <1>7, <2>1 DEF WriterBlock
<1>8. CASE WriterFlush(g)
  <2>1. Steps("slow", "fast", wr[g].w) \/ Steps("putSlow", "putFast", wr[g].w)
    BY <1>8 DEF WriterFlush, WrT
  <2>. QED  BY ZenonT(60), <1>1, <1>3, <1>8, <2>1 DEF WriterFlush
<1>9. CASE WriterQuit(g)
  <2>1. Steps("slow", "exit", NoCall)
    BY <1>4, <1>9 DEF WriterQuit
  <2>. QED  BY <1>1, <1>3, <1>9, <2>1 DEF WriterQuit, WriterExit
<1>10. CASE WriterDrop(g)
  <2>1. Steps("write", "exit", NoCall) \/ Steps("putSlow", "exit", NoCall)
    BY <1>4, <1>10 DEF WriterDrop
  <2>. QED  BY <1>1, <1>3, <1>10, <2>1 DEF WriterDrop, WriterExit
<1>11. CASE WriterWrite(g)
  <2>1. Steps("write", "putFast", wr[g].w)
    BY <1>11 DEF WriterWrite, WrT
  <2>2. Flushed'
    <3>1. wr[g].w \in Calls
      BY <1>11, TypeFields DEF WriterWrite, Hands
    <3>2. Len(Append(conn[g].wire, wr[g].w)) = Len(conn[g].wire) + 1
      BY <3>1, TypeFields, AppendProperties
    <3>3. PICK n \in 0 .. Len(conn[g].wire) + 1 :
            conn' = [conn EXCEPT ![g].wire = Append(@, wr[g].w), ![g].flushed = n]
      BY <1>11 DEF WriterWrite
    <3>. QED  BY <3>2, <3>3 DEF Flushed, ConnT
  <2>. QED  BY <1>1, <1>11, <2>1, <2>2 DEF WriterWrite
<1>12. CASE WriterPut(g)
  <2>1. Steps("putFast", "fast", NoCall) \/ Steps("putSlow", "fast", NoCall)
    BY <1>12 DEF WriterPut, WrT
  <2>. QED  BY <1>1, <1>12, <2>1 DEF WriterPut
<1>. QED  BY <1>5, <1>6, <1>7, <1>8, <1>9, <1>10, <1>11, <1>12 DEF WriterStep

LEMMA LocalsStepReader ==
  ASSUME TypeOK, Locals, NEW g \in Gens, ReaderStep(g)
  PROVE  Locals'
<1>. USE TypeParts, LocalsFrame DEF Parts, Locals, fields, queues, notReader
<1>. DEFINE Steps(at, next, w) ==
              /\ rd[g].pc = at /\ rd'[g].pc = next /\ rd'[g].w = w
              /\ \A h \in Gens \ {g} : rd'[h] = rd[h]
<1>1. ASSUME NEW at, NEW next, NEW w, Steps(at, next, w), at # "off",
             next = "read" <=> w # NoCall, UNCHANGED <<sup, wr>>
      PROVE  ReaderHands' /\ Workers'
  BY <1>1 DEF ReaderHands, Workers
<1>2. rd[g].pc = "read" <=> rd[g].w # NoCall
  BY DEF ReaderHands
<1>3. CASE ReaderLoad(g)
  <2>1. Steps("load", "fast", rd[g].w)
    BY <1>3 DEF ReaderLoad, RdT
  <2>. QED  BY <1>1, <1>2, <1>3, <2>1 DEF ReaderLoad
<1>4. CASE ReaderTake(g)
  <2>1. Head(qR[rd[g].chR]) \in Calls
    BY <1>4, DropType, TypeFields DEF ReaderTake
  <2>2. \/ Steps("fast", "read", Head(qR[rd[g].chR]))
        \/ Steps("slow", "read", Head(qR[rd[g].chR]))
    BY <1>4 DEF ReaderTake, RdT
  <2>. QED  BY <1>1, <1>4, <2>1, <2>2 DEF ReaderTake
<1>5. CASE ReaderBlock(g)
  <2>1. Steps("fast", "slow", rd[g].w)
    BY <1>5 DEF ReaderBlock, RdT
  <2>. QED  BY <1>1, <1>2, <1>5, <2>1 DEF ReaderBlock
<1>6. CASE ReaderStop(g)
  <2>1. Steps("slow", "exit", rd[g].w)
    BY <1>6 DEF ReaderStop, RdT
  <2>. QED  BY <1>1, <1>2, <1>6, <2>1 DEF ReaderStop
<1>7. CASE ReaderRead(g)
  <2>1. Steps("read", "fast", NoCall)
    BY <1>7 DEF ReaderRead, RdT
  <2>2. Flushed'
    <3>1. PICK c : conn' = [conn EXCEPT ![g] = c] /\ c.flushed <= Len(c.wire)
      BY <1>7, ReadTakes
    <3>. QED  BY <3>1 DEF Flushed, ConnT
  <2>. QED  BY <1>1, <1>7, <2>1, <2>2 DEF ReaderRead
<1>8. CASE ReaderFail(g)
  <2>1. Steps("read", "exit", NoCall)
    BY <1>8 DEF ReaderFail, ReadError, RdT
  <2>. QED  BY <1>1, <1>8, <2>1 DEF ReaderFail
<1>. QED  BY <1>3, <1>4, <1>5, <1>6, <1>7, <1>8 DEF ReaderStep

\* Both together are inductive.
LEMMA TypeInductive == TypeOK /\ Locals /\ [Next]_vars => TypeOK' /\ Locals'
<1>. SUFFICES ASSUME TypeOK, Locals, [Next]_vars
              PROVE  TypeOK' /\ Locals'
  OBVIOUS
<1>1. ASSUME NEW p \in Clients,
             InitFound(p) \/ InitMakeR(p) \/ InitMakeW(p)
               \/ (p \in Calls /\ CallStep(p)) \/ (p \in Polls /\ PollCount(p))
      PROVE  TypeOK' /\ Locals'
  BY <1>1, TypeStepCaller, LocalsStepCaller
<1>2. ASSUME NEW g \in Gens, SupStep(g) PROVE TypeOK' /\ Locals'
  BY <1>2, TypeStepSup, LocalsStepSup
<1>3. ASSUME NEW g \in Gens, WriterStep(g) PROVE TypeOK' /\ Locals'
  BY <1>3, TypeStepWriter, LocalsStepWriter DEF Locals
<1>4. ASSUME NEW g \in Gens, ReaderStep(g) PROVE TypeOK' /\ Locals'
  BY <1>4, TypeStepReader, LocalsStepReader DEF Locals
<1>5. CASE UNCHANGED vars
  BY <1>5, TypeParts, TypePartsNext, TypeFrame, LocalsFrame
     DEF vars, fields, queues, Parts, Locals
<1>6. CASE Next
  BY <1>1, <1>2, <1>3, <1>4, <1>6 DEF Next, Clients
<1>. QED  BY <1>5, <1>6

\* The variables keep their types, and no channel ever holds more than
\* MaxPendingRequests works, in every behaviour of the pipeline.
THEOREM TypeCorrect == Spec => []TypeOK
<1>1. Init => TypeOK /\ Locals
  BY TypeInit, LocalsInit
<1>. QED  BY <1>1, TypeInductive, PTL DEF Spec

-------------------------------------------------------------------------------
(* The pipeline accounts for every work: WorkAccounted is inductive        *)
(* together with the types and with what each goroutine holds.             *)
(*                                                                         *)
(* Facts about the places a work can be in.                                *)

LEMMA PutContents ==
  ASSUME NEW q, Channels(q), NEW c \in Refs, CanSend(c, q), NEW p \in Calls,
         p \notin Contents(q), NoRepeats(q)
  PROVE  Contents(Put(q, c, p)) = Contents(q) \cup {p} /\ NoRepeats(Put(q, c, p))
<1>1. c \in Gens /\ q[c] \in Seq(Calls)
  BY DEF CanSend, Gens, Refs, Nil, Channels
<1>2. /\ \A g \in Gens \ {c} : Put(q, c, p)[g] = q[g]
      /\ Put(q, c, p)[c] = Append(q[c], p)
  BY <1>1 DEF Put, Channels
<1>3. /\ DOMAIN Append(q[c], p) = DOMAIN q[c] \cup {Len(q[c]) + 1}
      /\ Len(q[c]) + 1 \notin DOMAIN q[c]
      /\ \A i \in DOMAIN q[c] : Append(q[c], p)[i] = q[c][i]
      /\ Append(q[c], p)[Len(q[c]) + 1] = p
  BY <1>1, AppendProperties, LenProperties
<1>4. Contents(Put(q, c, p)) = Contents(q) \cup {p}
  <2>1. ASSUME NEW r \in Calls, NEW g \in Gens
        PROVE  (\E i \in DOMAIN Put(q, c, p)[g] : Put(q, c, p)[g][i] = r)
                 <=> (\E i \in DOMAIN q[g] : q[g][i] = r) \/ (g = c /\ r = p)
    BY <1>1, <1>2, <1>3
  <2>. QED  BY <1>1, <2>1 DEF Contents
<1>5. \A g \in Gens : \A i \in DOMAIN q[g] : q[g][i] # p
  BY DEF Contents
<1>6. ASSUME NEW g \in Gens, NEW h \in Gens,
             NEW i \in DOMAIN Put(q, c, p)[g], NEW j \in DOMAIN Put(q, c, p)[h],
             Put(q, c, p)[g][i] = Put(q, c, p)[h][j]
      PROVE  g = h /\ i = j
  <2>1. CASE g # c /\ h # c
    BY <1>2, <1>6, <2>1 DEF NoRepeats
  <2>2. CASE g = c /\ h # c
    <3>1. j \in DOMAIN q[h] /\ q[h][j] # p
      BY <1>2, <1>5, <2>2
    <3>2. i \in DOMAIN q[c] /\ q[c][i] = q[h][j]
      BY <1>2, <1>3, <1>6, <2>2, <3>1
    <3>. QED  BY <1>1, <2>2, <3>1, <3>2 DEF NoRepeats
  <2>3. CASE g # c /\ h = c
    <3>1. i \in DOMAIN q[g] /\ q[g][i] # p
      BY <1>2, <1>5, <2>3
    <3>2. j \in DOMAIN q[c] /\ q[c][j] = q[g][i]
      BY <1>2, <1>3, <1>6, <2>3, <3>1
    <3>. QED  BY <1>1, <2>3, <3>1, <3>2 DEF NoRepeats
  <2>4. CASE g = c /\ h = c
    <3>1. CASE i \in DOMAIN q[c]
      <4>1. q[c][i] # p /\ Append(q[c], p)[j] = q[c][i]
        BY <1>1, <1>2, <1>3, <1>5, <1>6, <2>4, <3>1
      <4>2. j \in DOMAIN q[c] /\ q[c][j] = q[c][i]
        BY <1>2, <1>3, <1>6, <2>4, <4>1
      <4>. QED  BY <1>1, <2>4, <3>1, <4>2 DEF NoRepeats
    <3>2. CASE i = Len(q[c]) + 1
      <4>1. Append(q[c], p)[j] = p
        BY <1>2, <1>3, <1>6, <2>4, <3>2
      <4>2. j = Len(q[c]) + 1
        BY <1>1, <1>2, <1>3, <1>5, <1>6, <2>4, <4>1
      <4>. QED  BY <2>4, <3>2, <4>2
    <3>. QED  BY <1>2, <1>3, <1>6, <2>4, <3>1, <3>2
  <2>. QED  BY <2>1, <2>2, <2>3, <2>4
<1>7. NoRepeats(Put(q, c, p))
  BY <1>6 DEF NoRepeats
<1>. QED  BY <1>4, <1>7

LEMMA DropContents ==
  ASSUME NEW q, Channels(q), NEW c \in Refs, CanRecv(c, q), NoRepeats(q)
  PROVE  /\ Head(q[c]) \in Contents(q)
         /\ Contents(Drop(q, c)) = Contents(q) \ {Head(q[c])}
         /\ NoRepeats(Drop(q, c))
<1>1. c \in Gens /\ q[c] \in Seq(Calls) /\ q[c] # <<>> /\ Head(q[c]) \in Calls
  BY DropType
<1>2. /\ \A g \in Gens \ {c} : Drop(q, c)[g] = q[g]
      /\ Drop(q, c)[c] = Tail(q[c])
  BY <1>1 DEF Drop, Channels
<1>3. /\ Len(q[c]) \in Nat \ {0} /\ DOMAIN q[c] = 1 .. Len(q[c])
      /\ Head(q[c]) = q[c][1]
      /\ DOMAIN Tail(q[c]) = 1 .. (Len(q[c]) - 1)
      /\ \A i \in 1 .. (Len(q[c]) - 1) : Tail(q[c])[i] = q[c][i + 1]
  <2>1. Len(q[c]) \in Nat /\ DOMAIN q[c] = 1 .. Len(q[c]) /\ Len(q[c]) # 0
    BY <1>1, LenProperties, EmptySeq
  <2>2. /\ Head(q[c]) = q[c][1] /\ Tail(q[c]) \in Seq(Calls)
        /\ Len(Tail(q[c])) = Len(q[c]) - 1
        /\ \A i \in 1 .. Len(Tail(q[c])) : Tail(q[c])[i] = q[c][i + 1]
    BY <1>1, HeadTailProperties
  <2>3. DOMAIN Tail(q[c]) = 1 .. Len(Tail(q[c]))
    BY <2>2, LenProperties
  <2>. QED  BY <2>1, <2>2, <2>3
<1>4. Head(q[c]) \in Contents(q)
  BY <1>1, <1>3 DEF Contents
<1>5. ASSUME NEW g \in Gens, NEW i \in DOMAIN Drop(q, c)[g]
      PROVE  \E j \in DOMAIN q[g] : /\ Drop(q, c)[g][i] = q[g][j]
                                    /\ j = IF g = c THEN i + 1 ELSE i
  <2>1. CASE g # c
    BY <1>2, <2>1
  <2>2. CASE g = c
    <3>1. i \in 1 .. (Len(q[c]) - 1)
      BY <1>2, <1>3, <2>2
    <3>2. i + 1 \in DOMAIN q[c] /\ Tail(q[c])[i] = q[c][i + 1]
      BY <1>3, <3>1
    <3>. QED  BY <1>2, <2>2, <3>2
  <2>. QED  BY <2>1, <2>2
<1>6. ASSUME NEW g \in Gens, NEW j \in DOMAIN q[g], g # c \/ j # 1
      PROVE  \E i \in DOMAIN Drop(q, c)[g] : Drop(q, c)[g][i] = q[g][j]
  <2>1. CASE g # c
    BY <1>2, <2>1
  <2>2. CASE g = c
    <3>1. /\ j - 1 \in DOMAIN Tail(q[c])
          /\ Tail(q[c])[j - 1] = q[c][j]
      BY <1>3, <1>6, <2>2
    <3>. QED  BY <1>2, <2>2, <3>1
  <2>. QED  BY <2>1, <2>2
<1>7. NoRepeats(Drop(q, c))
  <2>1. ASSUME NEW g \in Gens, NEW h \in Gens,
               NEW i \in DOMAIN Drop(q, c)[g], NEW j \in DOMAIN Drop(q, c)[h],
               Drop(q, c)[g][i] = Drop(q, c)[h][j]
        PROVE  g = h /\ i = j
    <3>1. PICK k \in DOMAIN q[g] : /\ Drop(q, c)[g][i] = q[g][k]
                                   /\ k = IF g = c THEN i + 1 ELSE i
      BY <1>5
    <3>2. PICK l \in DOMAIN q[h] : /\ Drop(q, c)[h][j] = q[h][l]
                                   /\ l = IF h = c THEN j + 1 ELSE j
      BY <1>5
    <3>3. q[g][k] = q[h][l]
      BY <2>1, <3>1, <3>2
    <3>4. g = h /\ k = l
      BY <3>3 DEF NoRepeats
    <3>5. CASE g # c
      BY <3>1, <3>2, <3>4, <3>5
    <3>6. CASE g = c
      <4>1. i \in 1 .. (Len(q[c]) - 1) /\ j \in 1 .. (Len(q[c]) - 1)
        BY <1>2, <1>3, <3>4, <3>6
      <4>. QED  BY <1>3, <3>1, <3>2, <3>4, <3>6, <4>1
    <3>. QED  BY <3>5, <3>6
  <2>. QED  BY <2>1 DEF NoRepeats
<1>8. Contents(Drop(q, c)) = Contents(q) \ {Head(q[c])}
  <2>1. ASSUME NEW p \in Contents(Drop(q, c)) PROVE p \in Contents(q) \ {Head(q[c])}
    <3>1. PICK g \in Gens : \E i \in DOMAIN Drop(q, c)[g] : Drop(q, c)[g][i] = p
      BY DEF Contents
    <3>2. PICK i \in DOMAIN Drop(q, c)[g] : Drop(q, c)[g][i] = p
      BY <3>1
    <3>3. PICK j \in DOMAIN q[g] : p = q[g][j] /\ j = IF g = c THEN i + 1 ELSE i
      BY <1>5, <3>2
    <3>4. ASSUME g = c PROVE j # 1
      <4>1. i \in 1 .. (Len(q[c]) - 1)
        BY <1>2, <1>3, <3>4
      <4>. QED  BY <1>3, <3>3, <3>4, <4>1
    <3>5. p # Head(q[c])
      BY <1>1, <1>3, <3>3, <3>4 DEF NoRepeats
    <3>. QED  BY <3>3, <3>5 DEF Contents
  <2>2. ASSUME NEW p \in Contents(q), p # Head(q[c]) PROVE p \in Contents(Drop(q, c))
    <3>1. PICK g \in Gens : \E j \in DOMAIN q[g] : q[g][j] = p
      BY DEF Contents
    <3>2. PICK j \in DOMAIN q[g] : q[g][j] = p
      BY <3>1
    <3>3. g # c \/ j # 1
      BY <1>3, <2>2, <3>2
    <3>. QED  BY <1>6, <3>2, <3>3 DEF Contents
  <2>. QED  BY <2>1, <2>2
<1>. QED  BY <1>4, <1>7, <1>8

\* A goroutine takes a work into its empty hand, or lets it go.
LEMMA HandTakes ==
  ASSUME NEW f1, NEW f2, NEW g \in Gens, NEW p \in Calls,
         \A h \in Gens \ {g} : f2[h].w = f1[h].w,
         f1[g].w = NoCall, f2[g].w = p, p \notin InHands(f1), OneHand(f1)
  PROVE  InHands(f2) = InHands(f1) \cup {p} /\ OneHand(f2)
<1>1. InHands(f2) = InHands(f1) \cup {p}
  BY DEF InHands
<1>2. OneHand(f2)
  BY DEF OneHand, InHands
<1>. QED  BY <1>1, <1>2

LEMMA HandDrops ==
  ASSUME NEW f1, NEW f2, NEW g \in Gens, NEW p \in Calls,
         \A h \in Gens \ {g} : f2[h].w = f1[h].w,
         f1[g].w = p, f2[g].w = NoCall, OneHand(f1)
  PROVE  /\ InHands(f2) = InHands(f1) \ {p} /\ OneHand(f2)
         /\ p \in InHands(f1)
<1>1. InHands(f2) = InHands(f1) \ {p} /\ p \in InHands(f1)
  BY DEF InHands, OneHand
<1>2. OneHand(f2)
  BY DEF OneHand
<1>. QED  BY <1>1, <1>2

LEMMA HandsSame ==
  ASSUME NEW f1, NEW f2, \A h \in Gens : f2[h].w = f1[h].w, OneHand(f1)
  PROVE  InHands(f2) = InHands(f1) /\ OneHand(f2)
<1>1. InHands(f2) = InHands(f1)
  BY DEF InHands
<1>2. OneHand(f2)
  BY DEF OneHand
<1>. QED  BY <1>1, <1>2

\* The places partition w.
Places(a, b, c, d, w) == /\ a \cap b = {} /\ c \cap d = {}
                         /\ (a \cup b) \cap (c \cup d) = {}
                         /\ a \cup b \cup c \cup d = w

-------------------------------------------------------------------------------
(* The parts of WorkAccounted, and what they depend on.                    *)

DoneWaits == \A p \in Calls : work[p].done => call[p].pc = "wait"

Partition == Places(Contents(qW), Contents(qR), InHands(wr), InHands(rd), Waiting)

NoneTwice == NoRepeats(qW) /\ NoRepeats(qR) /\ OneHand(wr) /\ OneHand(rd)

LEMMA AccountedParts == WorkAccounted <=> DoneWaits /\ NoneTwice /\ Partition
  BY DEF WorkAccounted, DoneWaits, NoneTwice, Partition, Places

LEMMA AccountedPartsNext == WorkAccounted' <=> DoneWaits' /\ NoneTwice' /\ Partition'
  BY AccountedParts, PTL

\* A work enters or leaves the places, or moves from one to the next.
LEMMA PartitionMove ==
  ASSUME Partition, NEW p
  PROVE  LET a == Contents(qW)  b == Contents(qR)
             c == InHands(wr)   d == InHands(rd)   w == Waiting
         IN  /\ p \notin w => p \notin a /\ Places(a \cup {p}, b, c, d, w \cup {p})
             /\ p \in a => /\ p \in w /\ p \notin c
                           /\ Places(a \ {p}, b, c, d, w \ {p})
                           /\ Places(a \ {p}, b, c \cup {p}, d, w)
             /\ p \in b => /\ p \in w /\ p \notin d
                           /\ Places(a, b \ {p}, c, d, w \ {p})
                           /\ Places(a, b \ {p}, c, d \cup {p}, w)
             /\ p \in c => /\ p \in w /\ p \notin b
                           /\ Places(a, b, c \ {p}, d, w \ {p})
                           /\ Places(a, b \cup {p}, c \ {p}, d, w)
             /\ p \in d => p \in w /\ Places(a, b, c, d \ {p}, w \ {p})
  BY DEF Partition, Places

LEMMA PlacesFrame ==
  /\ UNCHANGED qW => Contents(qW') = Contents(qW) /\ (NoRepeats(qW) => NoRepeats(qW'))
  /\ UNCHANGED qR => Contents(qR') = Contents(qR) /\ (NoRepeats(qR) => NoRepeats(qR'))
  /\ UNCHANGED wr => InHands(wr') = InHands(wr) /\ (OneHand(wr) => OneHand(wr'))
  /\ UNCHANGED rd => InHands(rd') = InHands(rd) /\ (OneHand(rd) => OneHand(rd'))
  OBVIOUS

\* Nobody begins or stops to wait, and nobody is signalled.
LEMMA WaitingSame ==
  ASSUME DoneWaits,
         \A p \in Calls : /\ call'[p].pc = "wait" <=> call[p].pc = "wait"
                          /\ work'[p].done <=> work[p].done
  PROVE  DoneWaits' /\ Waiting' = Waiting
<1>1. DoneWaits'
  BY DEF DoneWaits
<1>2. Waiting' = Waiting
  BY DEF Waiting
<1>. QED  BY <1>1, <1>2

\* The waiting caller of p is signalled.
LEMMA WaitingSignal ==
  ASSUME DoneWaits, NEW p \in Waiting,
         \A r \in Calls : /\ call'[r].pc = "wait" <=> call[r].pc = "wait"
                          /\ work'[r].done <=> r = p \/ work[r].done
  PROVE  DoneWaits' /\ Waiting' = Waiting \ {p}
<1>1. DoneWaits'
  BY DEF DoneWaits, Waiting
<1>2. Waiting' = Waiting \ {p}
  BY DEF Waiting
<1>. QED  BY <1>1, <1>2

LEMMA SignalDone ==
  ASSUME WorkT, NEW p \in Calls, NEW e, work' = Signal(p, e)
  PROVE  \A r \in Calls : work'[r].done <=> r = p \/ work[r].done
  BY DEF WorkT, Signal

\* A step that changes neither a channel, nor a hand, nor what a caller knows.
LEMMA AccountedSame ==
  ASSUME WorkAccounted, UNCHANGED queues,
         \A g \in Gens : wr'[g].w = wr[g].w /\ rd'[g].w = rd[g].w,
         \A p \in Calls : /\ call'[p].pc = "wait" <=> call[p].pc = "wait"
                          /\ work'[p].done <=> work[p].done
  PROVE  WorkAccounted'
<1>1. DoneWaits' /\ Waiting' = Waiting
  BY WaitingSame, AccountedParts
<1>2. /\ InHands(wr') = InHands(wr) /\ OneHand(wr')
      /\ InHands(rd') = InHands(rd) /\ OneHand(rd')
  BY HandsSame, AccountedParts DEF NoneTwice
<1>. QED  BY <1>1, <1>2, PlacesFrame, AccountedParts, AccountedPartsNext
          DEF queues, NoneTwice, Partition

\* The first work leaves a channel and is signalled.
LEMMA AccountedRecv ==
  ASSUME TypeOK, WorkAccounted, NEW c \in Refs, NEW e, UNCHANGED <<wr, rd>>,
         \/ /\ CanRecv(c, qW) /\ qW' = Drop(qW, c) /\ UNCHANGED qR
            /\ work' = Signal(Head(qW[c]), e)
         \/ /\ CanRecv(c, qR) /\ qR' = Drop(qR, c) /\ UNCHANGED qW
            /\ work' = Signal(Head(qR[c]), e),
         \A p \in Calls : call'[p].pc = "wait" <=> call[p].pc = "wait"
  PROVE  WorkAccounted'
<1>. USE AccountedParts, AccountedPartsNext, PlacesFrame DEF NoneTwice
<1>1. WorkT /\ Channels(qW) /\ Channels(qR)
  BY TypeParts DEF Parts
<1>2. CASE /\ CanRecv(c, qW) /\ qW' = Drop(qW, c) /\ UNCHANGED qR
           /\ work' = Signal(Head(qW[c]), e)
  <2>. DEFINE h == Head(qW[c])
  <2>1. /\ h \in Contents(qW) /\ Contents(qW') = Contents(qW) \ {h}
        /\ NoRepeats(qW')
    BY <1>1, <1>2, DropContents
  <2>2. /\ h \in Waiting
        /\ Places(Contents(qW) \ {h}, Contents(qR), InHands(wr), InHands(rd),
                  Waiting \ {h})
    BY <2>1, PartitionMove
  <2>3. DoneWaits' /\ Waiting' = Waiting \ {h}
    <3>1. \A r \in Calls : work'[r].done <=> r = h \/ work[r].done
      BY <1>1, <1>2, <2>2, SignalDone DEF Waiting
    <3>. HIDE DEF h
    <3>. QED  BY <2>2, <3>1, WaitingSignal
  <2>. QED  BY <1>2, <2>1, <2>2, <2>3 DEF Partition
<1>3. CASE /\ CanRecv(c, qR) /\ qR' = Drop(qR, c) /\ UNCHANGED qW
           /\ work' = Signal(Head(qR[c]), e)
  <2>. DEFINE h == Head(qR[c])
  <2>1. /\ h \in Contents(qR) /\ Contents(qR') = Contents(qR) \ {h}
        /\ NoRepeats(qR')
    BY <1>1, <1>3, DropContents
  <2>2. /\ h \in Waiting
        /\ Places(Contents(qW), Contents(qR) \ {h}, InHands(wr), InHands(rd),
                  Waiting \ {h})
    BY <2>1, PartitionMove
  <2>3. DoneWaits' /\ Waiting' = Waiting \ {h}
    <3>1. \A r \in Calls : work'[r].done <=> r = h \/ work[r].done
      BY <1>1, <1>3, <2>2, SignalDone DEF Waiting
    <3>. HIDE DEF h
    <3>. QED  BY <2>2, <3>1, WaitingSignal
  <2>. QED  BY <1>3, <2>1, <2>2, <2>3 DEF Partition
<1>. QED  BY <1>2, <1>3

LEMMA AccountedStepCaller ==
  ASSUME TypeOK, WorkAccounted, NEW p \in Clients,
         InitFound(p) \/ InitMakeR(p) \/ InitMakeW(p)
           \/ (p \in Calls /\ CallStep(p)) \/ (p \in Polls /\ PollCount(p))
  PROVE  WorkAccounted'
<1>. USE DEF fields, queues, notCall
<1>1. CallT /\ WorkT /\ Channels(qW)
  BY TypeParts DEF Parts
<1>2. ASSUME NEW at, NEW next, Goto(p, at, next) \/ EvalChW(p, at, next)
      PROVE  /\ call[p].pc = at
             /\ \A r \in Clients : call'[r].pc = IF r = p THEN next ELSE call[r].pc
  BY <1>1, <1>2 DEF Goto, EvalChW, CallT
<1>3. ASSUME NEW at, NEW next, Goto(p, at, next) \/ EvalChW(p, at, next),
             at # "wait", next # "wait"
      PROVE  \A r \in Calls : call'[r].pc = "wait" <=> call[r].pc = "wait"
  BY <1>2, <1>3 DEF Clients
<1>4. AfterInit(p) # "wait"
  BY DEF AfterInit
<1>5. CASE InitFound(p)
  BY <1>3, <1>4, <1>5, AccountedSame DEF InitFound
<1>6. CASE InitMakeR(p)
  BY <1>3, <1>6, AccountedSame DEF InitMakeR
<1>7. CASE InitMakeW(p)
  BY <1>3, <1>4, <1>7, AccountedSame DEF InitMakeW
<1>8. CASE p \in Calls /\ DoEval(p)
  BY <1>3, <1>8, AccountedSame DEF DoEval
<1>9. CASE p \in Calls /\ DoSend(p)
  <2>. USE AccountedParts, AccountedPartsNext, PlacesFrame DEF NoneTwice
  <2>1. /\ call[p].pc # "wait"
        /\ \A r \in Calls : call'[r].pc = IF r = p THEN "wait" ELSE call[r].pc
    BY <1>2, <1>9 DEF DoSend, Clients
  <2>2. p \notin Waiting /\ ~work[p].done
    BY <1>9, <2>1 DEF Waiting, DoneWaits
  <2>3. DoneWaits' /\ Waiting' = Waiting \cup {p}
    <3>1. DoneWaits'
      BY <1>9, <2>1 DEF DoSend, DoneWaits
    <3>2. Waiting' = Waiting \cup {p}
      BY <1>9, <2>1, <2>2 DEF DoSend, Waiting
    <3>. QED  BY <3>1, <3>2
  <2>4. /\ p \notin Contents(qW)
        /\ Places(Contents(qW) \cup {p}, Contents(qR), InHands(wr), InHands(rd),
                  Waiting \cup {p})
    BY <2>2, PartitionMove
  <2>5. Contents(qW') = Contents(qW) \cup {p} /\ NoRepeats(qW')
    BY <1>1, <1>9, <2>4, PutContents, TypeFields DEF DoSend
  <2>. QED  BY <1>9, <2>3, <2>4, <2>5 DEF DoSend, Partition
<1>10. CASE p \in Calls /\ DoDefault(p)
  BY <1>3, <1>10, AccountedSame DEF DoDefault
<1>11. CASE p \in Calls /\ DoEvict(p)
  <2>1. \A r \in Calls : call'[r].pc = "wait" <=> call[r].pc = "wait"
    BY <1>3, <1>11 DEF DoEvict
  <2>. QED  BY <1>11, <2>1, AccountedRecv, TypeFields DEF DoEvict
<1>12. CASE p \in Calls /\ DoOverflow(p)
  <2>1. \A r \in Calls : call'[r].pc = "wait" <=> call[r].pc = "wait"
    BY <1>3, <1>12 DEF DoOverflow
  <2>2. \A r \in Calls : work'[r].done <=> work[r].done
    BY <1>1, <1>12 DEF DoOverflow, WorkT
  <2>. QED  BY <1>12, <2>1, <2>2, AccountedSame DEF DoOverflow
<1>13. CASE p \in Calls /\ DoReturn(p)
  <2>. USE AccountedParts, AccountedPartsNext, PlacesFrame DEF NoneTwice
  <2>1. /\ call[p].pc = "wait" /\ work[p].done
        /\ \A r \in Calls : call'[r].pc = IF r = p THEN "ret" ELSE call[r].pc
    BY <1>2, <1>13 DEF DoReturn, Clients
  <2>2. \A r \in Calls : work'[r].done <=> r # p /\ work[r].done
    BY <1>1, <1>13 DEF DoReturn, Returned, WorkT
  <2>3. DoneWaits' /\ Waiting' = Waiting
    <3>1. DoneWaits'
      BY <2>1, <2>2 DEF DoneWaits
    <3>2. Waiting' = Waiting
      BY <2>1, <2>2 DEF Waiting
    <3>. QED  BY <3>1, <3>2
  <2>. QED  BY <1>13, <2>3 DEF DoReturn, Partition
<1>14. CASE p \in Polls /\ PollCount(p)
  BY <1>3, <1>14, AccountedSame DEF PollCount
<1>. QED  BY <1>5, <1>6, <1>7, <1>8, <1>9, <1>10, <1>11, <1>12, <1>13, <1>14
          DEF CallStep

LEMMA AccountedStepSup ==
  ASSUME TypeOK, Locals, WorkAccounted, NEW g \in Gens, SupStep(g)
  PROVE  WorkAccounted'
<1>. USE DEF fields, queues, notSup
<1>1. WrT /\ RdT
  BY TypeParts DEF Parts
<1>2. /\ wr[g].pc \notin Carrying => wr[g].w = NoCall
      /\ rd[g].pc # "read" => rd[g].w = NoCall
  BY DEF Locals, WriterHands, ReaderHands
<1>3. CASE DialOk(g)
  <2>1. \A h \in Gens : wr'[h].w = wr[h].w /\ rd'[h].w = rd[h].w
    BY <1>1, <1>3 DEF DialOk, WrT, RdT
  <2>. QED  BY <1>3, <2>1, AccountedSame DEF DialOk
<1>4. CASE DialFail(g)
  BY <1>4, AccountedSame DEF DialFail
<1>5. CASE WriterDone(g)
  <2>1. \A h \in Gens : wr'[h].w = wr[h].w /\ rd'[h].w = rd[h].w
    BY <1>1, <1>5 DEF WriterDone, WrT
  <2>. QED  BY <1>5, <2>1, AccountedSame DEF WriterDone
<1>6. CASE ReaderDone(g)
  <2>1. \A h \in Gens : wr'[h].w = wr[h].w /\ rd'[h].w = rd[h].w
    BY <1>1, <1>6 DEF ReaderDone, RdT
  <2>. QED  BY <1>6, <2>1, AccountedSame DEF ReaderDone
<1>7. CASE Join(g)
  <2>1. wr[g].pc \in {"off", "exit"} /\ rd[g].pc \in {"off", "exit"}
    BY <1>7 DEF Join, SupGoto, Locals, Workers
  <2>2. wr[g].w = NoCall /\ rd[g].w = NoCall
    BY <1>2, <2>1 DEF Carrying
  <2>3. \A h \in Gens : wr'[h].w = wr[h].w /\ rd'[h].w = rd[h].w
    BY <1>1, <1>7, <2>2 DEF Join, WrT, RdT, NoWriter, NoReader
  <2>. QED  BY <1>7, <2>3, AccountedSame DEF Join
<1>8. CASE DrainLoop(g)
  BY <1>8, AccountedSame DEF DrainLoop
<1>9. CASE EvalRecv(g)
  BY <1>9, AccountedSame DEF EvalRecv
<1>10. CASE DrainRecv(g)
  BY <1>10, AccountedRecv, TypeFields DEF DrainRecv
<1>11. CASE BlameRecv(g)
  BY <1>11, AccountedRecv, TypeFields DEF BlameRecv
<1>12. CASE DecideStop(g)
  BY <1>12, AccountedSame DEF DecideStop
<1>13. CASE DecideNilR(g)
  BY <1>13, AccountedSame DEF DecideNilR
<1>14. CASE DecideNilW(g)
  BY <1>14, AccountedSame DEF DecideNilW
<1>. QED  BY <1>3, <1>4, <1>5, <1>6, <1>7, <1>8, <1>9, <1>10, <1>11, <1>12,
             <1>13, <1>14 DEF SupStep

LEMMA AccountedStepWriter ==
  ASSUME TypeOK, Locals, WorkAccounted, NEW g \in Gens, WriterStep(g)
  PROVE  WorkAccounted'
<1>. USE DEF fields, queues, notWriter
<1>1. WrT /\ WorkT /\ Channels(qW) /\ Channels(qR)
  BY TypeParts DEF Parts
<1>2. /\ wr[g].pc \in Carrying => wr[g].w \in Calls
      /\ wr[g].pc \notin Carrying => wr[g].w = NoCall
  BY TypeFields DEF Locals, WriterHands, Hands
<1>3. DoneWaits /\ NoneTwice /\ Partition
  BY AccountedParts
<1>4. ASSUME \A h \in Gens : wr'[h].w = wr[h].w, UNCHANGED <<queues, work, rd, call>>
      PROVE  WorkAccounted'
  BY <1>4, AccountedSame
<1>5. CASE WriterLoad(g)
  <2>1. \A h \in Gens : wr'[h].w = wr[h].w
    BY <1>1, <1>5 DEF WriterLoad, WrT
  <2>. QED  BY <1>4, <1>5, <2>1 DEF WriterLoad
<1>6. CASE WriterTake(g)
  <2>. DEFINE p == Head(qW[wr[g].chW])
  <2>1. /\ p \in Contents(qW) /\ Contents(qW') = Contents(qW) \ {p}
        /\ NoRepeats(qW') /\ p \in Calls
    BY <1>1, <1>3, <1>6, DropContents, DropType, TypeFields
       DEF WriterTake, NoneTwice
  <2>2. /\ p \notin InHands(wr)
        /\ Places(Contents(qW) \ {p}, Contents(qR), InHands(wr) \cup {p},
                  InHands(rd), Waiting)
    BY <1>3, <2>1, PartitionMove
  <2>3. InHands(wr') = InHands(wr) \cup {p} /\ OneHand(wr')
    <3>1. /\ wr[g].w = NoCall /\ wr'[g].w = p
          /\ \A h \in Gens \ {g} : wr'[h].w = wr[h].w
      BY <1>1, <1>2, <1>6 DEF WriterTake, WrT, Carrying
    <3>. HIDE DEF p
    <3>. QED  BY <1>3, <2>1, <2>2, <3>1, HandTakes DEF NoneTwice
  <2>4. DoneWaits' /\ Waiting' = Waiting
    BY <1>3, <1>6, WaitingSame DEF WriterTake
  <2>5. Partition'
    BY <1>6, <2>1, <2>2, <2>3, <2>4 DEF WriterTake, Partition
  <2>. QED  BY <1>3, <1>6, <2>1, <2>3, <2>4, <2>5, AccountedPartsNext
            DEF WriterTake, NoneTwice
<1>7. CASE WriterBlock(g)
  <2>1. \A h \in Gens : wr'[h].w = wr[h].w
    BY <1>1, <1>7 DEF WriterBlock, WGoto, WrT
  <2>. QED  BY <1>4, <1>7, <2>1 DEF WriterBlock
<1>8. CASE WriterFlush(g)
  <2>1. \A h \in Gens : wr'[h].w = wr[h].w
    BY <1>1, <1>8 DEF WriterFlush, WrT
  <2>. QED  BY <1>4, <1>8, <2>1 DEF WriterFlush
<1>9. CASE WriterQuit(g)
  <2>1. \A h \in Gens : wr'[h].w = wr[h].w
    BY <1>1, <1>2, <1>9 DEF WriterQuit, WriterExit, WrT, Carrying
  <2>. QED  BY <1>4, <1>9, <2>1 DEF WriterQuit, WriterExit
<1>10. CASE WriterDrop(g)
  <2>. DEFINE p == wr[g].w
  <2>1. /\ p \in Calls /\ wr'[g].w = NoCall
        /\ \A h \in Gens \ {g} : wr'[h].w = wr[h].w
    BY <1>1, <1>2, <1>10 DEF WriterDrop, WriterExit, WrT, Carrying
  <2>2. p \in InHands(wr) /\ InHands(wr') = InHands(wr) \ {p} /\ OneHand(wr')
    BY <1>3, <2>1, HandDrops DEF NoneTwice
  <2>3. /\ p \in Waiting
        /\ Places(Contents(qW), Contents(qR), InHands(wr) \ {p}, InHands(rd),
                  Waiting \ {p})
    BY <1>3, <2>2, PartitionMove
  <2>4. DoneWaits' /\ Waiting' = Waiting \ {p}
    <3>1. \A r \in Calls : work'[r].done <=> r = p \/ work[r].done
      BY <1>1, <1>10, <2>1, SignalDone DEF WriterDrop
    <3>2. UNCHANGED call
      BY <1>10 DEF WriterDrop, WriterExit
    <3>. HIDE DEF p
    <3>. QED  BY <1>3, <2>3, <3>1, <3>2, WaitingSignal
  <2>5. UNCHANGED <<queues, rd>>
    BY <1>10 DEF WriterDrop, WriterExit
  <2>. HIDE DEF p
  <2>6. Partition'
    BY <2>2, <2>3, <2>4, <2>5 DEF Partition
  <2>. QED  BY <1>3, <2>2, <2>4, <2>5, <2>6, AccountedPartsNext DEF NoneTwice
<1>11. CASE WriterWrite(g)
  <2>1. \A h \in Gens : wr'[h].w = wr[h].w
    BY <1>1, <1>11 DEF WriterWrite, WrT
  <2>. QED  BY <1>4, <1>11, <2>1 DEF WriterWrite
<1>12. CASE WriterPut(g)
  <2>. DEFINE p == wr[g].w
  <2>1. /\ p \in Calls /\ wr'[g].w = NoCall
        /\ \A h \in Gens \ {g} : wr'[h].w = wr[h].w
    BY <1>1, <1>2, <1>12 DEF WriterPut, WrT, Carrying
  <2>2. p \in InHands(wr) /\ InHands(wr') = InHands(wr) \ {p} /\ OneHand(wr')
    BY <1>3, <2>1, HandDrops DEF NoneTwice
  <2>3. /\ p \notin Contents(qR)
        /\ Places(Contents(qW), Contents(qR) \cup {p}, InHands(wr) \ {p},
                  InHands(rd), Waiting)
    BY <1>3, <2>2, PartitionMove
  <2>4. Contents(qR') = Contents(qR) \cup {p} /\ NoRepeats(qR')
    BY <1>1, <1>3, <1>12, <2>1, <2>3, PutContents, TypeFields
       DEF WriterPut, NoneTwice
  <2>5. DoneWaits' /\ Waiting' = Waiting
    BY <1>3, <1>12, WaitingSame DEF WriterPut
  <2>6. UNCHANGED <<qW, rd>>
    BY <1>12 DEF WriterPut
  <2>. HIDE DEF p
  <2>7. Partition'
    BY <2>2, <2>3, <2>4, <2>5, <2>6 DEF Partition
  <2>. QED  BY <1>3, <2>2, <2>4, <2>5, <2>6, <2>7, AccountedPartsNext
            DEF NoneTwice
<1>. QED  BY <1>5, <1>6, <1>7, <1>8, <1>9, <1>10, <1>11, <1>12 DEF WriterStep

LEMMA AccountedStepReader ==
  ASSUME TypeOK, Locals, WorkAccounted, NEW g \in Gens, ReaderStep(g)
  PROVE  WorkAccounted'
<1>. USE DEF fields, queues, notReader
<1>1. RdT /\ WorkT /\ Channels(qR)
  BY TypeParts DEF Parts
<1>2. /\ rd[g].pc = "read" => rd[g].w \in Calls
      /\ rd[g].pc # "read" => rd[g].w = NoCall
  BY TypeFields DEF Locals, ReaderHands, Hands
<1>3. DoneWaits /\ NoneTwice /\ Partition
  BY AccountedParts
<1>4. ASSUME \A h \in Gens : rd'[h].w = rd[h].w, UNCHANGED <<queues, work, wr, call>>
      PROVE  WorkAccounted'
  BY <1>4, AccountedSame
<1>5. CASE ReaderLoad(g)
  <2>1. \A h \in Gens : rd'[h].w = rd[h].w
    BY <1>1, <1>5 DEF ReaderLoad, RdT
  <2>. QED  BY <1>4, <1>5, <2>1 DEF ReaderLoad
<1>6. CASE ReaderTake(g)
  <2>. DEFINE p == Head(qR[rd[g].chR])
  <2>1. /\ p \in Contents(qR) /\ Contents(qR') = Contents(qR) \ {p}
        /\ NoRepeats(qR') /\ p \in Calls
    BY <1>1, <1>3, <1>6, DropContents, DropType, TypeFields
       DEF ReaderTake, NoneTwice
  <2>2. /\ p \notin InHands(rd)
        /\ Places(Contents(qW), Contents(qR) \ {p}, InHands(wr),
                  InHands(rd) \cup {p}, Waiting)
    BY <1>3, <2>1, PartitionMove
  <2>3. InHands(rd') = InHands(rd) \cup {p} /\ OneHand(rd')
    <3>1. /\ rd[g].w = NoCall /\ rd'[g].w = p
          /\ \A h \in Gens \ {g} : rd'[h].w = rd[h].w
      BY <1>1, <1>2, <1>6 DEF ReaderTake, RdT
    <3>. HIDE DEF p
    <3>. QED  BY <1>3, <2>1, <2>2, <3>1, HandTakes DEF NoneTwice
  <2>4. DoneWaits' /\ Waiting' = Waiting
    BY <1>3, <1>6, WaitingSame DEF ReaderTake
  <2>5. Partition'
    BY <1>6, <2>1, <2>2, <2>3, <2>4 DEF ReaderTake, Partition
  <2>. QED  BY <1>3, <1>6, <2>1, <2>3, <2>4, <2>5, AccountedPartsNext
            DEF ReaderTake, NoneTwice
<1>7. CASE ReaderBlock(g)
  <2>1. \A h \in Gens : rd'[h].w = rd[h].w
    BY <1>1, <1>7 DEF ReaderBlock, RdT
  <2>. QED  BY <1>4, <1>7, <2>1 DEF ReaderBlock
<1>8. CASE ReaderStop(g)
  <2>1. \A h \in Gens : rd'[h].w = rd[h].w
    BY <1>1, <1>8 DEF ReaderStop, RdT
  <2>. QED  BY <1>4, <1>8, <2>1 DEF ReaderStop
<1>9. CASE ReaderRead(g) \/ ReaderFail(g)
  <2>. DEFINE p == rd[g].w
  <2>1. /\ p \in Calls /\ rd'[g].w = NoCall
        /\ \A h \in Gens \ {g} : rd'[h].w = rd[h].w
    <3>1. p \in Calls
      BY <1>1, <1>2, <1>9 DEF ReaderRead, ReaderFail
    <3>2. \/ rd' = [rd EXCEPT ![g].pc = "fast", ![g].w = NoCall]
          \/ rd' = [rd EXCEPT ![g].pc = ReadError, ![g].w = NoCall, ![g].err = "read"]
      BY <1>9 DEF ReaderRead, ReaderFail
    <3>. QED  BY <1>1, <3>1, <3>2 DEF RdT
  <2>2. p \in InHands(rd) /\ InHands(rd') = InHands(rd) \ {p} /\ OneHand(rd')
    BY <1>3, <2>1, HandDrops DEF NoneTwice
  <2>3. /\ p \in Waiting
        /\ Places(Contents(qW), Contents(qR), InHands(wr), InHands(rd) \ {p},
                  Waiting \ {p})
    BY <1>3, <2>2, PartitionMove
  <2>4. DoneWaits' /\ Waiting' = Waiting \ {p}
    <3>1. \A r \in Calls : work'[r].done <=> r = p \/ work[r].done
      <4>1. CASE ReaderRead(g)
        BY <1>1, <2>1, <4>1 DEF ReaderRead, WorkT
      <4>2. CASE ReaderFail(g)
        BY <1>1, <2>1, <4>2, SignalDone DEF ReaderFail
      <4>. QED  BY <1>9, <4>1, <4>2
    <3>2. UNCHANGED call
      BY <1>9 DEF ReaderRead, ReaderFail
    <3>. HIDE DEF p
    <3>. QED  BY <1>3, <2>3, <3>1, <3>2, WaitingSignal
  <2>5. UNCHANGED <<queues, wr>>
    BY <1>9 DEF ReaderRead, ReaderFail
  <2>. HIDE DEF p
  <2>6. Partition'
    BY <2>2, <2>3, <2>4, <2>5 DEF Partition
  <2>. QED  BY <1>3, <2>2, <2>4, <2>5, <2>6, AccountedPartsNext DEF NoneTwice
<1>. QED  BY <1>5, <1>6, <1>7, <1>8, <1>9 DEF ReaderStep

LEMMA AccountedInit == Init => WorkAccounted
<1>. SUFFICES ASSUME Init PROVE WorkAccounted
  OBVIOUS
<1>1. DoneWaits /\ Waiting = {}
  BY DEF Init, DoneWaits, Waiting, Clients
<1>2. /\ Contents(qW) = {} /\ NoRepeats(qW) /\ Contents(qR) = {} /\ NoRepeats(qR)
  BY EmptySeq DEF Init, Contents, NoRepeats
<1>3. InHands(wr) = {} /\ OneHand(wr) /\ InHands(rd) = {} /\ OneHand(rd)
  BY DEF Init, InHands, OneHand, NoWriter, NoReader
<1>. QED  BY <1>1, <1>2, <1>3, AccountedParts DEF NoneTwice, Partition, Places

LEMMA AccountedStep ==
  TypeOK /\ Locals /\ WorkAccounted /\ [Next]_vars => WorkAccounted'
<1>. SUFFICES ASSUME TypeOK, Locals, WorkAccounted, [Next]_vars
              PROVE  WorkAccounted'
  OBVIOUS
<1>1. ASSUME NEW p \in Clients,
             InitFound(p) \/ InitMakeR(p) \/ InitMakeW(p)
               \/ (p \in Calls /\ CallStep(p)) \/ (p \in Polls /\ PollCount(p))
      PROVE  WorkAccounted'
  BY <1>1, AccountedStepCaller
<1>2. ASSUME NEW g \in Gens, SupStep(g) \/ WriterStep(g) \/ ReaderStep(g)
      PROVE  WorkAccounted'
  BY <1>2, AccountedStepSup, AccountedStepWriter, AccountedStepReader
<1>3. CASE UNCHANGED vars
  BY <1>3, AccountedSame DEF vars
<1>4. CASE Next
  BY <1>1, <1>2, <1>4 DEF Next, Clients
<1>. QED  BY <1>3, <1>4

\* No work is lost and none is signalled twice, whatever fails and however the
\* goroutines and the callers interleave: from its send into chW to its signal
\* a work is in exactly one channel or hand, in every behaviour.
THEOREM WorkAccountedAlways == Spec => []WorkAccounted
<1>1. Init => TypeOK /\ Locals /\ WorkAccounted
  BY TypeInit, LocalsInit, AccountedInit
<1>. QED  BY <1>1, TypeInductive, AccountedStep, PTL DEF Spec

-------------------------------------------------------------------------------
(***************************************************************************)
(* Responses reach the calls they answer, for any faults but the idle      *)
(* timer, and the pipeline then implements PipelineService.  Without the   *)
(* idle timer a worker always fails, so that the channels of the first     *)
(* generation stay.                                                        *)
(***************************************************************************)

(* The inductive invariant.                                                *)

WriterRuns == WriterPCs \ {"off", "exit"}
ReaderLives == ReaderPCs \ {"off", "exit"}

\* The channels are allocated once, and no supervisor gets to reset or to end.
OneGeneration ==
  /\ chR \in {Nil, 1} /\ chW \in {Nil, 1} /\ (chW = 1 => chR = 1)
  /\ \A g \in Gens : /\ sup[g].pc # "none" => g = 1 /\ chW = 1
                     /\ sup[g].pc \notin {"decide", "nilW", "gone"}

\* Every goroutine works on those channels.
Loaded ==
  \A g \in Gens : /\ wr[g].pc \in WriterRuns \ {"loadR"} => wr[g].chR = 1
                  /\ rd[g].pc \in {"fast", "slow", "read"} => rd[g].chR = 1
                  /\ sup[g].pc = "drainRecv" => sup[g].ch = 1

\* The goroutine that returns first, and so worker, returns an error.
FirstError ==
  \A g \in Gens :
    /\ sup[g].pc = "run" => /\ wr[g].pc = "exit" => wr[g].err # "nil"
                            /\ rd[g].pc = "exit" => rd[g].err # "nil"
    /\ sup[g].pc \notin {"none", "dial", "run"} => sup[g].err # "nil"

\* A new connection finds chR drained and nothing written.
CleanStart ==
  \A g \in Gens : /\ sup[g].pc \in {"none", "dial", "blame", "blameRecv"} => qR[g] = <<>>
                  /\ sup[g].pc \notin Running => conn[g].wire = <<>>

\* What the reader waits for begins the wire, and is all of it while the writer
\* runs, until the connection is shifted.
Ordered(g) ==
  rd[g].pc \in ReaderLives /\ ~conn[g].shifted =>
    \E rest \in Seq(Calls) : /\ conn[g].wire = Awaited(g) \o rest
                             /\ wr[g].pc \in WriterRuns => rest = <<>>
InOrder == \A g \in Gens : Ordered(g)

\* A call has no result before it is signalled or returns, and then an error or
\* a response, but not both: its own, unless it came after a shift.
Results ==
  \A p \in Calls :
    IF work[p].done \/ call[p].pc = "ret"
    THEN \/ /\ work[p].err = "nil" /\ work[p].resp \in Calls
            /\ work[p].stray \/ work[p].resp = p
         \/ work[p].err # "nil" /\ work[p].resp = NoCall
    ELSE work[p].err = "nil" /\ work[p].resp = NoCall

Matching == OneGeneration /\ Loaded /\ FirstError /\ CleanStart /\ InOrder /\ Results

-------------------------------------------------------------------------------
(* What the reader waits for.                                              *)

Chain(p, q, r) == Hand(p) \o q \o Hand(r)

InPut(g) == IF Putting(g) THEN wr[g].w ELSE NoCall

LEMMA AwaitedChain ==
  \A g : /\ Awaited(g) = Chain(rd[g].w, qR[g], InPut(g))
         /\ Awaited(g)' = Chain(rd'[g].w, qR'[g], InPut(g)')
  BY DEF Awaited, Chain, InPut, Hand, Putting

LEMMA HandType ==
  /\ \A p \in Hands : Hand(p) \in Seq(Calls)
  /\ \A p \in Calls : Hand(p) = <<p>> /\ <<p>> \in Seq(Calls) /\ p \in Hands
  /\ NoCall \in Hands /\ Hand(NoCall) = <<>> /\ <<>> \in Seq(Calls)
<1>1. ASSUME NEW p \in Calls PROVE <<p>> \in Seq(Calls) /\ p # NoCall
  OBVIOUS
<1>2. <<>> \in Seq(Calls)
  BY EmptySeq
<1>. QED  BY <1>1, <1>2 DEF Hand, Hands

LEMMA ChainType ==
  ASSUME NEW p \in Hands, NEW q \in Seq(Calls), NEW r \in Hands
  PROVE  Chain(p, q, r) \in Seq(Calls) /\ Hand(p) \o q \in Seq(Calls)
  BY HandType, ConcatProperties DEF Chain

LEMMA HeadTailConcat ==
  ASSUME NEW q \in Seq(Calls), q # <<>>
  PROVE  /\ q = <<Head(q)>> \o Tail(q)
         /\ Head(q) \in Calls /\ Tail(q) \in Seq(Calls)
<1>1. /\ Head(q) \in Calls /\ Head(q) = q[1] /\ Tail(q) \in Seq(Calls)
      /\ Len(q) \in Nat \ {0}
  BY HeadTailProperties, LenProperties, EmptySeq
<1>2. /\ SubSeq(q, 1, Len(q)) = q
      /\ SubSeq(q, 1, Len(q)) = <<q[1]>> \o SubSeq(q, 1 + 1, Len(q))
  BY <1>1, SubSeqFull, SubSeqRecursiveFirst
<1>3. Tail(q) = SubSeq(q, 1 + 1, Len(q))
  BY TailIsSubSeq
<1>. QED  BY <1>1, <1>2, <1>3

LEMMA ConcatHeadTail ==
  ASSUME NEW p \in Calls, NEW q \in Seq(Calls)
  PROVE  <<p>> \o q # <<>> /\ Head(<<p>> \o q) = p /\ Tail(<<p>> \o q) = q
<1>. DEFINE s == <<p>> \o q
<1>1. <<p>> \in Seq(Calls) /\ Len(<<p>>) = 1 /\ <<p>>[1] = p
  OBVIOUS
<1>2. s \in Seq(Calls) /\ Len(s) = 1 + Len(q) /\ Len(q) \in Nat
  BY <1>1, ConcatProperties, LenProperties
<1>3. s[1] = p
  BY <1>1, <1>2, ConcatProperties
<1>. HIDE DEF s
<1>4. s # <<>> /\ Head(s) = s[1]
  BY <1>2, EmptySeq
<1>5. s = <<p>> \o Tail(s) /\ Tail(s) \in Seq(Calls)
  BY <1>2, <1>3, <1>4, HeadTailConcat
<1>6. Tail(s) = q
  BY <1>1, <1>5, ConcatSimplifications DEF s
<1>. QED  BY <1>3, <1>4, <1>6 DEF s

\* The first work of chR passes into the hand of the reader.
LEMMA ChainTake ==
  ASSUME NEW q \in Seq(Calls), q # <<>>, NEW r \in Hands
  PROVE  Chain(Head(q), Tail(q), r) = Chain(NoCall, q, r)
<1>1. Hand(Head(q)) \o Tail(q) = q
  BY HeadTailConcat, HandType
<1>2. Hand(NoCall) \o q = q
  BY HandType, ConcatEmptySeq
<1>. QED  BY <1>1, <1>2 DEF Chain

\* A work passes from the hand of the writer to the end of chR.
LEMMA ChainPut ==
  ASSUME NEW p \in Hands, NEW q \in Seq(Calls), NEW r \in Calls
  PROVE  Chain(p, Append(q, r), NoCall) = Chain(p, q, r)
<1>. DEFINE h == Hand(p)
<1>1. h \in Seq(Calls) /\ <<r>> \in Seq(Calls) /\ Hand(r) = <<r>> /\ Hand(NoCall) = <<>>
  BY HandType
<1>2. Append(q, r) = q \o <<r>> /\ Append(q, r) \in Seq(Calls)
  BY AppendIsConcat, AppendProperties
<1>3. (h \o Append(q, r)) \o <<>> = h \o Append(q, r)
  BY <1>1, <1>2, ConcatProperties, ConcatEmptySeq
<1>4. (h \o q) \o <<r>> = h \o (q \o <<r>>)
  BY <1>1, ConcatAssociative
<1>. QED  BY <1>1, <1>2, <1>3, <1>4 DEF Chain

\* A work is written while everything on the wire is awaited.
LEMMA ChainWrite ==
  ASSUME NEW p \in Hands, NEW q \in Seq(Calls), NEW r \in Calls
  PROVE  Append(Chain(p, q, NoCall), r) = Chain(p, q, r)
<1>. DEFINE a == Hand(p) \o q
<1>1. /\ a \in Seq(Calls) /\ Hand(r) = <<r>> /\ Hand(NoCall) = <<>>
  BY HandType, ChainType
<1>2. a \o <<>> = a
  BY <1>1, ConcatEmptySeq
<1>3. Append(a, r) = a \o <<r>>
  BY <1>1, AppendIsConcat
<1>. QED  BY <1>1, <1>2, <1>3 DEF Chain

\* A wire that begins with the works of c.
Wire(c, v) == c \o v

\* The first response is read by the first work that waits, and both go.
LEMMA ChainRead ==
  ASSUME NEW p \in Calls, NEW q \in Seq(Calls), NEW r \in Hands, NEW v \in Seq(Calls)
  PROVE  /\ Head(Wire(Chain(p, q, r), v)) = p
         /\ Tail(Wire(Chain(p, q, r), v)) = Wire(Chain(NoCall, q, r), v)
<1>. DEFINE h == Hand(r)
<1>1. /\ h \in Seq(Calls) /\ <<p>> \in Seq(Calls) /\ Hand(p) = <<p>>
      /\ Hand(NoCall) = <<>>
  BY HandType
<1>2. <<>> \o q = q /\ q \o h \in Seq(Calls) /\ (q \o h) \o v \in Seq(Calls)
  BY <1>1, ConcatEmptySeq, ConcatProperties
<1>3. (<<p>> \o q) \o h = <<p>> \o (q \o h)
  BY <1>1, ConcatAssociative
<1>4. (<<p>> \o (q \o h)) \o v = <<p>> \o ((q \o h) \o v)
  BY <1>1, <1>2, ConcatAssociative
<1>5. Wire(Chain(p, q, r), v) = <<p>> \o ((q \o h) \o v)
  BY <1>1, <1>3, <1>4 DEF Chain, Wire
<1>6. Wire(Chain(NoCall, q, r), v) = (q \o h) \o v
  BY <1>1, <1>2 DEF Chain, Wire
<1>. QED  BY <1>2, <1>5, <1>6, ConcatHeadTail

\* The writer gives a work up: it stays on the wire, awaited no more.
LEMMA ChainDrop ==
  ASSUME NEW p \in Hands, NEW q \in Seq(Calls), NEW r \in Hands, NEW v \in Seq(Calls)
  PROVE  /\ Wire(Chain(p, q, r), v) = Wire(Chain(p, q, NoCall), Wire(Hand(r), v))
         /\ Wire(Hand(r), v) \in Seq(Calls)
<1>. DEFINE a == Hand(p) \o q
            h == Hand(r)
<1>1. a \in Seq(Calls) /\ h \in Seq(Calls) /\ Hand(NoCall) = <<>>
  BY HandType, ChainType
<1>2. (a \o h) \o v = a \o (h \o v)
  <2>. HIDE DEF a, h
  <2>. QED  BY <1>1, ConcatAssociative
<1>3. h \o v \in Seq(Calls)
  <2>. HIDE DEF a, h
  <2>. QED  BY <1>1, ConcatProperties
<1>4. a \o <<>> = a
  <2>. HIDE DEF a, h
  <2>. QED  BY <1>1, ConcatEmptySeq
<1>. QED  BY <1>1, <1>2, <1>3, <1>4 DEF Chain, Wire

-------------------------------------------------------------------------------
(* The parts of the invariant, and what they depend on.                    *)

LEMMA MatchingInit == Init => Matching
<1>. SUFFICES ASSUME Init PROVE Matching
  OBVIOUS
<1>1. OneGeneration /\ Loaded /\ FirstError
  BY DEF Init, OneGeneration, Loaded, FirstError, WriterRuns, NoWriter, NoReader
<1>2. CleanStart /\ InOrder
  BY DEF Init, CleanStart, InOrder, Ordered, ReaderLives, NoReader, NoConn
<1>3. Results
  BY DEF Init, Results, Clients
<1>. QED  BY <1>1, <1>2, <1>3 DEF Matching

LEMMA MatchingFrame ==
  /\ OneGeneration /\ UNCHANGED <<fields, sup>> => OneGeneration'
  /\ Loaded /\ UNCHANGED <<sup, wr, rd>> => Loaded'
  /\ FirstError /\ UNCHANGED <<sup, wr, rd>> => FirstError'
  /\ CleanStart /\ UNCHANGED <<sup, qR, conn>> => CleanStart'
  /\ InOrder /\ UNCHANGED <<wr, rd, qR, conn>> => InOrder'
  /\ Results /\ UNCHANGED <<call, work>> => Results'
<1>1. OneGeneration /\ UNCHANGED <<fields, sup>> => OneGeneration'
  BY DEF OneGeneration, fields
<1>2. Loaded /\ UNCHANGED <<sup, wr, rd>> => Loaded'
  BY DEF Loaded
<1>3. FirstError /\ UNCHANGED <<sup, wr, rd>> => FirstError'
  BY DEF FirstError
<1>4. CleanStart /\ UNCHANGED <<sup, qR, conn>> => CleanStart'
  BY DEF CleanStart
<1>5. InOrder /\ UNCHANGED <<wr, rd, qR, conn>> => InOrder'
  BY DEF InOrder, Ordered, Awaited, Putting
<1>6. Results /\ UNCHANGED <<call, work>> => Results'
  BY DEF Results
<1>. QED  BY <1>1, <1>2, <1>3, <1>4, <1>5, <1>6

\* Generations other than the first have no goroutines.
LEMMA FirstOnly ==
  ASSUME Locals, OneGeneration
  PROVE  /\ 1 \in Gens /\ Nil # 1
         /\ \A h \in Gens \ {1} : /\ sup[h].pc = "none" /\ wr[h].pc = "off"
                                  /\ rd[h].pc = "off"
         /\ \A g \in Gens :
              sup[g].pc # "none" \/ wr[g].pc # "off" \/ rd[g].pc # "off"
                => g = 1 /\ chR = 1 /\ chW = 1
         /\ \A g \in Gens : wr[g].pc # "off" \/ rd[g].pc # "off" => sup[g].pc \in Running
<1>1. \A g \in Gens : wr[g].pc # "off" \/ rd[g].pc # "off" => sup[g].pc \in Running
  BY DEF Locals, Workers
<1>2. \A g \in Gens : sup[g].pc # "none" => g = 1 /\ chR = 1 /\ chW = 1
  BY DEF OneGeneration
<1>. QED  BY <1>1, <1>2 DEF Gens, Nil, Running

\* Only the order on the first generation can change.
LEMMA OrderedFirst ==
  ASSUME Locals, OneGeneration, Ordered(1)', \A h \in Gens \ {1} : rd'[h].pc = rd[h].pc
  PROVE  InOrder'
<1>1. ASSUME NEW h \in Gens \ {1} PROVE Ordered(h)'
  BY FirstOnly DEF Ordered, ReaderLives
<1>. QED  BY <1>1 DEF InOrder

LEMMA OrderedSame ==
  ASSUME NEW g, Ordered(g),
         rd'[g].pc \in ReaderLives => rd[g].pc \in ReaderLives,
         wr'[g].pc \in WriterRuns => wr[g].pc \in WriterRuns,
         rd'[g].w = rd[g].w, qR'[g] = qR[g], InPut(g)' = InPut(g),
         conn'[g].wire = conn[g].wire, conn'[g].shifted = conn[g].shifted
  PROVE  Ordered(g)'
<1>1. Awaited(g)' = Awaited(g)
  BY DEF Awaited, InPut, Hand, Putting
<1>. QED  BY <1>1 DEF Ordered

\* A call that waits is signalled with an error.
LEMMA ResultsSignal ==
  ASSUME WorkT, Results, NEW p \in Waiting, NEW e, e # "nil", work' = Signal(p, e),
         \A r \in Calls : call'[r].pc = "ret" <=> call[r].pc = "ret"
  PROVE  Results'
<1>1. p \in Calls /\ ~work[p].done /\ call[p].pc # "ret"
  BY DEF Waiting
<1>2. /\ work'[p].done /\ work'[p].err = e /\ work'[p].resp = work[p].resp
      /\ \A r \in Calls \ {p} : work'[r] = work[r]
  BY <1>1 DEF Signal, WorkT
<1>. QED  BY <1>1, <1>2 DEF Results

LEMMA ResultsSame ==
  ASSUME Results, UNCHANGED work,
         \A r \in Calls : call'[r].pc = "ret" <=> call[r].pc = "ret"
  PROVE  Results'
  BY DEF Results

\* The places hold works of calls that wait.
LEMMA PlacesWait ==
  ASSUME TypeOK, WorkAccounted
  PROVE  /\ \A c \in Refs : /\ CanRecv(c, qW) => Head(qW[c]) \in Waiting
                            /\ CanRecv(c, qR) => Head(qR[c]) \in Waiting
         /\ \A g \in Gens : /\ wr[g].w # NoCall => wr[g].w \in Waiting
                            /\ rd[g].w # NoCall => rd[g].w \in Waiting
<1>1. Channels(qW) /\ Channels(qR) /\ NoneTwice /\ Partition
  BY TypeParts, AccountedParts DEF Parts
<1>2. /\ Contents(qW) \subseteq Waiting /\ Contents(qR) \subseteq Waiting
      /\ InHands(wr) \subseteq Waiting /\ InHands(rd) \subseteq Waiting
  BY <1>1 DEF Partition, Places
<1>3. \A c \in Refs : /\ CanRecv(c, qW) => Head(qW[c]) \in Contents(qW)
                      /\ CanRecv(c, qR) => Head(qR[c]) \in Contents(qR)
  BY <1>1, DropContents DEF NoneTwice
<1>4. \A g \in Gens : /\ wr[g].w # NoCall => wr[g].w \in InHands(wr)
                      /\ rd[g].w # NoCall => rd[g].w \in InHands(rd)
  BY TypeFields DEF InHands, Hands
<1>. QED  BY <1>2, <1>3, <1>4

-------------------------------------------------------------------------------
LEMMA MatchingStepCaller ==
  ASSUME TypeOK, Locals, WorkAccounted, Matching, NEW p \in Clients,
         InitFound(p) \/ InitMakeR(p) \/ InitMakeW(p)
           \/ (p \in Calls /\ CallStep(p)) \/ (p \in Polls /\ PollCount(p))
  PROVE  Matching'
<1>. USE MatchingFrame DEF fields, queues, notCall
<1>1. /\ OneGeneration /\ Loaded /\ FirstError /\ CleanStart /\ InOrder /\ Results
      /\ CallT /\ WorkT
  BY TypeParts DEF Matching, Parts
<1>2. ASSUME NEW at, NEW next, Goto(p, at, next) \/ EvalChW(p, at, next)
      PROVE  /\ call[p].pc = at
             /\ \A r \in Clients : call'[r].pc = IF r = p THEN next ELSE call[r].pc
  BY <1>1, <1>2 DEF Goto, EvalChW, CallT
<1>3. ASSUME NEW at, NEW next, Goto(p, at, next) \/ EvalChW(p, at, next),
             at # "ret", next # "ret"
      PROVE  \A r \in Calls : call'[r].pc = "ret" <=> call[r].pc = "ret"
  BY <1>2, <1>3 DEF Clients
<1>4. ASSUME UNCHANGED <<fields, qR, sup, wr, rd, conn>>, Results'
      PROVE  Matching'
  BY <1>1, <1>4 DEF Matching
<1>5. CASE InitFound(p)
  <2>1. Results'
    BY <1>1, <1>3, <1>5, ResultsSame DEF InitFound, AfterInit
  <2>. QED  BY <1>4, <1>5, <2>1 DEF InitFound
<1>6. CASE InitMakeR(p)
  <2>1. Results'
    BY <1>1, <1>3, <1>6, ResultsSame DEF InitMakeR
  <2>2. OneGeneration'
    <3>1. chR = Nil /\ \A g \in Gens : sup[g].pc = "none"
      BY <1>1, <1>6 DEF InitMakeR, OneGeneration, Nil
    <3>2. chR' = 1
      <4>1. PICK g \in Gens : (\A h \in 1 .. (g - 1) : sup[h].pc # "none") /\ chR' = g
        BY <1>6 DEF InitMakeR
      <4>2. g # 1 => 1 \in 1 .. (g - 1) /\ 1 \in Gens
        BY DEF Gens
      <4>. QED  BY <3>1, <4>1, <4>2
    <3>. QED  BY <1>1, <1>6, <3>1, <3>2 DEF InitMakeR, OneGeneration
  <2>. QED  BY <1>1, <1>6, <2>1, <2>2 DEF InitMakeR, Matching
<1>7. CASE InitMakeW(p)
  <2>1. Results'
    BY <1>1, <1>3, <1>7, ResultsSame DEF InitMakeW, AfterInit
  <2>2. chR = 1 /\ sup[1].pc = "none" /\ 1 \in Gens
    BY <1>1, <1>7 DEF InitMakeW, Goto, Locals, Locked, OneGeneration, Nil, Gens
  <2>3. chW' = 1 /\ UNCHANGED chR
    BY <1>1, <1>7, <2>2 DEF InitMakeW, OneGeneration, Nil
  <2>4. /\ sup'[1].pc = "dial"
        /\ \A h \in Gens \ {1} : sup'[h] = sup[h]
    BY <1>7, <2>2, TypeParts DEF InitMakeW, Parts, SupT
  <2>5. OneGeneration'
    BY <1>1, <2>2, <2>3, <2>4 DEF OneGeneration
  <2>6. Loaded' /\ FirstError' /\ CleanStart'
    BY <1>1, <1>7, <2>2, <2>4 DEF InitMakeW, Loaded, FirstError, CleanStart, Running
  <2>. QED  BY <1>1, <1>7, <2>1, <2>5, <2>6 DEF InitMakeW, Matching
<1>8. CASE p \in Calls /\ DoEval(p)
  <2>1. Results'
    BY <1>1, <1>3, <1>8, ResultsSame DEF DoEval
  <2>. QED  BY <1>4, <1>8, <2>1 DEF DoEval
<1>9. CASE p \in Calls /\ DoSend(p)
  <2>1. Results'
    BY <1>1, <1>3, <1>9, ResultsSame DEF DoSend
  <2>. QED  BY <1>4, <1>9, <2>1 DEF DoSend
<1>10. CASE p \in Calls /\ DoDefault(p)
  <2>1. Results'
    BY <1>1, <1>3, <1>10, ResultsSame DEF DoDefault
  <2>. QED  BY <1>4, <1>10, <2>1 DEF DoDefault
<1>11. CASE p \in Calls /\ DoEvict(p)
  <2>1. Results'
    <3>1. \A r \in Calls : call'[r].pc = "ret" <=> call[r].pc = "ret"
      BY <1>3, <1>11 DEF DoEvict
    <3>2. Head(qW[call[p].ch]) \in Waiting
      BY <1>11, PlacesWait, TypeFields DEF DoEvict
    <3>. QED  BY <1>1, <1>11, <3>1, <3>2, ResultsSignal DEF DoEvict
  <2>. QED  BY <1>4, <1>11, <2>1 DEF DoEvict
<1>12. CASE p \in Calls /\ DoOverflow(p)
  <2>1. Results'
    <3>1. /\ call[p].pc = "resend"
          /\ \A r \in Calls : call'[r].pc = IF r = p THEN "ret" ELSE call[r].pc
      BY <1>2, <1>12 DEF DoOverflow, Clients
    <3>2. ~work[p].done
      BY <1>12, <3>1 DEF WorkAccounted
    <3>3. /\ work'[p].err = "overflow" /\ work'[p].resp = work[p].resp
          /\ \A r \in Calls \ {p} : work'[r] = work[r]
      BY <1>1, <1>12 DEF DoOverflow, WorkT
    <3>. QED  BY <1>1, <1>12, <3>1, <3>2, <3>3 DEF Results
  <2>. QED  BY <1>4, <1>12, <2>1 DEF DoOverflow
<1>13. CASE p \in Calls /\ DoReturn(p)
  <2>1. Results'
    <3>1. /\ call[p].pc = "wait" /\ work[p].done
          /\ \A r \in Calls : call'[r].pc = IF r = p THEN "ret" ELSE call[r].pc
      BY <1>2, <1>13 DEF DoReturn, Clients
    <3>2. /\ work'[p].err = work[p].err /\ work'[p].resp = work[p].resp
          /\ work'[p].stray = work[p].stray
          /\ \A r \in Calls \ {p} : work'[r] = work[r]
      BY <1>1, <1>13 DEF DoReturn, Returned, WorkT
    <3>. QED  BY <1>1, <1>13, <3>1, <3>2 DEF Results
  <2>. QED  BY <1>4, <1>13, <2>1 DEF DoReturn
<1>14. CASE p \in Polls /\ PollCount(p)
  <2>1. Results'
    <3>1. \A r \in Calls : call'[r].pc = call[r].pc
      BY <1>2, <1>14 DEF PollCount, Clients
    <3>. QED  BY <1>1, <1>14, <3>1, ResultsSame DEF PollCount
  <2>. QED  BY <1>4, <1>14, <2>1 DEF PollCount
<1>. QED  BY <1>5, <1>6, <1>7, <1>8, <1>9, <1>10, <1>11, <1>12, <1>13, <1>14
          DEF CallStep

LEMMA MatchingStepSup ==
  ASSUME TypeOK, Locals, WorkAccounted, Matching, NEW g \in Gens, SupStep(g)
  PROVE  Matching'
<1>. USE MatchingFrame DEF fields, queues, notSup
<1>1. /\ OneGeneration /\ Loaded /\ FirstError /\ CleanStart /\ InOrder /\ Results
      /\ SupT /\ WrT /\ RdT /\ ConnT /\ WorkT /\ Channels(qR)
  BY TypeParts DEF Matching, Parts
<1>2. /\ g = 1 /\ sup[g].pc # "none" /\ chR = 1 /\ chW = 1
      /\ sup[g].pc \notin {"decide", "nilW", "gone"}
  <2>1. sup[g].pc # "none"
    BY DEF SupStep, DialOk, DialFail, WriterDone, ReaderDone, Join, DrainLoop, EvalRecv,
           EvalCh, DrainRecv, BlameRecv, DecideStop, DecideNilR, DecideNilW, SupGoto,
           SupFail
  <2>. QED  BY <1>1, <2>1 DEF OneGeneration
<1>3. ASSUME NEW at, NEW next, SupGoto(g, at, next)
      PROVE  /\ sup[g].pc = at /\ sup'[g].pc = next
             /\ sup'[g].err = sup[g].err /\ sup'[g].ch = sup[g].ch
             /\ \A h \in Gens \ {g} : sup'[h] = sup[h]
  BY <1>1, <1>3 DEF SupGoto, SupT
<1>4. ASSUME NEW at, NEW next, NEW e, SupFail(g, at, next, e)
      PROVE  /\ sup[g].pc = at /\ sup'[g].pc = next
             /\ sup'[g].err = e /\ sup'[g].ch = sup[g].ch
             /\ \A h \in Gens \ {g} : sup'[h] = sup[h]
  BY <1>1, <1>4 DEF SupFail, SupT
<1>5. ASSUME NEW at, NEW next, NEW c, EvalCh(g, at, next, c)
      PROVE  /\ sup[g].pc = at /\ sup'[g].pc = next
             /\ sup'[g].err = sup[g].err /\ sup'[g].ch = c
             /\ \A h \in Gens \ {g} : sup'[h] = sup[h]
  BY <1>1, <1>5 DEF EvalCh, SupT
<1>6. ASSUME sup'[g].pc \notin {"none", "decide", "nilW", "gone"},
             \A h \in Gens \ {g} : sup'[h] = sup[h], UNCHANGED fields
      PROVE  OneGeneration'
  BY <1>1, <1>2, <1>6 DEF OneGeneration
<1>7. CASE DialOk(g)
  <2>. USE <1>3, <1>7 DEF DialOk
  <2>1. /\ wr'[g].pc = "loadR" /\ rd'[g].pc = "load" /\ rd'[g].w = rd[g].w
        /\ \A h \in Gens \ {g} : wr'[h] = wr[h] /\ rd'[h] = rd[h]
    BY <1>1 DEF WrT, RdT
  <2>2. OneGeneration'
    BY <1>6
  <2>3. Loaded' /\ FirstError'
    BY <1>1, <2>1 DEF Loaded, FirstError, WriterRuns
  <2>4. CleanStart'
    BY <1>1 DEF CleanStart, Running
  <2>5. Ordered(1)'
    <3>1. rd[g].pc = "off" /\ rd[g].w = NoCall
      BY DEF Locals, Workers, Running, ReaderHands
    <3>2. qR[g] = <<>> /\ conn[g].wire = <<>>
      BY <1>1 DEF CleanStart, Running
    <3>3. Awaited(g)' = (<<>> \o <<>>) \o <<>>
      BY <2>1, <3>1, <3>2 DEF Awaited, Hand, Putting
    <3>4. <<>> \in Seq(Calls) /\ <<>> \o <<>> = <<>>
      BY EmptySeq, ConcatEmptySeq
    <3>5. conn'[g].wire = Awaited(g)' \o <<>>
      BY <3>2, <3>3, <3>4
    <3>. QED  BY <1>2, <3>4, <3>5 DEF Ordered
  <2>. QED  BY <1>1, <1>2, <2>1, <2>2, <2>3, <2>4, <2>5, OrderedFirst DEF Matching
<1>8. CASE DialFail(g)
  <2>. USE <1>4, <1>8 DEF DialFail
  <2>1. OneGeneration'
    BY <1>6
  <2>2. Loaded' /\ FirstError' /\ CleanStart'
    BY <1>1 DEF Loaded, FirstError, CleanStart, Running
  <2>. QED  BY <1>1, <2>1, <2>2 DEF Matching
<1>9. CASE WriterDone(g)
  <2>. USE <1>4, <1>9 DEF WriterDone
  <2>1. /\ wr[g].pc = "exit" /\ wr'[g].pc = "off" /\ wr'[g].w = wr[g].w
        /\ \A h \in Gens \ {g} : wr'[h] = wr[h]
    BY <1>1 DEF WrT
  <2>2. OneGeneration'
    BY <1>6
  <2>3. Loaded' /\ FirstError' /\ CleanStart'
    BY <1>1, <2>1 DEF Loaded, FirstError, CleanStart, Running, WriterRuns
  <2>4. Ordered(1)'
    BY <1>1, <1>2, <2>1, OrderedSame DEF InOrder, WriterRuns, InPut, Putting
  <2>. QED  BY <1>1, <2>2, <2>3, <2>4, OrderedFirst DEF Matching
<1>10. CASE ReaderDone(g)
  <2>. USE <1>4, <1>10 DEF ReaderDone
  <2>1. /\ rd[g].pc = "exit" /\ rd'[g].pc = "off"
        /\ \A h \in Gens \ {g} : rd'[h] = rd[h]
    BY <1>1 DEF RdT
  <2>2. OneGeneration'
    BY <1>6
  <2>3. Loaded' /\ FirstError' /\ CleanStart'
    BY <1>1, <2>1 DEF Loaded, FirstError, CleanStart, Running
  <2>4. Ordered(1)'
    BY <1>2, <2>1 DEF Ordered, ReaderLives
  <2>. QED  BY <1>1, <1>2, <2>1, <2>2, <2>3, <2>4, OrderedFirst DEF Matching
<1>11. CASE Join(g)
  <2>1. /\ wr'[g].pc = "off" /\ rd'[g].pc = "off" /\ conn'[g].wire = <<>>
        /\ \A h \in Gens \ {g} : wr'[h] = wr[h] /\ rd'[h] = rd[h] /\ conn'[h] = conn[h]
    BY <1>1, <1>11 DEF Join, WrT, RdT, ConnT, NoWriter, NoReader, NoConn
  <2>2. /\ sup[g].pc \in {"joinR", "joinW"} /\ sup'[g].pc = "drain"
        /\ sup'[g].err = sup[g].err
        /\ \A h \in Gens \ {g} : sup'[h] = sup[h]
    BY <1>3, <1>11 DEF Join
  <2>3. OneGeneration'
    BY <1>6, <1>11, <2>2 DEF Join
  <2>4. Loaded' /\ FirstError'
    BY <1>1, <2>1, <2>2 DEF Loaded, FirstError, WriterRuns
  <2>5. CleanStart'
    BY <1>1, <1>11, <2>1, <2>2 DEF CleanStart, Join
  <2>6. Ordered(1)'
    BY <1>2, <2>1 DEF Ordered, ReaderLives
  <2>. QED  BY <1>1, <1>2, <1>11, <2>1, <2>3, <2>4, <2>5, <2>6, OrderedFirst
            DEF Matching, Join
<1>12. CASE DrainLoop(g)
  <2>1. sup[g].err # "nil"
    BY <1>1, <1>3, <1>12 DEF DrainLoop, FirstError
  <2>2. /\ sup[g].pc = "drain" /\ sup'[g].err = sup[g].err
        /\ sup'[g].pc \in {"drainEval", "blame"}
        /\ sup'[g].pc = "blame" => Drained
        /\ \A h \in Gens \ {g} : sup'[h] = sup[h]
    BY <1>3, <1>12, <2>1 DEF DrainLoop
  <2>3. Drained => qR[g] = <<>>
    BY <1>1, <1>2, EmptySeq DEF Drained, Queued, Channels, Nil
  <2>4. OneGeneration'
    BY <1>6, <1>12, <2>2 DEF DrainLoop
  <2>5. Loaded' /\ FirstError' /\ CleanStart'
    BY <1>1, <1>12, <2>1, <2>2, <2>3 DEF DrainLoop, Loaded, FirstError, CleanStart, Running
  <2>. QED  BY <1>1, <1>12, <2>4, <2>5 DEF Matching, DrainLoop
<1>13. CASE EvalRecv(g)
  <2>1. /\ sup'[g].err = sup[g].err
        /\ \/ sup[g].pc = "drainEval" /\ sup'[g].pc = "drainRecv" /\ sup'[g].ch = 1
           \/ sup[g].pc = "blame" /\ sup'[g].pc = "blameRecv"
        /\ \A h \in Gens \ {g} : sup'[h] = sup[h]
    BY <1>2, <1>5, <1>13 DEF EvalRecv
  <2>2. OneGeneration'
    BY <1>6, <1>13, <2>1 DEF EvalRecv
  <2>3. Loaded' /\ FirstError' /\ CleanStart'
    BY <1>1, <1>13, <2>1 DEF EvalRecv, Loaded, FirstError, CleanStart, Running
  <2>. QED  BY <1>1, <1>13, <2>2, <2>3 DEF Matching, EvalRecv
<1>14. CASE DrainRecv(g)
  <2>1. /\ sup[g].pc = "drainRecv" /\ sup'[g].pc = "drain" /\ sup'[g].err = sup[g].err
        /\ \A h \in Gens \ {g} : sup'[h] = sup[h]
    BY <1>3, <1>14 DEF DrainRecv
  <2>2. sup[g].ch = 1 /\ rd[g].pc = "off"
    BY <1>1, <2>1 DEF Loaded, Locals, Workers, Running
  <2>3. \A h \in Gens \ {g} : qR'[h] = qR[h]
    BY <1>1, <1>2, <1>14, <2>2 DEF DrainRecv, Drop, Channels
  <2>4. OneGeneration'
    BY <1>6, <1>14, <2>1 DEF DrainRecv
  <2>5. Loaded' /\ FirstError' /\ CleanStart'
    BY <1>1, <1>14, <2>1, <2>3 DEF DrainRecv, Loaded, FirstError, CleanStart, Running
  <2>6. InOrder'
    <3>1. Ordered(1)'
      BY <1>2, <1>14, <2>2 DEF DrainRecv, Ordered, ReaderLives
    <3>. QED  BY <1>1, <1>14, <3>1, OrderedFirst DEF DrainRecv
  <2>7. Results'
    BY <1>1, <1>14, PlacesWait, TypeFields, ResultsSignal DEF DrainRecv
  <2>. QED  BY <2>4, <2>5, <2>6, <2>7 DEF Matching
<1>15. CASE BlameRecv(g)
  <2>1. /\ sup[g].pc = "blameRecv" /\ sup'[g].pc = "dial" /\ sup'[g].err = sup[g].err
        /\ \A h \in Gens \ {g} : sup'[h] = sup[h]
    BY <1>3, <1>15 DEF BlameRecv
  <2>2. sup[g].err # "nil"
    BY <1>1, <2>1 DEF FirstError
  <2>3. OneGeneration'
    BY <1>6, <1>15, <2>1 DEF BlameRecv
  <2>4. Loaded' /\ FirstError' /\ CleanStart'
    BY <1>1, <1>15, <2>1 DEF BlameRecv, Loaded, FirstError, CleanStart, Running
  <2>5. Results'
    BY <1>1, <1>15, <2>2, PlacesWait, TypeFields, ResultsSignal DEF BlameRecv
  <2>. QED  BY <1>1, <1>15, <2>3, <2>4, <2>5 DEF Matching, BlameRecv
<1>16. ~DecideStop(g) /\ ~DecideNilR(g) /\ ~DecideNilW(g)
  BY <1>2, <1>3 DEF DecideStop, DecideNilR, DecideNilW
<1>. QED  BY <1>7, <1>8, <1>9, <1>10, <1>11, <1>12, <1>13, <1>14, <1>15, <1>16
          DEF SupStep

LEMMA MatchingStepWriter ==
  ASSUME "idle" \notin Faults, TypeOK, Locals, WorkAccounted, Matching, NEW g \in Gens,
         WriterStep(g)
  PROVE  Matching'
<1>. USE MatchingFrame DEF fields, queues, notWriter
<1>1. /\ OneGeneration /\ Loaded /\ FirstError /\ CleanStart /\ InOrder /\ Results
      /\ WrT /\ ConnT /\ WorkT /\ Channels(qR)
  BY TypeParts DEF Matching, Parts
<1>2. wr[g].pc \in WriterRuns
  BY DEF WriterStep, WriterLoad, WriterTake, WriterBlock, WGoto, WriterFlush, WriterQuit,
         WriterDrop, WriterExit, WriterWrite, WriterPut, WriterRuns, WriterPCs
<1>3. g = 1 /\ chR = 1 /\ chW = 1 /\ sup[g].pc \in Running /\ 1 \in Gens
  BY <1>1, <1>2, FirstOnly DEF WriterRuns
<1>4. /\ wr[g].pc \in Carrying => wr[g].w \in Calls /\ wr[g].w \in Waiting
      /\ wr[g].pc \notin Carrying => wr[g].w = NoCall
  BY TypeFields, PlacesWait DEF Locals, WriterHands, Hands
\* The parts that depend on where the writer is.
<1>5. ASSUME UNCHANGED <<sup, rd>>, \A h \in Gens \ {g} : wr'[h] = wr[h],
             wr'[g].pc \in WriterRuns \ {"loadR"} => wr'[g].chR = 1,
             wr'[g].pc = "exit" /\ sup[g].pc = "run" => wr'[g].err # "nil"
      PROVE  Loaded' /\ FirstError'
  BY <1>1, <1>5 DEF Loaded, FirstError
<1>6. ASSUME UNCHANGED <<sup, rd>>, \A h \in Gens \ {g} : conn'[h] = conn[h] /\ qR'[h] = qR[h]
      PROVE  CleanStart'
  BY <1>1, <1>3, <1>6 DEF CleanStart, Running
<1>7. ASSUME UNCHANGED <<rd, qR>>, InPut(g)' = InPut(g), conn'[g].wire = conn[g].wire,
             conn'[g].shifted = conn[g].shifted
      PROVE  InOrder'
  BY <1>1, <1>2, <1>3, <1>7, OrderedSame, OrderedFirst DEF InOrder
<1>8. ASSUME Unflushed \/ FlushedAll(g)
      PROVE  /\ \A h \in Gens \ {g} : conn'[h] = conn[h]
             /\ conn'[g].wire = conn[g].wire /\ conn'[g].shifted = conn[g].shifted
  BY <1>1, <1>8 DEF Unflushed, FlushedAll, ConnT, ConnRec
<1>9. ASSUME NEW at, NEW e, WriterExit(g, at, e)
      PROVE  /\ wr[g].pc = at /\ wr'[g].pc = "exit" /\ wr'[g].w = NoCall /\ wr'[g].err = e
             /\ \A h \in Gens \ {g} : wr'[h] = wr[h]
             /\ UNCHANGED <<notWriter, queues>>
             /\ \A h \in Gens \ {g} : conn'[h] = conn[h]
             /\ conn'[g].wire = conn[g].wire /\ conn'[g].shifted = conn[g].shifted
  BY <1>1, <1>8, <1>9 DEF WriterExit, WrT
<1>10. CASE WriterLoad(g)
  <2>1. /\ wr'[g].w = wr[g].w /\ wr'[g].chR = 1
        /\ wr[g].pc \in {"loadR", "loadW"} /\ wr'[g].pc \in {"loadW", "fast"}
        /\ \A h \in Gens \ {g} : wr'[h] = wr[h]
    BY <1>1, <1>3, <1>10 DEF WriterLoad, WrT, Loaded, WriterRuns, WriterPCs
  <2>2. InPut(g)' = InPut(g)
    BY <2>1 DEF InPut, Putting
  <2>. QED  BY <1>1, <1>5, <1>7, <1>10, <2>1, <2>2 DEF WriterLoad, Matching
<1>11. CASE WriterTake(g)
  <2>1. /\ wr'[g].chR = wr[g].chR /\ wr[g].pc \in {"fast", "slow"} /\ wr'[g].pc = "write"
        /\ \A h \in Gens \ {g} : wr'[h] = wr[h]
    BY <1>1, <1>11 DEF WriterTake, WrT
  <2>2. InPut(g)' = InPut(g) /\ wr'[g].chR = 1
    BY <1>1, <2>1 DEF InPut, Putting, Loaded, WriterRuns, WriterPCs
  <2>. QED  BY <1>1, <1>5, <1>7, <1>11, <2>1, <2>2 DEF WriterTake, Matching
<1>12. CASE WriterBlock(g)
  <2>1. /\ wr'[g].chR = wr[g].chR /\ wr'[g].w = wr[g].w
        /\ \/ wr[g].pc = "fast" /\ wr'[g].pc = "slow"
           \/ wr[g].pc = "putFast" /\ wr'[g].pc = "putSlow"
        /\ \A h \in Gens \ {g} : wr'[h] = wr[h]
    BY <1>1, <1>12 DEF WriterBlock, WGoto, WrT
  <2>2. InPut(g)' = InPut(g) /\ wr'[g].chR = 1
    BY <1>1, <2>1 DEF InPut, Putting, Loaded, WriterRuns, WriterPCs
  <2>. QED  BY <1>1, <1>5, <1>7, <1>12, <2>1, <2>2 DEF WriterBlock, Matching
<1>13. CASE WriterFlush(g)
  <2>1. /\ wr'[g].chR = wr[g].chR /\ wr'[g].w = wr[g].w
        /\ \/ wr[g].pc = "slow" /\ wr'[g].pc = "fast"
           \/ wr[g].pc = "putSlow" /\ wr'[g].pc = "putFast"
        /\ \A h \in Gens \ {g} : wr'[h] = wr[h]
    BY <1>1, <1>13 DEF WriterFlush, WrT
  <2>2. InPut(g)' = InPut(g) /\ wr'[g].chR = 1
    BY <1>1, <2>1 DEF InPut, Putting, Loaded, WriterRuns, WriterPCs
  <2>3. /\ \A h \in Gens \ {g} : conn'[h] = conn[h]
        /\ conn'[g].wire = conn[g].wire /\ conn'[g].shifted = conn[g].shifted
    BY <1>8, <1>13 DEF WriterFlush
  <2>. QED  BY <1>1, <1>5, <1>6, <1>7, <1>13, <2>1, <2>2, <2>3 DEF WriterFlush, Matching
<1>14. CASE WriterQuit(g)
  <2>1. PICK e : WriterExit(g, "slow", e) /\ (e = "nil" => StopW(g))
    BY <1>14 DEF WriterQuit
  <2>2. InPut(g)' = InPut(g)
    BY <1>9, <2>1 DEF InPut, Putting
  <2>3. StopW(g) => sup[g].pc # "run"
    BY DEF StopW
  <2>4. Loaded' /\ FirstError'
    BY <1>5, <1>9, <2>1, <2>3 DEF WriterRuns
  <2>5. CleanStart' /\ InOrder'
    BY <1>6, <1>7, <1>9, <2>1, <2>2
  <2>. QED  BY <1>1, <1>9, <1>14, <2>1, <2>4, <2>5 DEF WriterQuit, Matching
<1>15. CASE WriterDrop(g)
  <2>1. PICK at \in {"write", "putSlow"}, e \in Errors, s \in Errors :
          /\ WriterExit(g, at, e) /\ (e = "nil" => StopW(g))
          /\ work' = Signal(wr[g].w, s) /\ s # "nil"
    BY <1>15 DEF WriterDrop, Errors
  <2>2. StopW(g) => sup[g].pc # "run"
    BY DEF StopW
  <2>3. Loaded' /\ FirstError'
    BY <1>5, <1>9, <2>1, <2>2 DEF WriterRuns
  <2>4. CleanStart'
    BY <1>6, <1>9, <2>1
  <2>5. Results'
    BY <1>1, <1>4, <1>9, <2>1, ResultsSignal DEF Carrying
  <2>6. InOrder'
    <3>1. CASE at = "write"
      <4>1. InPut(g)' = InPut(g)
        BY <1>9, <2>1, <3>1 DEF InPut, Putting
      <4>. QED  BY <1>7, <1>9, <2>1, <4>1
    <3>2. CASE at = "putSlow"
      <4>1. /\ InPut(g) = wr[g].w /\ InPut(g)' = NoCall
            /\ wr'[g].pc \notin WriterRuns /\ UNCHANGED <<rd, qR>>
            /\ conn'[g].wire = conn[g].wire /\ conn'[g].shifted = conn[g].shifted
        BY <1>9, <2>1, <3>2 DEF InPut, Putting, WriterRuns
      <4>2. rd[g].w \in Hands /\ qR[g] \in Seq(Calls) /\ wr[g].w \in Hands
        BY <1>1, TypeFields DEF Channels
      <4>3. ASSUME rd[g].pc \in ReaderLives, ~conn[g].shifted
            PROVE  \E u \in Seq(Calls) : conn'[g].wire = Awaited(g)' \o u
        <5>1. PICK v \in Seq(Calls) : conn[g].wire = Wire(Awaited(g), v)
          BY <1>1, <4>3 DEF InOrder, Ordered, Wire
        <5>. DEFINE u == Wire(Hand(wr[g].w), v)
        <5>2. /\ Wire(Chain(rd[g].w, qR[g], wr[g].w), v)
                   = Wire(Chain(rd[g].w, qR[g], NoCall), u)
              /\ u \in Seq(Calls)
          BY <4>2, ChainDrop
        <5>3. Awaited(g) = Chain(rd[g].w, qR[g], wr[g].w)
          BY <4>1, AwaitedChain
        <5>4. Awaited(g)' = Chain(rd[g].w, qR[g], NoCall)
          <6>1. Awaited(g)' = Chain(rd'[g].w, qR'[g], InPut(g)')
            BY AwaitedChain
          <6>. QED  BY <4>1, <6>1
        <5>. HIDE DEF u
        <5>5. conn'[g].wire = Wire(Awaited(g)', u)
          BY <4>1, <5>1, <5>2, <5>3, <5>4
        <5>. QED  BY <5>2, <5>5 DEF Wire
      <4>4. Ordered(1)'
        BY <1>3, <4>1, <4>3 DEF Ordered
      <4>. QED  BY <1>1, <4>1, <4>4, OrderedFirst
    <3>. QED  BY <2>1, <3>1, <3>2
  <2>. QED  BY <1>1, <1>9, <2>1, <2>3, <2>4, <2>5, <2>6 DEF Matching
<1>16. CASE WriterWrite(g)
  <2>1. /\ wr'[g].chR = wr[g].chR /\ wr'[g].w = wr[g].w
        /\ wr[g].pc = "write" /\ wr'[g].pc = "putFast"
        /\ \A h \in Gens \ {g} : wr'[h] = wr[h]
    BY <1>1, <1>16 DEF WriterWrite, WrT
  <2>2. /\ conn'[g].wire = Append(conn[g].wire, wr[g].w)
        /\ conn'[g].shifted = conn[g].shifted
        /\ \A h \in Gens \ {g} : conn'[h] = conn[h]
    <3>1. PICK n : conn' = [conn EXCEPT ![g].wire = Append(@, wr[g].w), ![g].flushed = n]
      BY <1>16 DEF WriterWrite
    <3>. QED  BY <1>1, <3>1 DEF ConnT, ConnRec
  <2>3. wr'[g].chR = 1
    BY <1>1, <2>1 DEF Loaded, WriterRuns, WriterPCs
  <2>4. Loaded' /\ FirstError' /\ CleanStart'
    BY <1>5, <1>6, <1>16, <2>1, <2>2, <2>3 DEF WriterWrite
  <2>5. Ordered(1)'
    <3>1. /\ InPut(g) = NoCall /\ InPut(g)' = wr[g].w /\ UNCHANGED <<rd, qR>>
      BY <1>16, <2>1 DEF InPut, Putting, WriterWrite
    <3>2. rd[g].w \in Hands /\ qR[g] \in Seq(Calls) /\ wr[g].w \in Calls
      BY <1>1, <1>4, <2>1, TypeFields DEF Channels, Carrying
    <3>3. Awaited(g) = Chain(rd[g].w, qR[g], NoCall)
      BY <3>1, AwaitedChain
    <3>4. Awaited(g)' = Chain(rd[g].w, qR[g], wr[g].w)
      <4>1. Awaited(g)' = Chain(rd'[g].w, qR'[g], InPut(g)')
        BY AwaitedChain
      <4>. QED  BY <3>1, <4>1
    <3>5. /\ Chain(rd[g].w, qR[g], NoCall) \in Seq(Calls)
          /\ Chain(rd[g].w, qR[g], wr[g].w) \in Seq(Calls)
      BY <3>2, ChainType, HandType
    <3>6. ASSUME rd[g].pc \in ReaderLives, ~conn[g].shifted
          PROVE  conn'[g].wire = Awaited(g)' \o <<>>
      <4>1. conn[g].wire = Awaited(g) \o <<>>
        BY <1>1, <1>2, <3>6 DEF InOrder, Ordered
      <4>2. conn[g].wire = Chain(rd[g].w, qR[g], NoCall)
        BY <3>3, <3>5, <4>1, ConcatEmptySeq
      <4>3. conn'[g].wire = Chain(rd[g].w, qR[g], wr[g].w)
        BY <2>2, <3>2, <4>2, ChainWrite
      <4>. QED  BY <3>4, <3>5, <4>3, ConcatEmptySeq
    <3>7. <<>> \in Seq(Calls)
      BY EmptySeq
    <3>. QED  BY <1>3, <2>2, <3>1, <3>6, <3>7 DEF Ordered
  <2>6. InOrder'
    BY <1>1, <1>16, <2>5, OrderedFirst DEF WriterWrite
  <2>. QED  BY <1>1, <1>16, <2>4, <2>6 DEF WriterWrite, Matching
<1>17. CASE WriterPut(g)
  <2>1. /\ wr'[g].chR = wr[g].chR /\ wr'[g].w = NoCall
        /\ wr[g].pc \in {"putFast", "putSlow"} /\ wr'[g].pc = "fast"
        /\ \A h \in Gens \ {g} : wr'[h] = wr[h]
    BY <1>1, <1>17 DEF WriterPut, WrT
  <2>2. wr[g].chR = 1
    BY <1>1, <2>1 DEF Loaded, WriterRuns, WriterPCs
  <2>3. /\ qR'[g] = Append(qR[g], wr[g].w)
        /\ \A h \in Gens \ {g} : qR'[h] = qR[h]
    BY <1>1, <1>3, <1>17, <2>2 DEF WriterPut, Put, Channels
  <2>4. Loaded' /\ FirstError' /\ CleanStart'
    BY <1>5, <1>6, <1>17, <2>1, <2>2, <2>3 DEF WriterPut
  <2>5. Ordered(1)'
    <3>1. InPut(g) = wr[g].w /\ InPut(g)' = NoCall /\ UNCHANGED <<rd, conn>>
      BY <1>17, <2>1 DEF InPut, Putting, WriterPut
    <3>2. rd[g].w \in Hands /\ qR[g] \in Seq(Calls) /\ wr[g].w \in Calls
      BY <1>1, <1>4, <2>1, TypeFields DEF Channels, Carrying
    <3>3. Awaited(g) = Chain(rd[g].w, qR[g], wr[g].w)
      BY <3>1, AwaitedChain
    <3>4. Awaited(g)' = Chain(rd[g].w, Append(qR[g], wr[g].w), NoCall)
      <4>1. Awaited(g)' = Chain(rd'[g].w, qR'[g], InPut(g)')
        BY AwaitedChain
      <4>. QED  BY <2>3, <3>1, <4>1
    <3>5. Awaited(g)' = Awaited(g)
      BY <3>2, <3>3, <3>4, ChainPut
    <3>. QED  BY <1>1, <1>2, <1>3, <3>1, <3>5 DEF InOrder, Ordered
  <2>6. InOrder'
    BY <1>1, <1>17, <2>5, OrderedFirst DEF WriterPut
  <2>. QED  BY <1>1, <1>17, <2>4, <2>6 DEF WriterPut, Matching
<1>. QED  BY <1>10, <1>11, <1>12, <1>13, <1>14, <1>15, <1>16, <1>17 DEF WriterStep

LEMMA MatchingStepReader ==
  ASSUME TypeOK, Locals, WorkAccounted, Matching, NEW g \in Gens, ReaderStep(g)
  PROVE  Matching'
<1>. USE MatchingFrame DEF fields, queues, notReader
<1>1. /\ OneGeneration /\ Loaded /\ FirstError /\ CleanStart /\ InOrder /\ Results
      /\ RdT /\ ConnT /\ WorkT /\ Channels(qR)
  BY TypeParts DEF Matching, Parts
<1>2. rd[g].pc \in ReaderLives
  BY DEF ReaderStep, ReaderLoad, ReaderTake, ReaderBlock, ReaderStop, ReaderRead,
         ReaderFail, ReaderLives, ReaderPCs
<1>3. g = 1 /\ chR = 1 /\ chW = 1 /\ sup[g].pc \in Running /\ 1 \in Gens
  BY <1>1, <1>2, FirstOnly DEF ReaderLives
<1>4. /\ rd[g].pc = "read" => rd[g].w \in Calls /\ rd[g].w \in Waiting
      /\ rd[g].pc # "read" => rd[g].w = NoCall
  BY TypeFields, PlacesWait DEF Locals, ReaderHands, Hands
\* The parts that depend on where the reader is.
<1>5. ASSUME UNCHANGED <<sup, wr>>, \A h \in Gens \ {g} : rd'[h] = rd[h],
             rd'[g].pc \in {"fast", "slow", "read"} => rd'[g].chR = 1,
             rd'[g].pc = "exit" /\ sup[g].pc = "run" => rd'[g].err # "nil"
      PROVE  Loaded' /\ FirstError'
  BY <1>1, <1>5 DEF Loaded, FirstError
<1>6. ASSUME UNCHANGED sup, \A h \in Gens \ {g} : conn'[h] = conn[h] /\ qR'[h] = qR[h]
      PROVE  CleanStart'
  BY <1>1, <1>3, <1>6 DEF CleanStart, Running
<1>7. ASSUME Ordered(g)', \A h \in Gens \ {g} : rd'[h] = rd[h]
      PROVE  InOrder'
  BY <1>1, <1>3, <1>7, OrderedFirst
<1>8. InPut(g) \in Hands /\ rd[g].w \in Hands /\ qR[g] \in Seq(Calls)
  BY <1>1, HandType, TypeFields DEF InPut, Channels
<1>9. UNCHANGED wr => InPut(g)' = InPut(g)
  BY DEF InPut, Putting
<1>10. CASE ReaderLoad(g)
  <2>1. /\ rd'[g].w = rd[g].w /\ rd'[g].pc = "fast" /\ rd'[g].chR = 1
        /\ \A h \in Gens \ {g} : rd'[h] = rd[h]
    BY <1>1, <1>3, <1>10 DEF ReaderLoad, RdT
  <2>2. Ordered(g)'
    BY <1>1, <1>2, <1>9, <1>10, <2>1, OrderedSame DEF ReaderLoad, InOrder
  <2>. QED  BY <1>1, <1>5, <1>7, <1>10, <2>1, <2>2 DEF ReaderLoad, Matching
<1>11. CASE ReaderTake(g)
  <2>1. /\ rd'[g].w = Head(qR[rd[g].chR]) /\ rd'[g].pc = "read"
        /\ rd[g].pc \in {"fast", "slow"} /\ rd'[g].chR = rd[g].chR
        /\ \A h \in Gens \ {g} : rd'[h] = rd[h]
    BY <1>1, <1>11 DEF ReaderTake, RdT
  <2>2. rd[g].chR = 1
    BY <1>1, <2>1 DEF Loaded
  <2>3. /\ qR[g] # <<>> /\ qR'[g] = Tail(qR[g])
        /\ \A h \in Gens \ {g} : qR'[h] = qR[h]
    BY <1>1, <1>3, <1>11, <2>2 DEF ReaderTake, CanRecv, Drop, Channels
  <2>4. Awaited(g)' = Awaited(g)
    <3>1. Awaited(g)' = Chain(Head(qR[g]), Tail(qR[g]), InPut(g))
      <4>1. Awaited(g)' = Chain(rd'[g].w, qR'[g], InPut(g)')
        BY AwaitedChain
      <4>. QED  BY <1>3, <1>9, <1>11, <2>1, <2>2, <2>3, <4>1 DEF ReaderTake
    <3>2. Awaited(g) = Chain(NoCall, qR[g], InPut(g))
      BY <1>4, <2>1, AwaitedChain
    <3>. QED  BY <1>8, <2>3, <3>1, <3>2, ChainTake
  <2>5. Ordered(g)'
    BY <1>1, <1>2, <1>11, <2>4 DEF ReaderTake, InOrder, Ordered
  <2>. QED  BY <1>1, <1>5, <1>6, <1>7, <1>11, <2>1, <2>2, <2>3, <2>5
            DEF ReaderTake, Matching
<1>12. CASE ReaderBlock(g)
  <2>1. /\ rd'[g].w = rd[g].w /\ rd'[g].pc = "slow" /\ rd[g].pc = "fast"
        /\ rd'[g].chR = rd[g].chR
        /\ \A h \in Gens \ {g} : rd'[h] = rd[h]
    BY <1>1, <1>12 DEF ReaderBlock, RdT
  <2>2. rd'[g].chR = 1
    BY <1>1, <2>1 DEF Loaded
  <2>3. Ordered(g)'
    BY <1>1, <1>2, <1>9, <1>12, <2>1, OrderedSame DEF ReaderBlock, InOrder
  <2>. QED  BY <1>1, <1>5, <1>7, <1>12, <2>1, <2>2, <2>3 DEF ReaderBlock, Matching
<1>13. CASE ReaderStop(g)
  <2>1. /\ rd'[g].pc = "exit" /\ sup[g].pc # "run"
        /\ \A h \in Gens \ {g} : rd'[h] = rd[h]
    BY <1>1, <1>13 DEF ReaderStop, RdT, StopR
  <2>2. Ordered(g)'
    BY <2>1 DEF Ordered, ReaderLives
  <2>. QED  BY <1>1, <1>5, <1>7, <1>13, <2>1, <2>2 DEF ReaderStop, Matching
<1>14. CASE ReaderRead(g)
  <2>1. /\ rd'[g].w = NoCall /\ rd'[g].pc = "fast" /\ rd[g].pc = "read"
        /\ rd'[g].chR = rd[g].chR
        /\ \A h \in Gens \ {g} : rd'[h] = rd[h]
    BY <1>1, <1>14 DEF ReaderRead, RdT
  <2>2. rd'[g].chR = 1
    BY <1>1, <2>1 DEF Loaded
  <2>3. /\ Head(conn[g].wire) \in Calls
        /\ ~conn'[g].shifted => ~conn[g].shifted /\ conn'[g].wire = Tail(conn[g].wire)
        /\ \A h \in Gens \ {g} : conn'[h] = conn[h]
    BY <1>1, <1>14, ReadTakes DEF Locals, ConnT
  <2>4. ASSUME ~conn[g].shifted
        PROVE  /\ Head(conn[g].wire) = rd[g].w
               /\ \E v \in Seq(Calls) :
                    /\ Tail(conn[g].wire) = Wire(Chain(NoCall, qR[g], InPut(g)), v)
                    /\ wr[g].pc \in WriterRuns => v = <<>>
    <3>1. PICK v \in Seq(Calls) : /\ conn[g].wire = Wire(Awaited(g), v)
                                  /\ wr[g].pc \in WriterRuns => v = <<>>
      BY <1>1, <1>2, <2>4 DEF InOrder, Ordered, Wire
    <3>2. Awaited(g) = Chain(rd[g].w, qR[g], InPut(g))
      BY AwaitedChain
    <3>3. /\ Head(Wire(Chain(rd[g].w, qR[g], InPut(g)), v)) = rd[g].w
          /\ Tail(Wire(Chain(rd[g].w, qR[g], InPut(g)), v))
               = Wire(Chain(NoCall, qR[g], InPut(g)), v)
      BY <1>4, <1>8, <2>1, ChainRead
    <3>. QED  BY <3>1, <3>2, <3>3
  <2>6. Ordered(g)'
    <3>1. Awaited(g)' = Chain(NoCall, qR[g], InPut(g))
      <4>1. Awaited(g)' = Chain(rd'[g].w, qR'[g], InPut(g)')
        BY AwaitedChain
      <4>. QED  BY <1>9, <1>14, <2>1, <4>1 DEF ReaderRead
    <3>2. UNCHANGED wr
      BY <1>14 DEF ReaderRead
    <3>. QED  BY <2>3, <2>4, <3>1, <3>2 DEF Ordered, Wire
  <2>7. Results'
    <3>1. rd[g].w \in Calls /\ call[rd[g].w].pc # "ret" /\ ~work[rd[g].w].done
      BY <1>4, <2>1 DEF Waiting
    <3>2. /\ work'[rd[g].w].done /\ work'[rd[g].w].err = work[rd[g].w].err
          /\ work'[rd[g].w].resp = Head(conn[g].wire)
          /\ work'[rd[g].w].stray = conn[g].shifted
          /\ \A r \in Calls \ {rd[g].w} : work'[r] = work[r]
      <4>1. work' = [work EXCEPT ![rd[g].w].resp = Head(conn[g].wire),
                                 ![rd[g].w].stray = conn[g].shifted,
                                 ![rd[g].w].done = TRUE]
        BY <1>14 DEF ReaderRead
      <4>. QED  BY <1>1, <3>1, <4>1 DEF WorkT
    <3>3. UNCHANGED call
      BY <1>14 DEF ReaderRead
    <3>. QED  BY <1>1, <2>3, <2>4, <3>1, <3>2, <3>3 DEF Results
  <2>. QED  BY <1>1, <1>5, <1>6, <1>7, <1>14, <2>1, <2>2, <2>3, <2>6, <2>7
            DEF ReaderRead, Matching
<1>15. CASE ReaderFail(g)
  <2>1. /\ rd'[g].pc = "exit" /\ rd'[g].err = "read" /\ rd[g].pc = "read"
        /\ \A h \in Gens \ {g} : rd'[h] = rd[h]
    BY <1>1, <1>15 DEF ReaderFail, RdT, ReadError
  <2>2. Ordered(g)'
    BY <2>1 DEF Ordered, ReaderLives
  <2>3. Results'
    BY <1>1, <1>4, <1>15, <2>1, ResultsSignal DEF ReaderFail
  <2>. QED  BY <1>1, <1>5, <1>7, <1>15, <2>1, <2>2, <2>3 DEF ReaderFail, Matching
<1>. QED  BY <1>10, <1>11, <1>12, <1>13, <1>14, <1>15 DEF ReaderStep

LEMMA MatchingStutter == Matching /\ UNCHANGED vars => Matching'
  BY MatchingFrame DEF vars, queues, fields, Matching

-------------------------------------------------------------------------------
(* The invariant of the pipeline without the idle timer.                   *)

Reliable == TypeOK /\ Locals /\ WorkAccounted /\ Matching

LEMMA ReliableStep ==
  ASSUME "idle" \notin Faults, Reliable, [Next]_vars PROVE Reliable'
<1>. USE DEF Reliable
<1>1. TypeOK' /\ Locals' /\ WorkAccounted'
  BY TypeInductive, AccountedStep
<1>2. CASE UNCHANGED vars
  BY <1>1, <1>2, MatchingStutter
<1>3. CASE Next
  <2>1. ASSUME NEW p \in Clients, InitFound(p) \/ InitMakeR(p) \/ InitMakeW(p)
        PROVE  Matching'
    BY <2>1, MatchingStepCaller
  <2>2. ASSUME NEW p \in Calls, CallStep(p) PROVE Matching'
    BY <2>2, MatchingStepCaller DEF Clients
  <2>3. ASSUME NEW p \in Polls, PollCount(p) PROVE Matching'
    BY <2>3, MatchingStepCaller DEF Clients
  <2>4. ASSUME NEW g \in Gens, SupStep(g) \/ WriterStep(g) \/ ReaderStep(g)
        PROVE  Matching'
    BY <2>4, MatchingStepSup, MatchingStepWriter, MatchingStepReader
  <2>. QED  BY <1>1, <1>3, <2>1, <2>2, <2>3, <2>4 DEF Next
<1>. QED  BY <1>2, <1>3

LEMMA ReliableAlways ==
  ASSUME "idle" \notin Faults PROVE Spec => []Reliable
<1>1. Init => Reliable
  BY TypeInit, LocalsInit, AccountedInit, MatchingInit DEF Reliable
<1>2. Reliable /\ [Next]_vars => Reliable'
  BY ReliableStep
<1>. QED  BY <1>1, <1>2, PTL DEF Spec

LEMMA OrderedWorks ==
  ASSUME NEW a \in Seq(Calls), NEW v \in Seq(Calls), NEW w, w = a \o v
  PROVE  /\ Len(a) <= Len(w)
         /\ \A i \in DOMAIN a : w[i] = a[i]
<1>1. /\ Len(w) = Len(a) + Len(v) /\ Len(a) \in Nat /\ Len(v) \in Nat
      /\ DOMAIN a = 1 .. Len(a)
  BY ConcatProperties, LenProperties
<1>2. \A i \in 1 .. Len(w) : w[i] = IF i <= Len(a) THEN a[i] ELSE v[i - Len(a)]
  BY <1>1, ConcatProperties
<1>. QED  BY <1>1, <1>2

\* While the reader of a connection runs, and until one Read took more or less
\* than one response (a 1xx response, or a Content-Length without a body), the
\* works it reads responses for are the oldest unanswered requests on the wire,
\* in the order they were written; also after such connections, but not where
\* a writer ends its connection because it was idle.
THEOREM PipelineOrderAlways ==
  ASSUME "idle" \notin Faults PROVE Spec => []PipelineOrder
<1>1. Reliable => PipelineOrder
  <2>. SUFFICES ASSUME Reliable, NEW g \in Gens, ~conn[g].shifted,
                       rd[g].pc \in {"load", "fast", "slow", "read"}
                PROVE  /\ Len(Awaited(g)) <= Len(conn[g].wire)
                       /\ \A i \in DOMAIN Awaited(g) : conn[g].wire[i] = Awaited(g)[i]
    BY DEF PipelineOrder
  <2>1. PICK v \in Seq(Calls) : conn[g].wire = Awaited(g) \o v
    BY DEF Reliable, Matching, InOrder, Ordered, ReaderLives, ReaderPCs
  <2>2. Awaited(g) \in Seq(Calls)
    <3>1. rd[g].w \in Hands /\ InPut(g) \in Hands /\ qR[g] \in Seq(Calls)
      BY TypeFields, TypeParts, HandType DEF Reliable, InPut, Parts, Channels
    <3>. QED  BY <3>1, AwaitedChain, ChainType
  <2>. HIDE DEF Awaited
  <2>. QED  BY <2>1, <2>2, OrderedWorks
<1>. QED  BY <1>1, ReliableAlways, PTL

\* Do returns without an error only with the response to its own request, but
\* for calls whose response was read after such a Read on the same connection;
\* not where a writer ends its connection because it was idle.
THEOREM ResponseMatchAlways ==
  ASSUME "idle" \notin Faults PROVE Spec => []ResponseMatch
<1>1. Reliable => ResponseMatch
  BY DEF Reliable, Matching, Results, ResponseMatch
<1>. QED  BY <1>1, ReliableAlways, PTL

-------------------------------------------------------------------------------
(* Where every Read takes one response, no connection is ever shifted.     *)

Straight == /\ \A g \in Gens : ~conn[g].shifted
            /\ \A p \in Calls : ~work[p].stray

LEMMA StraightInit == Init => Straight
  BY DEF Init, Straight, NoConn

\* No step but a Read moves the two histories, except that they start anew.
LEMMA StraightKept ==
  ASSUME Straight, \A g \in Gens : conn'[g].shifted => conn[g].shifted,
         \A p \in Calls : work'[p].stray = work[p].stray
  PROVE  Straight'
  BY DEF Straight

LEMMA StraightStep ==
  ASSUME TypeOK, Locals, Straight, [Next]_vars, Faults \cap {"interim", "overread"} = {}
  PROVE  Straight'
<1>1. WorkT /\ ConnT
  BY TypeParts DEF Parts
<1>2. ASSUME NEW p, NEW e, work' = Signal(p, e)
      PROVE  \A r \in Calls : work'[r].stray = work[r].stray
  BY <1>1, <1>2 DEF Signal, WorkT
<1>3. ASSUME NEW p \in Calls, CallStep(p)
      PROVE  UNCHANGED conn /\ \A r \in Calls : work'[r].stray = work[r].stray
  <2>1. UNCHANGED conn
    BY <1>3 DEF CallStep, DoEval, DoSend, DoDefault, DoEvict, DoOverflow, DoReturn, notCall
  <2>2. CASE DoOverflow(p) \/ DoReturn(p)
    BY <1>1, <2>1, <2>2 DEF DoOverflow, DoReturn, Returned, WorkT
  <2>3. CASE DoEvict(p)
    BY <1>2, <2>1, <2>3 DEF DoEvict
  <2>4. CASE DoEval(p) \/ DoSend(p) \/ DoDefault(p)
    BY <2>1, <2>4 DEF DoEval, DoSend, DoDefault
  <2>. QED  BY <1>3, <2>1, <2>2, <2>3, <2>4 DEF CallStep
<1>4. ASSUME NEW g \in Gens, SupStep(g)
      PROVE  /\ \A h \in Gens : conn'[h].shifted => conn[h].shifted
             /\ \A r \in Calls : work'[r].stray = work[r].stray
  <2>1. CASE Join(g)
    BY <1>1, <2>1 DEF Join, ConnT, NoConn
  <2>2. CASE DrainRecv(g) \/ BlameRecv(g)
    BY <1>2, <2>2 DEF DrainRecv, BlameRecv, notSup
  <2>3. CASE UNCHANGED <<work, conn>>
    BY <2>3
  <2>. QED  BY <1>4, <2>1, <2>2, <2>3
            DEF SupStep, DialOk, DialFail, WriterDone, ReaderDone, DrainLoop, EvalRecv,
                DecideStop, DecideNilR, DecideNilW, notSup
<1>5. ASSUME NEW g \in Gens, WriterStep(g)
      PROVE  /\ \A h \in Gens : conn'[h].shifted = conn[h].shifted
             /\ \A r \in Calls : work'[r].stray = work[r].stray
  <2>1. FlushedAll(g) \/ Unflushed => \A h \in Gens : conn'[h].shifted = conn[h].shifted
    BY <1>1 DEF FlushedAll, Unflushed, ConnT, ConnRec
  <2>2. CASE WriterDrop(g)
    BY <1>2, <2>1, <2>2 DEF WriterDrop, WriterExit
  <2>3. CASE WriterWrite(g)
    BY <1>1, <2>3 DEF WriterWrite, ConnT, ConnRec
  <2>4. CASE WriterFlush(g) \/ WriterQuit(g)
    BY <2>1, <2>4 DEF WriterFlush, WriterQuit, WriterExit
  <2>5. CASE UNCHANGED <<work, conn>>
    BY <2>5
  <2>. QED  BY <1>5, <2>2, <2>3, <2>4, <2>5
            DEF WriterStep, WriterLoad, WriterTake, WriterBlock, WriterPut
<1>6. ASSUME NEW g \in Gens, ReaderStep(g) PROVE Straight'
  <2>1. CASE ReaderRead(g)
    <3>1. PICK n \in 0 .. conn[g].flushed, tears \in BOOLEAN :
            /\ Takes(n)
            /\ conn' = [conn EXCEPT ![g].wire = SubSeq(@, n + 1, Len(@)),
                                    ![g].flushed = @ - n, ![g].torn = tears,
                                    ![g].shifted = @ \/ n # 1]
      BY <2>1 DEF ReaderRead
    <3>2. n = 1
      BY <3>1 DEF Takes
    <3>3. \A h \in Gens : ~conn'[h].shifted
      BY <1>1, <3>1, <3>2 DEF Straight, ConnT, ConnRec
    <3>4. \A r \in Calls : ~work'[r].stray
      <4>1. work' = [work EXCEPT ![rd[g].w].resp = Head(conn[g].wire),
                                 ![rd[g].w].stray = conn[g].shifted,
                                 ![rd[g].w].done = TRUE]
        BY <2>1 DEF ReaderRead
      <4>. QED  BY <1>1, <4>1 DEF Straight, WorkT
    <3>. QED  BY <3>3, <3>4 DEF Straight
  <2>2. CASE ReaderFail(g)
    BY <1>2, <2>2, StraightKept DEF ReaderFail
  <2>3. CASE UNCHANGED <<work, conn>>
    BY <2>3, StraightKept
  <2>. QED  BY <1>6, <2>1, <2>2, <2>3
            DEF ReaderStep, ReaderLoad, ReaderTake, ReaderBlock, ReaderStop
<1>7. CASE UNCHANGED <<work, conn>>
  BY <1>7, StraightKept
<1>8. ASSUME NEW p \in Clients,
             InitFound(p) \/ InitMakeR(p) \/ InitMakeW(p) \/ PollCount(p)
      PROVE  UNCHANGED <<work, conn>>
  BY <1>8 DEF InitFound, InitMakeR, InitMakeW, PollCount, notCall
<1>9. CASE Next
  BY <1>3, <1>4, <1>5, <1>6, <1>7, <1>8, <1>9, StraightKept DEF Next, Clients
<1>. QED  BY <1>7, <1>9 DEF vars

-------------------------------------------------------------------------------
(* The pipeline implements PipelineService: every step is a step of the    *)
(* service for one call, or changes nothing that a caller can see.         *)

Outcome(p) == IF Status(p) \in {"settled", "returned"}
                THEN <<work[p].err, work[p].resp>> ELSE <<"none", NoCall>>

Same(r) == Status(r)' = Status(r) /\ Outcome(r)' = Outcome(r)

LEMMA ServiceStill ==
  ASSUME \A r \in Calls : Same(r) PROVE UNCHANGED Service!vars
  BY DEF Service!vars, Same, Outcome

LEMMA ServiceMove ==
  ASSUME NEW p \in Calls, \A r \in Calls \ {p} : Same(r),
         \/ /\ Status(p) = "new" /\ Status(p)' = "open"
            /\ Outcome(p)' = Outcome(p)
         \/ /\ Status(p) = "open" /\ Status(p)' \in {"settled", "returned"}
            /\ \/ Outcome(p)' = <<"nil", p>>
               \/ \E e \in Errors \ {"nil"} : Outcome(p)' = <<e, NoCall>>
         \/ /\ Status(p) = "settled" /\ Status(p)' = "returned"
            /\ Outcome(p)' = Outcome(p)
  PROVE  Service!Next
<1>. DEFINE status  == [r \in Calls |-> Status(r)]
            outcome == [r \in Calls |-> Outcome(r)]
<1>1. status'  = [status EXCEPT ![p] = Status(p)']
  BY DEF Same
<1>2. outcome' = [outcome EXCEPT ![p] = Outcome(p)']
  BY DEF Same
<1>3. Outcome(p)' = Outcome(p) => outcome' = outcome
  BY DEF Same
<1>4. status[p] = Status(p)
  OBVIOUS
<1>. HIDE DEF status, outcome
<1>5. CASE Status(p) = "new" /\ Status(p)' = "open" /\ Outcome(p)' = Outcome(p)
  <2>1. Service!Call(p)
    BY <1>1, <1>3, <1>4, <1>5 DEF Service!Call, status, outcome, Outcome
  <2>. QED  BY <2>1 DEF Service!Next
<1>6. CASE /\ Status(p) = "open" /\ Status(p)' \in {"settled", "returned"}
           /\ \/ Outcome(p)' = <<"nil", p>>
              \/ \E e \in Errors \ {"nil"} : Outcome(p)' = <<e, NoCall>>
  <2>1. status' \in {[status EXCEPT ![p] = s] : s \in {"settled", "returned"}}
    BY <1>1, <1>6
  <2>2. Outcome(p)' \in Service!Failed \cup {Service!Answered(p)}
    BY <1>6 DEF Service!Failed, Service!Answered
  <2>3. Service!Settle(p)
    BY <1>2, <1>4, <1>6, <2>1, <2>2 DEF Service!Settle, status, outcome, Outcome
  <2>. QED  BY <2>3 DEF Service!Next
<1>7. CASE Status(p) = "settled" /\ Status(p)' = "returned" /\ Outcome(p)' = Outcome(p)
  <2>1. Service!Return(p)
    BY <1>1, <1>3, <1>4, <1>7 DEF Service!Return, status, outcome, Outcome
  <2>. QED  BY <2>1 DEF Service!Next
<1>. QED  BY <1>5, <1>6, <1>7

\* A call sees of a step what it does to its own position and work.
LEMMA SameCall ==
  ASSUME WorkAccounted, NEW r \in Calls,
         call'[r].pc = "idle" <=> call[r].pc = "idle",
         call'[r].pc = "ret" <=> call[r].pc = "ret", work'[r] = work[r]
  PROVE  Same(r)
  BY DEF Same, Status, Outcome

\* Signalling a call that waits settles it.
LEMMA ServiceSignal ==
  ASSUME WorkAccounted, Results, NEW p \in Waiting, work'[p].done,
         \/ work'[p].err = "nil" /\ work'[p].resp = p
         \/ work'[p].err \in Errors \ {"nil"} /\ work'[p].resp = work[p].resp,
         \A r \in Calls \ {p} : work'[r] = work[r],
         \A r \in Calls : /\ call'[r].pc = "idle" <=> call[r].pc = "idle"
                          /\ call'[r].pc = "ret" <=> call[r].pc = "ret"
  PROVE  Service!Next
<1>1. p \in Calls /\ call[p].pc = "wait" /\ ~work[p].done
  BY DEF Waiting
<1>2. Status(p) = "open" /\ Status(p)' = "settled"
  BY <1>1 DEF Status
<1>3. Outcome(p)' = <<work'[p].err, work'[p].resp>>
  BY <1>2 DEF Outcome
<1>4. work[p].resp = NoCall
  BY <1>1 DEF Results
<1>5. \A r \in Calls \ {p} : Same(r)
  BY SameCall
<1>. QED  BY <1>1, <1>2, <1>3, <1>4, <1>5, ServiceMove

LEMMA ServiceSignalError ==
  ASSUME TypeOK, WorkAccounted, Results, NEW p \in Waiting, NEW e \in Errors, e # "nil",
         work' = Signal(p, e),
         \A r \in Calls : /\ call'[r].pc = "idle" <=> call[r].pc = "idle"
                          /\ call'[r].pc = "ret" <=> call[r].pc = "ret"
  PROVE  Service!Next
<1>1. /\ p \in Calls /\ work'[p].done /\ work'[p].err = e
      /\ work'[p].resp = work[p].resp
      /\ \A r \in Calls \ {p} : work'[r] = work[r]
  BY TypeParts DEF Waiting, Signal, Parts, WorkT
<1>. QED  BY <1>1, ServiceSignal

LEMMA ServiceSame ==
  ASSUME WorkAccounted, UNCHANGED work,
         \A r \in Calls : /\ call'[r].pc = "idle" <=> call[r].pc = "idle"
                          /\ call'[r].pc = "ret" <=> call[r].pc = "ret"
  PROVE  UNCHANGED Service!vars
  BY SameCall, ServiceStill

LEMMA ServiceStepCaller ==
  ASSUME Reliable, NEW p \in Clients,
         InitFound(p) \/ InitMakeR(p) \/ InitMakeW(p)
           \/ (p \in Calls /\ CallStep(p)) \/ (p \in Polls /\ PollCount(p))
  PROVE  [Service!Next]_(Service!vars)
<1>1. TypeOK /\ WorkAccounted /\ Results /\ CallT /\ WorkT
  BY TypeParts DEF Reliable, Matching, Parts
<1>2. ASSUME NEW at, NEW next, Goto(p, at, next) \/ EvalChW(p, at, next)
      PROVE  /\ call[p].pc = at /\ call'[p].pc = next
             /\ \A r \in Clients \ {p} : call'[r].pc = call[r].pc
  BY <1>1, <1>2 DEF Goto, EvalChW, CallT
<1>3. ASSUME NEW at, NEW next, Goto(p, at, next) \/ EvalChW(p, at, next),
             at \notin {"idle", "ret"}, next \notin {"idle", "ret"}
      PROVE  \A r \in Calls : /\ call'[r].pc = "idle" <=> call[r].pc = "idle"
                              /\ call'[r].pc = "ret" <=> call[r].pc = "ret"
  BY <1>2, <1>3 DEF Clients
<1>4. ASSUME UNCHANGED work, NEW next \in {"makeW", "evalSend", "count"},
             Goto(p, "idle", next)
      PROVE  [Service!Next]_(Service!vars)
  <2>1. /\ call[p].pc = "idle" /\ call'[p].pc = next
        /\ \A r \in Clients \ {p} : call'[r].pc = call[r].pc
    BY <1>2, <1>4
  <2>2. \A r \in Calls \ {p} : Same(r)
    BY <1>1, <1>4, <2>1, SameCall DEF Clients
  <2>3. CASE p \in Calls
    <3>1. Status(p) = "new" /\ Status(p)' = "open" /\ Outcome(p)' = Outcome(p)
      BY <1>1, <1>4, <2>1, <2>3 DEF Status, Outcome, WorkAccounted
    <3>. QED  BY <2>2, <2>3, <3>1, ServiceMove
  <2>4. CASE p \notin Calls
    BY <2>2, <2>4, ServiceStill
  <2>. QED  BY <2>3, <2>4
<1>5. CASE InitFound(p)
  BY <1>4, <1>5 DEF InitFound, AfterInit
<1>6. CASE InitMakeR(p)
  BY <1>4, <1>6 DEF InitMakeR
<1>7. CASE InitMakeW(p)
  BY <1>1, <1>3, <1>7, ServiceSame DEF InitMakeW, AfterInit
<1>8. CASE p \in Calls /\ DoEval(p)
  BY <1>1, <1>3, <1>8, ServiceSame DEF DoEval
<1>9. CASE p \in Calls /\ DoSend(p)
  BY <1>1, <1>3, <1>9, ServiceSame DEF DoSend
<1>10. CASE p \in Calls /\ DoDefault(p)
  BY <1>1, <1>3, <1>10, ServiceSame DEF DoDefault
<1>11. CASE p \in Calls /\ DoEvict(p)
  <2>1. Head(qW[call[p].ch]) \in Waiting
    BY <1>1, <1>11, PlacesWait, TypeFields DEF DoEvict
  <2>2. "overflow" \in Errors
    BY DEF Errors
  <2>. QED  BY <1>1, <1>3, <1>11, <2>1, <2>2, ServiceSignalError DEF DoEvict
<1>12. CASE p \in Calls /\ DoOverflow(p)
  <2>1. /\ call[p].pc = "resend" /\ call'[p].pc = "ret"
        /\ \A r \in Clients \ {p} : call'[r].pc = call[r].pc
    BY <1>2, <1>12 DEF DoOverflow
  <2>2. /\ ~work[p].done /\ work[p].resp = NoCall
        /\ work'[p].err = "overflow" /\ work'[p].resp = work[p].resp
        /\ \A r \in Calls \ {p} : work'[r] = work[r]
    BY <1>1, <1>12, <2>1 DEF DoOverflow, WorkT, WorkAccounted, Results
  <2>3. /\ Status(p) = "open" /\ Status(p)' = "returned"
        /\ Outcome(p)' = <<"overflow", NoCall>>
    BY <2>1, <2>2 DEF Status, Outcome
  <2>4. \A r \in Calls \ {p} : Same(r)
    BY <1>1, <2>1, <2>2, SameCall DEF Clients
  <2>5. "overflow" \in Errors
    BY DEF Errors
  <2>. QED  BY <1>12, <2>3, <2>4, <2>5, ServiceMove
<1>13. CASE p \in Calls /\ DoReturn(p)
  <2>1. /\ call[p].pc = "wait" /\ call'[p].pc = "ret"
        /\ \A r \in Clients \ {p} : call'[r].pc = call[r].pc
    BY <1>2, <1>13 DEF DoReturn
  <2>2. /\ work[p].done
        /\ work'[p].err = work[p].err /\ work'[p].resp = work[p].resp
        /\ \A r \in Calls \ {p} : work'[r] = work[r]
    BY <1>1, <1>13 DEF DoReturn, Returned, WorkT
  <2>3. /\ Status(p) = "settled" /\ Status(p)' = "returned"
        /\ Outcome(p)' = Outcome(p)
    BY <2>1, <2>2 DEF Status, Outcome
  <2>4. \A r \in Calls \ {p} : Same(r)
    BY <1>1, <2>1, <2>2, SameCall DEF Clients
  <2>. QED  BY <1>13, <2>3, <2>4, ServiceMove
<1>14. CASE p \in Polls /\ PollCount(p)
  <2>1. \A r \in Calls : call'[r].pc = call[r].pc
    BY <1>2, <1>14 DEF PollCount, Clients
  <2>. QED  BY <1>1, <1>14, <2>1, ServiceSame DEF PollCount
<1>. QED  BY <1>5, <1>6, <1>7, <1>8, <1>9, <1>10, <1>11, <1>12, <1>13, <1>14
          DEF CallStep

LEMMA ServiceStepWorker ==
  ASSUME Reliable, Straight, NEW g \in Gens, SupStep(g) \/ WriterStep(g) \/ ReaderStep(g)
  PROVE  [Service!Next]_(Service!vars)
<1>1. TypeOK /\ WorkAccounted /\ Results /\ WorkT /\ Locals /\ InOrder /\ FirstError
  BY TypeParts DEF Reliable, Matching, Parts
<1>2. UNCHANGED call
  BY DEF SupStep, DialOk, DialFail, WriterDone, ReaderDone, Join, DrainLoop, EvalRecv,
         DrainRecv, BlameRecv, DecideStop, DecideNilR, DecideNilW, notSup, WriterStep,
         WriterLoad, WriterTake, WriterBlock, WriterFlush, WriterQuit, WriterDrop,
         WriterExit, WriterWrite, WriterPut, notWriter, ReaderStep, ReaderLoad,
         ReaderTake, ReaderBlock, ReaderStop, ReaderRead, ReaderFail, notReader
<1>3. /\ "overflow" \in Errors /\ "stopped" \in Errors /\ "write" \in Errors
      /\ "read" \in Errors /\ "nil" \in Errors
  BY DEF Errors
<1>4. CASE UNCHANGED work
  BY <1>1, <1>2, <1>4, ServiceSame
<1>5. CASE DrainRecv(g)
  <2>1. Head(qR[sup[g].ch]) \in Waiting
    BY <1>1, <1>5, PlacesWait, TypeFields DEF DrainRecv
  <2>. QED  BY <1>1, <1>2, <1>3, <1>5, <2>1, ServiceSignalError DEF DrainRecv
<1>6. CASE BlameRecv(g)
  <2>1. Head(qW[sup[g].ch]) \in Waiting
    BY <1>1, <1>6, PlacesWait, TypeFields DEF BlameRecv
  <2>2. sup[g].err \in Errors /\ sup[g].err # "nil"
    BY <1>1, <1>6, TypeFields DEF BlameRecv, SupGoto, FirstError
  <2>. QED  BY <1>1, <1>2, <1>6, <2>1, <2>2, ServiceSignalError DEF BlameRecv
<1>7. CASE WriterDrop(g)
  <2>1. wr[g].w \in Waiting
    BY <1>1, <1>7, PlacesWait DEF WriterDrop, WriterExit, Locals, WriterHands, Carrying
  <2>2. work' = Signal(wr[g].w, "write") \/ work' = Signal(wr[g].w, "stopped")
    BY <1>7 DEF WriterDrop
  <2>. QED  BY <1>1, <1>2, <1>3, <2>1, <2>2, ServiceSignalError
<1>8. CASE ReaderRead(g)
  <2>1. rd[g].pc = "read" /\ rd[g].w \in Waiting /\ rd[g].w \in Calls
    BY <1>1, <1>8, PlacesWait DEF ReaderRead, Locals, ReaderHands, Waiting
  <2>2. Head(conn[g].wire) = rd[g].w
    <3>1. PICK v \in Seq(Calls) : conn[g].wire = Wire(Awaited(g), v)
      BY <1>1, <2>1 DEF InOrder, Ordered, ReaderLives, ReaderPCs, Wire, Straight
    <3>2. Awaited(g) = Chain(rd[g].w, qR[g], InPut(g))
      BY AwaitedChain
    <3>3. InPut(g) \in Hands /\ qR[g] \in Seq(Calls)
      BY <1>1, TypeFields, TypeParts, HandType DEF InPut, Parts, Channels
    <3>4. Head(Wire(Chain(rd[g].w, qR[g], InPut(g)), v)) = rd[g].w
      BY <2>1, <3>3, ChainRead
    <3>. QED  BY <3>1, <3>2, <3>4
  <2>3. work[rd[g].w].err = "nil"
    BY <1>1, <2>1 DEF Results, Waiting
  <2>4. /\ work'[rd[g].w].done /\ work'[rd[g].w].err = "nil"
        /\ work'[rd[g].w].resp = rd[g].w
        /\ \A r \in Calls \ {rd[g].w} : work'[r] = work[r]
    BY <1>1, <1>8, <2>1, <2>2, <2>3 DEF ReaderRead, WorkT
  <2>. QED  BY <1>1, <1>2, <2>1, <2>4, ServiceSignal
<1>9. CASE ReaderFail(g)
  <2>1. rd[g].w \in Waiting
    BY <1>1, <1>9, PlacesWait DEF ReaderFail, Locals, ReaderHands
  <2>. QED  BY <1>1, <1>2, <1>3, <1>9, <2>1, ServiceSignalError DEF ReaderFail
<1>10. \/ UNCHANGED work \/ DrainRecv(g) \/ BlameRecv(g) \/ WriterDrop(g)
       \/ ReaderRead(g) \/ ReaderFail(g)
  BY DEF SupStep, DialOk, DialFail, WriterDone, ReaderDone, Join, DrainLoop, EvalRecv,
         DecideStop, DecideNilR, DecideNilW, WriterStep, WriterLoad, WriterTake,
         WriterBlock, WriterFlush, WriterQuit, WriterWrite, WriterPut, ReaderStep,
         ReaderLoad, ReaderTake, ReaderBlock, ReaderStop
<1>. QED  BY <1>4, <1>5, <1>6, <1>7, <1>8, <1>9, <1>10

\* Every behaviour of the pipeline is, for its callers, a behaviour of
\* PipelineService: a call that was made gets one result, its own response or
\* an error, which does not change until the call returns it; where no writer
\* ends an idle connection, and the server sends neither 1xx responses nor a
\* Content-Length without a body.  (That a result comes rests on fairness.)
THEOREM ServiceImplemented ==
  ASSUME Faults \cap {"idle", "interim", "overread"} = {}
  PROVE  Spec => Service!Init /\ [][Service!Next]_(Service!vars)
<1>1. Init => Service!Init
  BY DEF Init, Service!Init, Service!Unsettled, Status, Clients
<1>2. Reliable /\ Straight /\ [Next]_vars => [Service!Next]_(Service!vars)
  <2>. SUFFICES ASSUME Reliable, Straight, [Next]_vars PROVE [Service!Next]_(Service!vars)
    OBVIOUS
  <2>1. ASSUME NEW p \in Clients,
               InitFound(p) \/ InitMakeR(p) \/ InitMakeW(p)
                 \/ (p \in Calls /\ CallStep(p)) \/ (p \in Polls /\ PollCount(p))
        PROVE  [Service!Next]_(Service!vars)
    BY <2>1, ServiceStepCaller
  <2>2. ASSUME NEW g \in Gens, SupStep(g) \/ WriterStep(g) \/ ReaderStep(g)
        PROVE  [Service!Next]_(Service!vars)
    BY <2>2, ServiceStepWorker
  <2>3. CASE UNCHANGED vars
    BY <2>3, ServiceSame DEF vars, Reliable
  <2>4. CASE Next
    BY <2>1, <2>2, <2>4 DEF Next, Clients
  <2>. QED  BY <2>3, <2>4
<1>3. Spec => []Reliable
  <2>1. "idle" \notin Faults
    OBVIOUS
  <2>. QED  BY <2>1, ReliableAlways
<1>4. Spec => []Straight
  <2>1. Faults \cap {"interim", "overread"} = {}
    OBVIOUS
  <2>2. Reliable /\ Straight /\ [Next]_vars => Straight'
    BY <2>1, StraightStep DEF Reliable
  <2>. QED  BY <1>3, <2>2, StraightInit, PTL DEF Spec
<1>. QED  BY <1>1, <1>2, <1>3, <1>4, PTL DEF Spec

===============================================================================
