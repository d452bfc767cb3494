----------------------------- MODULE PipelineConn -----------------------------
(***************************************************************************)
(* One pipelineConnClient of clientpipeline/client.go: the callers of Do   *)
(* and PendingRequests, and the goroutines that serve them.                *)
(*                                                                         *)
(*   caller --chW--> writer --conn--> server                               *)
(*                     |                 |                                 *)
(*                     +-----chR-----> reader --done--> caller             *)
(*                                                                         *)
(* init allocates a pair of channels and starts a supervisor goroutine     *)
(* that runs one worker (a connection with its writer and reader) after    *)
(* another.  Each allocation is a generation: generation g names the two   *)
(* channels made by the g-th allocation, the supervisor it started, and    *)
(* the worker that supervisor is running.  Nil is the nil channel.         *)
(*                                                                         *)
(* A step is what a goroutine does between two points where another        *)
(* goroutine can interfere.  The fields chR and chW are written under      *)
(* chLock but read without it by Do, by writer, by reader and by the       *)
(* supervisor, so each of these reads is a step of its own, and so is each *)
(* of the two assignments in a critical section.                           *)
(***************************************************************************)
EXTENDS Naturals, Sequences

CONSTANTS
  Calls,                \* invocations of Do, each with its pipelineWork
  Polls,                \* invocations of PendingRequests
  NoCall,               \* no work in hand, no response read
  MaxPendingRequests,   \* capacity of chR and of chW
  MaxGens,              \* bound on the number of channel allocations
  Faults                \* what may go wrong: see FaultKinds

\* A dial that fails; a connection error seen by the writer; a response that
\* the reader cannot read, or not to its end (ReadTimeout included); the
\* writer's idle timer elapsing; a 1xx response before the final one; and the
\* Content-Length of a response without a body (to HEAD, or 304).
FaultKinds == {"dial", "write", "read", "idle", "interim", "overread"}

ASSUME ConnAssumption ==
  /\ Calls \cap Polls = {}
  /\ NoCall \notin Calls
  /\ MaxPendingRequests \in Nat \ {0}
  /\ MaxGens \in Nat \ {0}
  /\ Faults \subseteq FaultKinds

Clients == Calls \cup Polls
Gens    == 1 .. MaxGens
Nil     == 0
Refs    == 0 .. MaxGens
Hands   == Calls \cup {NoCall}

VARIABLES
  chR, chW,  \* the fields of pipelineConnClient
  qR, qW,    \* contents of the channels of each generation
  call,      \* callers: position, and the channel a select has evaluated
  pending,   \* what PendingRequests returned
  work,      \* pipelineWork: done is its channel, of capacity 1; resp is the
             \*   call whose response was parsed into it, and stray whether
             \*   the connection was shifted when it was (history)
  sup,       \* supervisors: position, error of worker, channel evaluated
  wr,        \* writers: position, chR and chW as loaded, w, error returned,
             \*   and flush, which is flushTimerCh # nil
  rd,        \* readers: position, chR as loaded, w, error returned
  conn       \* connections: wire, the requests written whose response is not
             \*   read yet, oldest first; flushed, how many of them left bw;
             \*   torn, br is inside a response that was given up; shifted,
             \*   a Read took more or less than one response (history)

fields == <<chR, chW>>
queues == <<qR, qW>>
vars == <<fields, queues, call, pending, work, sup, wr, rd, conn>>

ClientPCs == {"idle", "makeW", "count", "evalSend", "send", "evalEvict",
              "evict", "evalResend", "resend", "wait", "ret"}
SupPCs    == {"none", "dial", "run", "joinR", "joinW", "drain", "drainEval",
              "drainRecv", "blame", "blameRecv", "decide", "nilW", "gone"}
WriterPCs == {"off", "loadR", "loadW", "fast", "slow", "write", "putFast",
              "putSlow", "exit"}
ReaderPCs == {"off", "load", "fast", "slow", "read", "exit"}
Errors    == {"nil", "overflow", "stopped", "dial", "write", "read"}

\* Types, and a channel never holds more than its capacity.
TypeOK ==
  /\ chR \in Refs /\ chW \in Refs
  /\ qR \in [Gens -> Seq(Calls)] /\ qW \in [Gens -> Seq(Calls)]
  /\ \A g \in Gens : /\ Len(qR[g]) <= MaxPendingRequests
                     /\ Len(qW[g]) <= MaxPendingRequests
  /\ call \in [Clients -> [pc : ClientPCs, ch : Refs]]
  /\ pending \in [Polls -> Nat]
  /\ work \in [Calls -> [done : BOOLEAN, err : Errors, resp : Hands,
                        stray : BOOLEAN]]
  /\ sup \in [Gens -> [pc : SupPCs, err : Errors, ch : Refs]]
  /\ wr \in [Gens -> [pc : WriterPCs, chR : Refs, chW : Refs, w : Hands,
                      err : Errors, flush : BOOLEAN]]
  /\ rd \in [Gens -> [pc : ReaderPCs, chR : Refs, w : Hands, err : Errors]]
  /\ conn \in [Gens -> [wire : Seq(Calls), flushed : Nat, torn : BOOLEAN,
                        shifted : BOOLEAN]]

NoWriter == [pc |-> "off", chR |-> Nil, chW |-> Nil, w |-> NoCall,
             err |-> "nil", flush |-> FALSE]
NoReader == [pc |-> "off", chR |-> Nil, w |-> NoCall, err |-> "nil"]
NoConn   == [wire |-> <<>>, flushed |-> 0, torn |-> FALSE, shifted |-> FALSE]

Init ==
  /\ chR = Nil /\ chW = Nil
  /\ qR = [g \in Gens |-> <<>>] /\ qW = [g \in Gens |-> <<>>]
  /\ call = [p \in Clients |-> [pc |-> "idle", ch |-> Nil]]
  /\ pending = [q \in Polls |-> 0]
  /\ work = [p \in Calls |-> [done |-> FALSE, err |-> "nil", resp |-> NoCall,
                            stray |-> FALSE]]
  /\ sup = [g \in Gens |-> [pc |-> "none", err |-> "nil", ch |-> Nil]]
  /\ wr = [g \in Gens |-> NoWriter]
  /\ rd = [g \in Gens |-> NoReader]
  /\ conn = [g \in Gens |-> NoConn]

-------------------------------------------------------------------------------
\* chLock is held exactly between the two assignments of a critical section.
LockFree == /\ \A p \in Clients : call[p].pc # "makeW"
            /\ \A g \in Gens : sup[g].pc # "nilW"

\* Mutant: off by one at the capacity.
CanSendOneMore(c, q) == c # Nil /\ Len(q[c]) <= MaxPendingRequests

\* Operations on a channel: on Nil neither is ever ready.
CanSend(c, q) == c # Nil /\ Len(q[c]) < MaxPendingRequests
CanRecv(c, q) == c # Nil /\ q[c] # <<>>
Queued(c, q)  == IF c = Nil THEN 0 ELSE Len(q[c])
Capacity(c)   == IF c = Nil THEN 0 ELSE MaxPendingRequests

Put(q, c, p) == [q EXCEPT ![c] = Append(@, p)]
Drop(q, c)   == [q EXCEPT ![c] = Tail(@)]

\* Mutant: the error is stored and the signal forgotten.
SignalForgotten(p, e) == [work EXCEPT ![p].err = e]

\* w.err = e; w.done <- struct{}{}
Signal(p, e) == [work EXCEPT ![p].err = e, ![p].done = TRUE]

\* The worker of g closes conn, then stopR or stopW, on the first result.
Open(g)  == sup[g].pc = "run"
StopR(g) == sup[g].pc = "joinR"

\* Mutant: worker closes stopR where it should close stopW.
StopWSwapped(g) == sup[g].pc = "joinR"

StopW(g) == sup[g].pc = "joinW"

-------------------------------------------------------------------------------
(* Callers.                                                                *)

notCall == <<fields, pending, sup, wr, rd, conn>>

Goto(p, at, next) == /\ call[p].pc = at
                     /\ call' = [call EXCEPT ![p].pc = next]

AfterInit(p) == IF p \in Calls THEN "evalSend" ELSE "count"

InitFound(p) == /\ LockFree /\ chR # Nil
                /\ Goto(p, "idle", AfterInit(p))
                /\ UNCHANGED <<notCall, queues, work>>

InitMakeR(p) ==
  /\ LockFree /\ chR = Nil
  /\ Goto(p, "idle", "makeW")
  /\ \E g \in Gens : /\ sup[g].pc = "none"
                     /\ \A h \in 1 .. (g - 1) : sup[h].pc # "none"
                     /\ chR' = g
  /\ UNCHANGED <<chW, queues, pending, work, sup, wr, rd, conn>>

InitMakeW(p) ==
  /\ Goto(p, "makeW", AfterInit(p))
  /\ chW' = IF chW = Nil THEN chR ELSE chW
  /\ sup' = [sup EXCEPT ![chR].pc = "dial"]
  /\ UNCHANGED <<chR, queues, pending, work, wr, rd, conn>>

PollCount(p) ==
  /\ LockFree
  /\ Goto(p, "count", "ret")
  /\ pending' = [pending EXCEPT ![p] = Queued(chR, qR) + Queued(chW, qW)]
  /\ UNCHANGED <<fields, queues, work, sup, wr, rd, conn>>

\* A select on c.chW loads the field before it tries the channel.
EvalChW(p, at, next) ==
  call[p].pc = at /\ call' = [call EXCEPT ![p].pc = next, ![p].ch = chW]

DoEval(p) ==
  /\ \/ EvalChW(p, "evalSend", "send")
     \/ EvalChW(p, "evalEvict", "evict")
     \/ EvalChW(p, "evalResend", "resend")
  /\ UNCHANGED <<notCall, queues, work>>

DoSend(p) ==
  /\ Goto(p, "send", "wait") \/ Goto(p, "resend", "wait")
  /\ CanSend(call[p].ch, qW)
  /\ qW' = Put(qW, call[p].ch, p)
  /\ UNCHANGED <<notCall, qR, work>>

\* The default branches of the first two selects.
DoDefault(p) ==
  /\ \/ Goto(p, "send", "evalEvict") /\ ~CanSend(call[p].ch, qW)
     \/ Goto(p, "evict", "evalResend") /\ ~CanRecv(call[p].ch, qW)
  /\ UNCHANGED <<notCall, queues, work>>

DoEvict(p) ==
  /\ Goto(p, "evict", "evalResend")
  /\ CanRecv(call[p].ch, qW)
  /\ work' = Signal(Head(qW[call[p].ch]), "overflow")
  /\ qW' = Drop(qW, call[p].ch)
  /\ UNCHANGED <<notCall, qR>>

DoOverflow(p) ==
  /\ Goto(p, "resend", "ret")
  /\ ~CanSend(call[p].ch, qW)
  /\ work' = [work EXCEPT ![p].err = "overflow"]
  /\ UNCHANGED <<notCall, queues>>

\* Mutant: Do reads w.err after releasePipelineWork has cleared it.
ReturnedLate(p) == [work EXCEPT ![p].done = FALSE, ![p].err = "nil"]

Returned(p) == [work EXCEPT ![p].done = FALSE]

DoReturn(p) == /\ Goto(p, "wait", "ret")
               /\ work[p].done
               /\ work' = Returned(p)
               /\ UNCHANGED <<notCall, queues>>

-------------------------------------------------------------------------------
(* Supervisors: the goroutine started by init, and worker, which it calls. *)

notSup == <<call, pending, wr, rd, conn>>

SupGoto(g, at, next) == /\ sup[g].pc = at
                        /\ sup' = [sup EXCEPT ![g].pc = next]

SupFail(g, at, next, e) ==
  sup[g].pc = at /\ sup' = [sup EXCEPT ![g].pc = next, ![g].err = e]

DialOk(g) == /\ SupGoto(g, "dial", "run")
             /\ wr' = [wr EXCEPT ![g].pc = "loadR"]
             /\ rd' = [rd EXCEPT ![g].pc = "load"]
             /\ UNCHANGED <<fields, queues, call, pending, work, conn>>

DialFail(g) == /\ "dial" \in Faults
               /\ SupFail(g, "dial", "blame", "dial")
               /\ UNCHANGED <<notSup, fields, queues, work>>

\* The first of the two results decides what worker returns.
WriterDone(g) == /\ wr[g].pc = "exit"
                 /\ SupFail(g, "run", "joinR", wr[g].err)
                 /\ wr' = [wr EXCEPT ![g].pc = "off"]
                 /\ UNCHANGED <<fields, queues, call, pending, work, rd, conn>>

ReaderDone(g) == /\ rd[g].pc = "exit"
                 /\ SupFail(g, "run", "joinW", rd[g].err)
                 /\ rd' = [rd EXCEPT ![g].pc = "off"]
                 /\ UNCHANGED <<fields, queues, call, pending, work, wr, conn>>

\* Both goroutines have returned: their locals and the connection are gone.
Join(g) == /\ \/ rd[g].pc = "exit" /\ SupGoto(g, "joinR", "drain")
              \/ wr[g].pc = "exit" /\ SupGoto(g, "joinW", "drain")
           /\ wr' = [wr EXCEPT ![g] = NoWriter]
           /\ rd' = [rd EXCEPT ![g] = NoReader]
           /\ conn' = [conn EXCEPT ![g] = NoConn]
           /\ UNCHANGED <<fields, queues, call, pending, work>>

\* Mutant: worker returns without draining chR.
DrainedAnyway == TRUE

Drained == Queued(chR, qR) = 0

\* for len(c.chR) > 0; without an error the supervisor goes on to decide.
DrainLoop(g) ==
  /\ \/ SupGoto(g, "drain", "drainEval") /\ ~Drained
     \/ /\ SupGoto(g, "drain", IF sup[g].err = "nil" THEN "decide" ELSE "blame")
        /\ Drained
  /\ UNCHANGED <<notSup, fields, queues, work>>

\* A receive loads the field, then blocks on the channel it found there.
EvalCh(g, at, next, c) ==
  sup[g].pc = at /\ sup' = [sup EXCEPT ![g].pc = next, ![g].ch = c]

EvalRecv(g) ==
  /\ \/ EvalCh(g, "drainEval", "drainRecv", chR)
     \/ EvalCh(g, "blame", "blameRecv", chW)
  /\ UNCHANGED <<notSup, fields, queues, work>>

DrainRecv(g) == /\ SupGoto(g, "drainRecv", "drain")
                /\ CanRecv(sup[g].ch, qR)
                /\ work' = Signal(Head(qR[sup[g].ch]), "stopped")
                /\ qR' = Drop(qR, sup[g].ch)
                /\ UNCHANGED <<notSup, fields, qW>>

\* worker failed: the next queued request is answered with its error.
BlameRecv(g) == /\ SupGoto(g, "blameRecv", "dial")
                /\ CanRecv(sup[g].ch, qW)
                /\ work' = Signal(Head(qW[sup[g].ch]), sup[g].err)
                /\ qW' = Drop(qW, sup[g].ch)
                /\ UNCHANGED <<notSup, fields, qR>>

Stoppable == Queued(chR, qR) = 0 /\ Queued(chW, qW) = 0

DecideStop(g) == /\ LockFree /\ Stoppable
                 /\ SupGoto(g, "decide", "gone")
                 /\ UNCHANGED <<notSup, fields, queues, work>>

DecideNilR(g) == /\ LockFree /\ ~Stoppable
                 /\ SupGoto(g, "decide", "nilW")
                 /\ chR' = Nil
                 /\ UNCHANGED <<notSup, chW, queues, work>>

DecideNilW(g) == /\ SupGoto(g, "nilW", "dial")
                 /\ chW' = Nil
                 /\ UNCHANGED <<notSup, chR, queues, work>>

-------------------------------------------------------------------------------
(* Writers.                                                                *)

notWriter == <<fields, call, pending, sup, rd>>

WGoto(g, at, next) == /\ wr[g].pc \in at
                      /\ wr' = [wr EXCEPT ![g].pc = next]

\* Without a flush, or with everything in bw delivered.
Unflushed     == UNCHANGED conn
FlushedAll(g) == /\ Open(g)
                 /\ conn' = [conn EXCEPT ![g].flushed = Len(conn[g].wire)]

WriterLoad(g) ==
  /\ \/ /\ wr[g].pc = "loadR"
        /\ wr' = [wr EXCEPT ![g].pc = "loadW", ![g].chR = chR]
     \/ /\ wr[g].pc = "loadW"
        /\ wr' = [wr EXCEPT ![g].pc = "fast", ![g].chW = chW]
  /\ UNCHANGED <<notWriter, queues, work, conn>>

WriterTake(g) ==
  /\ wr[g].pc \in {"fast", "slow"}
  /\ CanRecv(wr[g].chW, qW)
  /\ wr' = [wr EXCEPT ![g].pc = "write", ![g].w = Head(qW[wr[g].chW])]
  /\ qW' = Drop(qW, wr[g].chW)
  /\ UNCHANGED <<notWriter, qR, work, conn>>

\* The default branch of a select: nothing ready, enter the blocking one.
WriterBlock(g) ==
  /\ \/ WGoto(g, {"fast"}, "slow") /\ ~CanRecv(wr[g].chW, qW)
     \/ WGoto(g, {"putFast"}, "putSlow") /\ ~CanSend(wr[g].chR, qR)
  /\ UNCHANGED <<notWriter, queues, work, conn>>

WriterFlush(g) ==
  /\ wr[g].flush /\ FlushedAll(g)
  /\ wr[g].pc \in {"slow", "putSlow"}
  /\ wr' = [wr EXCEPT ![g].flush = FALSE,
                      ![g].pc = IF @ = "slow" THEN "fast" ELSE "putFast"]
  /\ UNCHANGED <<notWriter, queues, work>>

\* return e, with the deferred bw.Flush().
WriterExit(g, at, e) ==
  /\ wr[g].pc = at
  /\ wr' = [wr EXCEPT ![g].pc = "exit", ![g].w = NoCall, ![g].err = e]
  /\ Unflushed \/ FlushedAll(g)
  /\ UNCHANGED <<notWriter, queues>>

WriterCanFail(g) == "write" \in Faults \/ ~Open(g)

\* Returns from the blocking select on chW: stopTimer, stopCh, a flush error.
WriterQuit(g) ==
  /\ \/ ("idle" \in Faults \/ StopW(g)) /\ WriterExit(g, "slow", "nil")
     \/ wr[g].flush /\ WriterCanFail(g) /\ WriterExit(g, "slow", "write")
  /\ UNCHANGED work

\* Returns with w in hand: a write error, stopCh, a flush error.
WriterDrop(g) ==
  \/ /\ WriterCanFail(g) /\ WriterExit(g, "write", "write")
     /\ work' = Signal(wr[g].w, "write")
  \/ /\ StopW(g) /\ WriterExit(g, "putSlow", "nil")
     /\ work' = Signal(wr[g].w, "stopped")
  \/ /\ wr[g].flush /\ WriterCanFail(g) /\ WriterExit(g, "putSlow", "write")
     /\ work' = Signal(wr[g].w, "write")

\* Mutant: only a full chR arms the timer.
ArmsFlushLate(g) == Queued(wr[g].chR, qR) = Capacity(wr[g].chR)

\* The flush timer is armed when nothing else is about to be written.
ArmsFlush(g) == \/ Queued(wr[g].chW, qW) = 0
                \/ Queued(wr[g].chR, qR) = Capacity(wr[g].chR)

\* bw keeps the request, or sends what it holds once its buffer is full.
WriterWrite(g) ==
  /\ wr[g].pc = "write"
  /\ wr' = [wr EXCEPT ![g].pc = "putFast", ![g].flush = @ \/ ArmsFlush(g)]
  /\ \E n \in 0 .. Len(conn[g].wire) + 1 :
       /\ n = conn[g].flushed \/ (Open(g) /\ n >= Len(conn[g].wire))
       /\ conn' = [conn EXCEPT ![g].wire = Append(@, wr[g].w), ![g].flushed = n]
  /\ UNCHANGED <<notWriter, queues, work>>

WriterPut(g) ==
  /\ wr[g].pc \in {"putFast", "putSlow"}
  /\ CanSend(wr[g].chR, qR)
  /\ qR' = Put(qR, wr[g].chR, wr[g].w)
  /\ wr' = [wr EXCEPT ![g].pc = "fast", ![g].w = NoCall]
  /\ UNCHANGED <<notWriter, qW, work, conn>>

-------------------------------------------------------------------------------
(* Readers.                                                                *)

notReader == <<fields, call, pending, sup, wr>>

ReaderLoad(g) == /\ rd[g].pc = "load"
                 /\ rd' = [rd EXCEPT ![g].pc = "fast", ![g].chR = chR]
                 /\ UNCHANGED <<notReader, queues, work, conn>>

ReaderTake(g) ==
  /\ rd[g].pc \in {"fast", "slow"}
  /\ CanRecv(rd[g].chR, qR)
  /\ rd' = [rd EXCEPT ![g].pc = "read", ![g].w = Head(qR[rd[g].chR])]
  /\ qR' = Drop(qR, rd[g].chR)
  /\ UNCHANGED <<notReader, qW, work, conn>>

ReaderBlock(g) == /\ rd[g].pc = "fast"
                  /\ ~CanRecv(rd[g].chR, qR)
                  /\ rd' = [rd EXCEPT ![g].pc = "slow"]
                  /\ UNCHANGED <<notReader, queues, work, conn>>

ReaderStop(g) == /\ rd[g].pc = "slow" /\ StopR(g)
                 /\ rd' = [rd EXCEPT ![g].pc = "exit", ![g].err = "nil"]
                 /\ UNCHANGED <<notReader, queues, work, conn>>

ReaderCanFail(g) == "read" \in Faults \/ ~Open(g)

\* How many of the responses that were sent one Read takes from br.  None of
\* them if it stops after the head of a 1xx response; ReadBody takes
\* Content-Length bytes of whatever follows a head that has no body.
Takes(n) == \/ n = 1
            \/ n = 0 /\ "interim" \in Faults
            \/ n > 1 /\ "overread" \in Faults

\* The server answers in the order of the requests, and what it answered may
\* still be in br after conn was closed.  Read returns nil too when it could
\* read no more than the status line, leaves a body without a Content-Length
\* where it is, and ReadBody may end within a later response: the next Read
\* then begins inside a response.
ReaderRead(g) ==
  /\ rd[g].pc = "read"
  /\ conn[g].flushed > 0 /\ ~conn[g].torn
  /\ rd' = [rd EXCEPT ![g].pc = "fast", ![g].w = NoCall]
  /\ work' = [work EXCEPT ![rd[g].w].resp = Head(conn[g].wire),
                          ![rd[g].w].stray = conn[g].shifted,
                          ![rd[g].w].done = TRUE]
  /\ \E n \in 0 .. conn[g].flushed, tears \in BOOLEAN :
       /\ Takes(n)
       /\ tears => ReaderCanFail(g) \/ ("overread" \in Faults /\ n < conn[g].flushed)
       /\ conn' = [conn EXCEPT ![g].wire = SubSeq(@, n + 1, Len(@)),
                               ![g].flushed = @ - n, ![g].torn = tears,
                               ![g].shifted = @ \/ n # 1]
  /\ UNCHANGED <<notReader, queues>>

\* Mutant: after an error the reader goes on to the next work.
AfterReadError == "fast"

ReadError == "exit"

\* Inside a response Read finds no status line.
ReaderFail(g) ==
  /\ rd[g].pc = "read"
  /\ ReaderCanFail(g) \/ conn[g].torn
  /\ rd' = [rd EXCEPT ![g].pc = ReadError, ![g].w = NoCall, ![g].err = "read"]
  /\ work' = Signal(rd[g].w, "read")
  /\ UNCHANGED <<notReader, queues, conn>>

-------------------------------------------------------------------------------
CallStep(p) == \/ DoEval(p) \/ DoSend(p) \/ DoDefault(p) \/ DoEvict(p)
               \/ DoOverflow(p) \/ DoReturn(p)

SupStep(g) == \/ DialOk(g) \/ DialFail(g) \/ WriterDone(g) \/ ReaderDone(g)
              \/ Join(g) \/ DrainLoop(g) \/ EvalRecv(g) \/ DrainRecv(g)
              \/ BlameRecv(g) \/ DecideStop(g) \/ DecideNilR(g)
              \/ DecideNilW(g)

WriterStep(g) == \/ WriterLoad(g) \/ WriterTake(g) \/ WriterBlock(g)
                 \/ WriterFlush(g) \/ WriterQuit(g) \/ WriterDrop(g)
                 \/ WriterWrite(g) \/ WriterPut(g)

ReaderStep(g) == \/ ReaderLoad(g) \/ ReaderTake(g) \/ ReaderBlock(g)
                 \/ ReaderStop(g) \/ ReaderRead(g) \/ ReaderFail(g)

Next == \/ \E p \in Clients : InitFound(p) \/ InitMakeR(p) \/ InitMakeW(p)
        \/ \E p \in Calls : CallStep(p)
        \/ \E q \in Polls : PollCount(q)
        \/ \E g \in Gens : SupStep(g) \/ WriterStep(g) \/ ReaderStep(g)

Spec == Init /\ [][Next]_vars

\* A reader goes on without help of the ReadTimeout, except inside a response.
ReaderRuns(g) ==
  \/ ReaderLoad(g) \/ ReaderTake(g) \/ ReaderBlock(g) \/ ReaderStop(g)
  \/ ReaderRead(g)
  \/ ReaderFail(g) /\ (~Open(g) \/ conn[g].torn)

\* Go schedules every goroutine that can run, and the server answers what it
\* was sent.  A caller need never call, and no fault need happen.
Fairness ==
  /\ \A p \in Clients : WF_vars(InitMakeW(p))
  /\ \A p \in Calls : WF_vars(CallStep(p))
  /\ \A q \in Polls : WF_vars(PollCount(q))
  /\ \A g \in Gens : /\ WF_vars(SupStep(g))
                     /\ WF_vars(WriterStep(g))
                     /\ WF_vars(ReaderRuns(g))

FairSpec == Spec /\ Fairness

-------------------------------------------------------------------------------
(* Properties.                                                             *)

\* Where a work can be: in a channel, or in the hand of a writer or reader.
Contents(q) == {p \in Calls : \E g \in Gens : \E i \in DOMAIN q[g] : q[g][i] = p}
InHands(f)  == {p \in Calls : \E g \in Gens : f[g].w = p}

NoRepeats(q) ==
  \A g, h \in Gens : \A i \in DOMAIN q[g], j \in DOMAIN q[h] :
    q[g][i] = q[h][j] => g = h /\ i = j
OneHand(f) ==
  \A g, h \in Gens : f[g].w = f[h].w /\ f[g].w # NoCall => g = h

Waiting == {p \in Calls : call[p].pc = "wait" /\ ~work[p].done}

\* While a caller waits and has not been signalled, its work is in exactly one
\* place; once signalled or returned it is in none, and done is empty when the
\* work goes back to workPool.  So no work is lost between two goroutines,
\* none is signalled twice (the second send on done would block its sender or
\* wake the next user of the pooled work), and none is read after its release.
WorkAccounted ==
  /\ \A p \in Calls : work[p].done => call[p].pc = "wait"
  /\ NoRepeats(qW) /\ NoRepeats(qR) /\ OneHand(wr) /\ OneHand(rd)
  /\ Contents(qW) \cap Contents(qR) = {}
  /\ InHands(wr) \cap InHands(rd) = {}
  /\ (Contents(qW) \cup Contents(qR)) \cap (InHands(wr) \cup InHands(rd)) = {}
  /\ Contents(qW) \cup Contents(qR) \cup InHands(wr) \cup InHands(rd) = Waiting

\* What the reader of g will take next, in order: the work in its hand, chR,
\* then the work the writer wrote and still has to put into chR.
Hand(p) == IF p = NoCall THEN <<>> ELSE <<p>>
Putting(g) == wr[g].pc \in {"putFast", "putSlow"}
Awaited(g) == Hand(rd[g].w) \o qR[g] \o
                IF Putting(g) THEN Hand(wr[g].w) ELSE <<>>

\* As long as the reader of a connection runs, the works it is going to read
\* responses for are, in this order, the oldest unanswered requests on that
\* connection, although a work enters chR after its request was written and
\* both goroutines drop works on errors; until a Read takes more or less than
\* one response, and again on the next connection.  (Of one supervisor: where the
\* idle timer makes a second one, which shares its channels, it does not hold.)
PipelineOrder ==
  \A g \in Gens :
    rd[g].pc \in {"load", "fast", "slow", "read"} /\ ~conn[g].shifted =>
      /\ Len(Awaited(g)) <= Len(conn[g].wire)
      /\ \A i \in DOMAIN Awaited(g) : conn[g].wire[i] = Awaited(g)[i]

\* Do returns without an error only with the response to its own request, but
\* for calls whose response came after a shift of their connection: nothing
\* else, no error, eviction or restart of a worker, mixes responses up, and a
\* shift does not outlive its connection.  (Of one supervisor, too: with a second
\* one responses are mixed up.)
ResponseMatch ==
  \A p \in Calls :
    call[p].pc = "ret" /\ work[p].err = "nil" /\ ~work[p].stray => work[p].resp = p

\* Do "sends a http request and returns a response" (pipelineclient.go:52): its
\* own.  The code breaks it where a server sends a 1xx response, or a
\* Content-Length without a body.
OwnResponse ==
  \A p \in Calls : call[p].pc = "ret" /\ work[p].err = "nil" => work[p].resp = p

\* A call gets ErrPipelineOverflow, whether its own send failed or another
\* call replaced it, only in a step in which chW holds MaxPendingRequests works.
\* The code breaks it: the writer may make room before Do replaces the work.
OverflowOnlyWhenFull ==
  [][\A p \in Calls : work'[p].err = "overflow" /\ work[p].err # "overflow" =>
       /\ chW # Nil
       /\ Len(qW[chW]) = MaxPendingRequests]_vars

\* Every call that reached the queue ends: with no error, the writer flushes
\* what it wrote and the reader reads it; after an error somebody still holds
\* the work and signals it.
EveryCallReturns ==
  \A p \in Calls : call[p].pc # "idle" ~> call[p].pc = "ret"

\* Once one of the two goroutines of a worker returned, the other one notices
\* stopW, stopR or the closed connection wherever it is blocked, and the worker
\* drains chR and returns, instead of waiting on doneW, on doneR, or on a chR that
\* somebody else emptied, for ever.
ShutdownCompletes ==
  \A g \in Gens :
    sup[g].pc \in {"joinR", "joinW"} ~> sup[g].pc \in {"blame", "decide"}

\* The caller's view of the pipeline.
Status(p) == IF call[p].pc = "idle" THEN "new"
             ELSE IF call[p].pc = "ret" THEN "returned"
             ELSE IF work[p].done THEN "settled" ELSE "open"

Service == INSTANCE PipelineService WITH
  Errors  <- Errors \ {"nil"},
  status  <- [p \in Calls |-> Status(p)],
  outcome <- [p \in Calls |-> IF Status(p) \in {"settled", "returned"}
                                THEN <<work[p].err, work[p].resp>>
                                ELSE <<"none", NoCall>>]

\* The pipeline implements PipelineService: results are fixed when they are
\* signalled, belong to the call, and always come.  (Without the idle timer, and
\* where the server sends neither 1xx responses nor a Content-Length without a
\* body.)
ImplementsService == Service!Spec
===============================================================================
