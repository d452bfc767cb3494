------------------------------ MODULE PipeConns ------------------------------
(***************************************************************************)
(* One direction of a PipeConns, clientpipeline/pipeconns.go: a goroutine  *)
(* that writes to one of the two connections, a goroutine that reads from  *)
(* the other, the channel between them, the deadlines, and Close of        *)
(* either.  The other direction is the same and shares only stopCh.  A     *)
(* byteBuffer is the bytes in it: each is owned by one goroutine at a time,*)
(* or by the channel, until it goes back to the pool.                      *)
(*                                                                         *)
(* A deadline channel is nil, the channel of a timer, or closedDeadlineCh. *)
(* SetReadDeadline, whose field has a lock, may be called while Read runs; *)
(* SetWriteDeadline, whose field has none, only between Writes.            *)
(***************************************************************************)
EXTENDS Naturals, Sequences

CONSTANTS
  Capacity,  \* of the channel
  MaxBytes,  \* bound on the bytes written
  MaxWrite,  \* longest slice passed to Write
  MaxRead,   \* longest slice passed to Read
  Deadlines  \* of SetReadDeadline and SetWriteDeadline: see DeadlineChs

\* None, a time to come, and a time that passed.
DeadlineChs == {"nil", "timer", "closed"}

ASSUME PipeAssumption ==
  /\ Deadlines \subseteq DeadlineChs
  /\ Capacity \in Nat \ {0} /\ MaxBytes \in Nat
  /\ MaxWrite \in Nat \ {0} /\ MaxRead \in Nat \ {0}

VARIABLES
  ch,             \* the channel: the bytes of each buffer
  stopped,        \* stopCh is closed
  wr,             \* Write: position, its bytes, deadline channel of its select
  rd,             \* Read: position, bytes wanted, mayBlock, deadline channel of
                  \*   its select
  bb,             \* c.bb: bytes received and not yet read
  rDeadline, wDeadline,  \* the fields readDeadlineCh and writeDeadlineCh
  rTimer, wTimer,        \* timers: running, and whether C holds a value
  sent, got,      \* history: number of bytes accepted, bytes read
  atClose         \* history: sent when Close was called

vars == <<ch, stopped, wr, rd, bb, rDeadline, wDeadline,
          rTimer, wTimer, sent, got, atClose>>

deadlines == <<rDeadline, wDeadline, rTimer, wTimer>>

Timers      == [armed : BOOLEAN, fired : BOOLEAN]
Bytes       == Seq(1 .. MaxBytes)

TypeOK ==
  /\ ch \in Seq(Bytes) /\ Len(ch) <= Capacity
  /\ stopped \in BOOLEAN
  /\ wr \in [pc : {"idle", "test", "fast", "slow"}, b : Bytes, dl : DeadlineChs]
  /\ rd \in [pc : {"idle", "loop", "slow", "lastTimeout", "lastEOF"},
             want : 0 .. MaxRead, mayBlock : BOOLEAN, dl : DeadlineChs]
  /\ bb \in Bytes
  /\ rDeadline \in DeadlineChs /\ wDeadline \in DeadlineChs
  /\ rTimer \in Timers /\ wTimer \in Timers
  /\ sent \in 0 .. MaxBytes /\ atClose \in 0 .. MaxBytes
  /\ got \in Bytes

Stopped == [armed |-> FALSE, fired |-> FALSE]
NoWrite == [pc |-> "idle", b |-> <<>>, dl |-> "nil"]
NoRead  == [pc |-> "idle", want |-> 0, mayBlock |-> FALSE, dl |-> "nil"]

Init ==
  /\ ch = <<>> /\ stopped = FALSE
  /\ wr = NoWrite /\ rd = NoRead /\ bb = <<>>
  /\ rDeadline = "nil" /\ wDeadline = "nil"
  /\ rTimer = Stopped /\ wTimer = Stopped
  /\ sent = 0 /\ got = <<>> /\ atClose = 0

-------------------------------------------------------------------------------
(* Deadlines.                                                              *)

Ready(dl, timer) == dl = "closed" \/ (dl = "timer" /\ timer.fired)

\* A receive from the channel of a timer takes its only value.
Received(dl, timer) == IF dl = "timer" THEN [timer EXCEPT !.fired = FALSE] ELSE timer

\* updateTimer: the timer is stopped and drained, and started for a time to come.
Updated(dl) == [armed |-> dl = "timer", fired |-> FALSE]

SetReadDeadline(dl) ==
  /\ rTimer' = Updated(dl) /\ rDeadline' = dl
  /\ UNCHANGED <<ch, stopped, wr, rd, bb, wDeadline, wTimer,
                 sent, got, atClose>>

SetWriteDeadline(dl) ==
  /\ wr.pc = "idle"
  /\ wTimer' = Updated(dl) /\ wDeadline' = dl
  /\ UNCHANGED <<ch, stopped, wr, rd, bb, rDeadline, rTimer,
                 sent, got, atClose>>

Fire(timer) == timer.armed /\ timer' = [armed |-> FALSE, fired |-> TRUE]

FireRead == /\ Fire(rTimer)
            /\ UNCHANGED <<ch, stopped, wr, rd, bb, rDeadline,
                           wDeadline, wTimer, sent, got, atClose>>

FireWrite == /\ Fire(wTimer)
             /\ UNCHANGED <<ch, stopped, wr, rd, bb, rDeadline,
                            wDeadline, rTimer, sent, got, atClose>>

\* Mutant: the timer's channel stays in the field after a timeout.
AfterTimeoutKept(field) == field

\* A deadline that passed stays passed until another one is set.
AfterTimeout(field) == "closed"

\* Close of PipeConns or of either connection; a second one changes nothing.
Close ==
  /\ ~stopped
  /\ stopped' = TRUE /\ atClose' = sent
  /\ UNCHANGED <<ch, wr, rd, bb, deadlines, sent, got>>

-------------------------------------------------------------------------------
(* Write.                                                                  *)

Write(n) ==
  /\ wr.pc = "idle" /\ sent + n <= MaxBytes
  /\ wr' = [wr EXCEPT !.pc = "test", !.b = [i \in 1 .. n |-> sent + i]]
  /\ UNCHANGED <<ch, stopped, rd, bb, deadlines, sent, got, atClose>>

Closed ==
  /\ wr' = NoWrite
  /\ UNCHANGED <<ch, stopped, rd, bb, deadlines, sent, got, atClose>>

WriteTest ==
  /\ wr.pc = "test"
  /\ \/ stopped /\ Closed
     \/ /\ ~stopped
        /\ wr' = [wr EXCEPT !.pc = "fast"]
        /\ UNCHANGED <<ch, stopped, rd, bb, deadlines, sent,
                       got, atClose>>

\* Mutant: off by one at the capacity.
HasRoomOneMore == Len(ch) <= Capacity

HasRoom == Len(ch) < Capacity

SendBuffer ==
  /\ HasRoom
  /\ ch' = Append(ch, wr.b) /\ sent' = sent + Len(wr.b)
  /\ wr' = NoWrite
  /\ UNCHANGED <<stopped, rd, bb, deadlines, got, atClose>>

WriteFast ==
  /\ wr.pc = "fast"
  /\ \/ SendBuffer
     \/ /\ ~HasRoom
        /\ wr' = [wr EXCEPT !.pc = "slow", !.dl = wDeadline]
        /\ UNCHANGED <<ch, stopped, rd, bb, deadlines, sent,
                       got, atClose>>

WriteTimeout ==
  /\ Ready(wr.dl, wTimer)
  /\ wTimer' = Received(wr.dl, wTimer)
  /\ wDeadline' = AfterTimeout(wDeadline)
  /\ wr' = NoWrite
  /\ UNCHANGED <<ch, stopped, rd, bb, rDeadline, rTimer,
                 sent, got, atClose>>

\* Mutant: the select does not wait for stopCh.
StopSeenNever == FALSE

StopSeen == stopped

WriteSlow ==
  /\ wr.pc = "slow"
  /\ \/ SendBuffer
     \/ WriteTimeout
     \/ StopSeen /\ Closed

-------------------------------------------------------------------------------
(* Read.                                                                   *)

Read(n) ==
  /\ rd.pc = "idle"
  /\ rd' = [rd EXCEPT !.pc = "loop", !.want = n, !.mayBlock = TRUE]
  /\ UNCHANGED <<ch, stopped, wr, bb, deadlines, sent, got, atClose>>

Copied == IF Len(bb) < rd.want THEN Len(bb) ELSE rd.want

\* Mutant: c.bb is cut only when p has room for more.
NotCopiedKept == IF Copied = rd.want THEN bb ELSE <<>>

NotCopied == SubSeq(bb, Copied + 1, Len(bb))

ReadCopy ==
  /\ rd.pc = "loop" /\ bb # <<>>
  /\ got' = got \o SubSeq(bb, 1, Copied)
  /\ bb' = NotCopied
  /\ rd' = IF Copied = rd.want THEN NoRead
           ELSE [rd EXCEPT !.want = @ - Copied, !.mayBlock = FALSE]
  /\ UNCHANGED <<ch, stopped, wr, deadlines, sent, atClose>>

\* c.b = <-c.rCh; also an empty buffer is one, after which Read does not block.
TakeBuffer ==
  /\ ch # <<>>
  /\ bb' = Head(ch) /\ ch' = Tail(ch)
  /\ rd' = [rd EXCEPT !.pc = "loop", !.mayBlock = FALSE, !.dl = "nil"]

ReadNext ==
  /\ rd.pc = "loop" /\ bb = <<>>
  /\ \/ TakeBuffer
     \/ /\ ch = <<>> /\ UNCHANGED <<ch, bb>>
        /\ rd' = IF rd.mayBlock THEN [rd EXCEPT !.pc = "slow", !.dl = rDeadline]
                 ELSE NoRead
  /\ UNCHANGED <<stopped, wr, deadlines, sent, got, atClose>>

TakeLate == /\ TakeBuffer
            /\ UNCHANGED <<stopped, wr, deadlines, sent, got, atClose>>

ReadTimeout ==
  /\ Ready(rd.dl, rTimer)
  /\ rTimer' = Received(rd.dl, rTimer)
  /\ rd' = [rd EXCEPT !.pc = "lastTimeout"]
  /\ UNCHANGED <<ch, stopped, wr, bb, rDeadline, wDeadline, wTimer,
                 sent, got, atClose>>

ReadSlow ==
  /\ rd.pc = "slow"
  /\ \/ TakeLate
     \/ ReadTimeout
     \/ /\ stopped
        /\ rd' = [rd EXCEPT !.pc = "lastEOF"]
        /\ UNCHANGED <<ch, stopped, wr, bb, deadlines, sent, got,
                       atClose>>

\* Mutant: the error is returned without another look at the channel.
DrainedAtOnce == TRUE

Drained == ch = <<>>

\* The last look at the channel before ErrTimeout or io.EOF; before the former
\* the field is overwritten, even if another deadline was set meanwhile.
ReadLast ==
  /\ rd.pc \in {"lastTimeout", "lastEOF"}
  /\ rDeadline' = IF rd.pc = "lastTimeout" THEN AfterTimeout(rDeadline) ELSE rDeadline
  /\ \/ TakeBuffer
     \/ /\ Drained
        /\ rd' = NoRead
        /\ UNCHANGED <<ch, bb>>
  /\ UNCHANGED <<stopped, wr, wDeadline, rTimer, wTimer, sent, got,
                 atClose>>

-------------------------------------------------------------------------------
WriterStep == WriteTest \/ WriteFast \/ WriteSlow
ReaderStep == ReadCopy \/ ReadNext \/ ReadSlow \/ ReadLast

Next ==
  \/ \E n \in 0 .. MaxWrite : Write(n)
  \/ \E n \in 1 .. MaxRead : Read(n)
  \/ WriterStep \/ ReaderStep
  \/ \E dl \in Deadlines : SetReadDeadline(dl) \/ SetWriteDeadline(dl)
  \/ FireRead \/ FireWrite \/ Close

Spec == Init /\ [][Next]_vars

\* Goroutines are scheduled and timers fire.
Fairness == /\ WF_vars(WriterStep) /\ WF_vars(ReaderStep)
            /\ WF_vars(FireRead) /\ WF_vars(FireWrite)

FairSpec == Spec /\ Fairness

-------------------------------------------------------------------------------
(* Properties.                                                             *)

\* The bytes read are the bytes accepted, in order, each once.
Stream == INSTANCE ByteStream

ImplementsStream == Stream!Spec

\* io.EOF is not returned before everything that was accepted before Close was
\* read, although Close may come at any moment of a Write or a Read.
EofAfterData ==
  [][rd.pc = "lastEOF" /\ rd'.pc = "idle" => Len(got) >= atClose]_vars

\* Close ends every Write and Read that is blocked.
CloseUnblocks == /\ (stopped /\ wr.pc = "slow") ~> wr.pc # "slow"
                 /\ (stopped /\ rd.pc = "slow") ~> rd.pc # "slow"

\* A Write or Read that blocks under a deadline ends, also the next one after
\* a timeout; a Read unless SetReadDeadline stops its timer or goes on moving it.
DeadlineUnblocks ==
  /\ (wr.pc = "slow" /\ wr.dl # "nil") ~> wr.pc # "slow"
  /\ <>[][\A dl \in Deadlines : ~SetReadDeadline(dl)]_vars =>
       (rd.pc = "slow" /\ rd.dl # "nil") ~> (rd.pc # "slow" \/ rTimer = Stopped)
===============================================================================
