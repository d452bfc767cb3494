---------------------------- MODULE PipelineClient ----------------------------
(***************************************************************************)
(* PipelineClient of clientpipeline/client.go, with up to MaxConns         *)
(* connection clients.  Do chooses one under connClientsLock: it asks one  *)
(* after the other for its PendingRequests, which counts the works in chW  *)
(* and chR at that moment and not those in the hands of writer and reader; *)
(* it then sends to the chosen one without the lock, maybe much later.     *)
(*                                                                         *)
(* A connection client is the works in chW, in the hand of writer, in chR  *)
(* and in the hand of reader, and its connection: the requests on it, and  *)
(* whether its writer and its reader still run.  A connection may fail at  *)
(* any time.  The steps of a connection client are those of PipelineConn,  *)
(* coarser, and only where dials, writes and reads fail: no writer ends an *)
(* idle connection, and every Read takes one response (PipelineConn shows  *)
(* what happens where the idle timer elapses, and where the server sends a *)
(* 1xx response or a Content-Length without a body).                       *)
(***************************************************************************)
EXTENDS Integers, Sequences, FiniteSets

CONSTANTS
  Calls,              \* invocations of Do
  NoCall,             \* no call
  Poll,               \* the caller of PendingRequests
  Callers,            \* how many goroutines call Do
  MaxConns,           \* option, the default if it is not positive
  MaxPendingRequests  \* capacity of chR and of chW

ASSUME ClientAssumption ==
  /\ NoCall \notin Calls /\ Poll \notin Calls /\ Poll # NoCall
  /\ Callers \in Nat \ {0}
  /\ MaxConns \in Int
  /\ MaxPendingRequests \in Nat \ {0}

VARIABLES
  connClients,  \* what each connection client holds; wire, the requests that
                \*   its writer took for this connection and whose response is
                \*   not read yet; whether writer and reader run
  lock,         \* holder of connClientsLock
  scan,         \* next client to ask; n, the count of its chR once read; the
                \*   client with the fewest pending requests so far and how
                \*   many; the sum of all counts, which PendingRequests returns
  call,         \* position of Do, client chosen
  poll,         \* position of PendingRequests
  outcome       \* error, and the call whose response it is

vars == <<connClients, lock, scan, call, poll, outcome>>

CallPCs  == {"new", "want", "readR", "readW", "send", "evict", "resend", "wait",
             "returned"}
PollPCs  == {"idle", "readR", "readW"}
Errors   == {"nil", "overflow", "conn"}
Hands    == Calls \cup {NoCall}
Scanners == Calls \cup {Poll}

TypeOK ==
  /\ connClients \in Seq([chW : Seq(Calls), writer : Hands,
                          chR : Seq(Calls), reader : Hands,
                          wire : Seq(Calls), writes : BOOLEAN, reads : BOOLEAN])
  /\ \A i \in DOMAIN connClients :
       /\ Len(connClients[i].chW) <= MaxPendingRequests
       /\ Len(connClients[i].chR) <= MaxPendingRequests
  /\ lock \in Scanners \cup {NoCall}
  /\ scan \in [Scanners -> [next : Nat, n : Nat, min : Nat, minReqs : Nat,
                            sum : Nat]]
  /\ call \in [Calls -> [pc : CallPCs, cc : 0 .. Len(connClients)]]
  /\ poll \in PollPCs
  /\ outcome \in [Calls -> (Errors \cup {"none"}) \X Hands]

Idle      == [chW |-> <<>>, writer |-> NoCall, chR |-> <<>>, reader |-> NoCall,
              wire |-> <<>>, writes |-> TRUE, reads |-> TRUE]
NoScan    == [next |-> 0, n |-> 0, min |-> 0, minReqs |-> 0, sum |-> 0]
Unsettled == <<"none", NoCall>>

Init ==
  /\ connClients = <<>>
  /\ lock = NoCall /\ scan = [s \in Scanners |-> NoScan] /\ poll = "idle"
  /\ call = [p \in Calls |-> [pc |-> "new", cc |-> 0]]
  /\ outcome = [p \in Calls |-> Unsettled]

-------------------------------------------------------------------------------
(* getConnClient and PendingRequests.                                      *)

Open == {p \in Calls : call[p].pc \notin {"new", "returned"}}

\* A goroutine makes one call after another.
Enter(p) ==
  /\ call[p].pc = "new" /\ Cardinality(Open) < Callers
  /\ call' = [call EXCEPT ![p].pc = "want"]
  /\ UNCHANGED <<connClients, lock, scan, poll, outcome>>

Limit == IF MaxConns <= 0 THEN 1 ELSE MaxConns

Release(s) == lock' = NoCall /\ scan' = [scan EXCEPT ![s] = NoScan]

\* newConnClient
New(p) ==
  /\ connClients' = Append(connClients, Idle)
  /\ call' = [call EXCEPT ![p] = [pc |-> "send", cc |-> Len(connClients) + 1]]
  /\ Release(p)

Choose(p, i) ==
  /\ call' = [call EXCEPT ![p] = [pc |-> "send", cc |-> i]]
  /\ Release(p)
  /\ UNCHANGED connClients

Lock(p) ==
  /\ call[p].pc = "want" /\ lock = NoCall
  /\ IF connClients = <<>> THEN New(p)
     ELSE /\ lock' = p
          /\ scan' = [scan EXCEPT ![p].next = 1]
          /\ call' = [call EXCEPT ![p].pc = "readR"]
          /\ UNCHANGED connClients
  /\ UNCHANGED <<poll, outcome>>

\* Mutant: len(chW) + len(chR)
CountOrderSwapped == <<"chW", "chR">>

\* len(chR) + len(chW), read one after the other: chLock does not keep the
\* writer from moving a work from chW to chR in between.
CountOrder == <<"chR", "chW">>

Count(s, k) == Len(connClients[scan[s].next][CountOrder[k]])

ReadFirst(s) == scan' = [scan EXCEPT ![s].n = Count(s, 1)]

Reqs(s) == scan[s].n + Count(s, 2)

\* The first client with the fewest pending requests of those asked so far.
Fewer(s)   == scan[s].min = 0 \/ Reqs(s) < scan[s].minReqs
MinCC(s)   == IF Fewer(s) THEN scan[s].next ELSE scan[s].min
MinReqs(s) == IF Fewer(s) THEN Reqs(s) ELSE scan[s].minReqs

Advance(s) ==
  scan' = [scan EXCEPT ![s] = [next |-> @.next + 1, n |-> 0, min |-> MinCC(s),
                               minReqs |-> MinReqs(s), sum |-> @.sum + Reqs(s)]]

MayGrow == Len(connClients) < Limit

\* Mutant: a client without pending requests is not taken at once.
NonePendingNever(p) == FALSE

NonePending(p) == Reqs(p) = 0

ScanR(p) ==
  /\ call[p].pc = "readR"
  /\ ReadFirst(p)
  /\ call' = [call EXCEPT ![p].pc = "readW"]
  /\ UNCHANGED <<connClients, lock, poll, outcome>>

\* The scan ends at a client without pending requests or after the last one.
ScanW(p) ==
  /\ call[p].pc = "readW"
  /\ \/ /\ NonePending(p)
        /\ Choose(p, scan[p].next)
     \/ /\ ~NonePending(p) /\ scan[p].next < Len(connClients)
        /\ Advance(p)
        /\ call' = [call EXCEPT ![p].pc = "readR"]
        /\ UNCHANGED <<connClients, lock>>
     \/ /\ ~NonePending(p) /\ scan[p].next = Len(connClients)
        /\ IF MayGrow THEN New(p) ELSE Choose(p, MinCC(p))
  /\ UNCHANGED <<poll, outcome>>

PollLock ==
  /\ poll = "idle" /\ lock = NoCall
  /\ lock' = Poll /\ poll' = "readR"
  /\ scan' = [scan EXCEPT ![Poll].next = 1]
  /\ UNCHANGED <<connClients, call, outcome>>

PollR ==
  /\ poll = "readR" /\ scan[Poll].next <= Len(connClients)
  /\ ReadFirst(Poll) /\ poll' = "readW"
  /\ UNCHANGED <<connClients, lock, call, outcome>>

PollW ==
  /\ poll = "readW"
  /\ scan' = [scan EXCEPT ![Poll] = [NoScan EXCEPT !.next = scan[Poll].next + 1,
                                       !.sum = scan[Poll].sum + Reqs(Poll)]]
  /\ poll' = "readR"
  /\ UNCHANGED <<connClients, lock, call, outcome>>

PollReturn ==
  /\ poll = "readR" /\ scan[Poll].next > Len(connClients)
  /\ Release(Poll) /\ poll' = "idle"
  /\ UNCHANGED <<connClients, call, outcome>>

-------------------------------------------------------------------------------
(* Do of the chosen client.                                                *)

Enqueued(p) == [connClients EXCEPT ![call[p].cc].chW = Append(@, p)]

\* Mutant: off by one at the capacity.
HasRoomOneMore(p) == Len(connClients[call[p].cc].chW) <= MaxPendingRequests

HasRoom(p) == Len(connClients[call[p].cc].chW) < MaxPendingRequests

Send(p) ==
  /\ call[p].pc = "send"
  /\ IF HasRoom(p)
     THEN /\ connClients' = Enqueued(p)
          /\ call' = [call EXCEPT ![p].pc = "wait"]
     ELSE /\ call' = [call EXCEPT ![p].pc = "evict"]
          /\ UNCHANGED connClients
  /\ UNCHANGED <<lock, scan, poll, outcome>>

\* Mutant: the oldest work is taken out and its caller not told.
EvictedSilently(p) == outcome

\* The oldest work of chW, if it is still not empty, is failed.
Evicted(p) ==
  LET chW == connClients[call[p].cc].chW IN
  IF chW = <<>> THEN outcome
  ELSE [outcome EXCEPT ![Head(chW)] = <<"overflow", NoCall>>]

Evict(p) ==
  /\ call[p].pc = "evict"
  /\ outcome' = Evicted(p)
  /\ connClients' = [connClients EXCEPT ![call[p].cc].chW =
                       IF @ = <<>> THEN @ ELSE Tail(@)]
  /\ call' = [call EXCEPT ![p].pc = "resend"]
  /\ UNCHANGED <<lock, scan, poll>>

Resend(p) ==
  /\ call[p].pc = "resend"
  /\ IF HasRoom(p)
     THEN /\ connClients' = Enqueued(p)
          /\ call' = [call EXCEPT ![p].pc = "wait"]
          /\ UNCHANGED outcome
     ELSE /\ outcome' = [outcome EXCEPT ![p] = <<"overflow", NoCall>>]
          /\ call' = [call EXCEPT ![p].pc = "returned"]
          /\ UNCHANGED connClients
  /\ UNCHANGED <<lock, scan, poll>>

Return(p) ==
  /\ call[p].pc = "wait" /\ outcome[p] # Unsettled
  /\ call' = [call EXCEPT ![p].pc = "returned"]
  /\ UNCHANGED <<connClients, lock, scan, poll, outcome>>

-------------------------------------------------------------------------------
(* A connection client: its works move on, are answered, or fail.          *)

Becomes(i, cc) == /\ connClients' = [connClients EXCEPT ![i] = cc]
                  /\ UNCHANGED <<lock, scan, call, poll>>

\* writer takes a work and writes it.  Whether it is flushed in time is left to
\* PipelineConn.
WriterTakes(i) ==
  LET cc == connClients[i] IN
  /\ cc.writes /\ cc.writer = NoCall /\ cc.chW # <<>>
  /\ Becomes(i, [cc EXCEPT !.writer = Head(cc.chW), !.chW = Tail(cc.chW),
                           !.wire = Append(@, Head(cc.chW))])
  /\ UNCHANGED outcome

WriterPuts(i) ==
  LET cc == connClients[i] IN
  /\ cc.writer # NoCall /\ Len(cc.chR) < MaxPendingRequests
  /\ Becomes(i, [cc EXCEPT !.writer = NoCall, !.chR = Append(cc.chR, cc.writer)])
  /\ UNCHANGED outcome

ReaderTakes(i) ==
  LET cc == connClients[i] IN
  /\ cc.reads /\ cc.reader = NoCall /\ cc.chR # <<>>
  /\ Becomes(i, [cc EXCEPT !.reader = Head(cc.chR), !.chR = Tail(cc.chR)])
  /\ UNCHANGED outcome

\* reader gives its work the response that comes first: of the oldest request.
Answer(i) ==
  LET cc == connClients[i] IN
  /\ cc.reader # NoCall /\ cc.wire # <<>>
  /\ Becomes(i, [cc EXCEPT !.reader = NoCall, !.wire = Tail(cc.wire)])
  /\ outcome' = [outcome EXCEPT ![cc.reader] = <<"nil", Head(cc.wire)>>]

Fails(p) == outcome' = IF p = NoCall THEN outcome
                       ELSE [outcome EXCEPT ![p] = <<"conn", NoCall>>]

\* writer returns, and fails the work in its hand: a write or flush error, or
\* stopW.  A failed dial looks as if writer and reader returned at once.
WriterFails(i) ==
  LET cc == connClients[i] IN
  /\ cc.writes /\ Fails(cc.writer)
  /\ Becomes(i, [cc EXCEPT !.writer = NoCall, !.writes = FALSE])

\* reader returns: an error of Read, or stopR.
ReaderFails(i) ==
  LET cc == connClients[i] IN
  /\ cc.reads /\ (cc.reader # NoCall \/ ~cc.writes) /\ Fails(cc.reader)
  /\ Becomes(i, [cc EXCEPT !.reader = NoCall, !.reads = FALSE])

\* Both have returned.
Stopped(cc) == ~cc.writes /\ ~cc.reads

\* worker drains chR before it returns.
Drain(i) ==
  LET cc == connClients[i] IN
  /\ Stopped(cc) /\ cc.chR # <<>> /\ Fails(Head(cc.chR))
  /\ Becomes(i, [cc EXCEPT !.chR = Tail(cc.chR)])

\* Mutant: worker returns without draining chR.
DrainedAnyway(cc) == TRUE

Drained(cc) == cc.chR = <<>>

\* The supervisor blames the next work, and starts worker again: a new
\* connection, with nothing on it.
Redial(i) ==
  LET cc == connClients[i] IN
  /\ Stopped(cc) /\ Drained(cc) /\ cc.chW # <<>> /\ Fails(Head(cc.chW))
  /\ Becomes(i, [cc EXCEPT !.chW = Tail(cc.chW), !.wire = <<>>, !.writes = TRUE,
                           !.reads = TRUE])

ConnStep(i) == \/ WriterTakes(i) \/ WriterPuts(i) \/ ReaderTakes(i) \/ Answer(i)
               \/ WriterFails(i) \/ ReaderFails(i) \/ Drain(i) \/ Redial(i)

CallStep(p) == \/ Lock(p) \/ ScanR(p) \/ ScanW(p) \/ Send(p) \/ Evict(p) \/ Resend(p)
               \/ Return(p)

Next == \/ \E p \in Calls : Enter(p) \/ CallStep(p)
        \/ PollLock \/ PollR \/ PollW \/ PollReturn
        \/ \E i \in DOMAIN connClients : ConnStep(i)

Spec == Init /\ [][Next]_vars

-------------------------------------------------------------------------------
(* Properties.                                                             *)

\* Never more connection clients than MaxConns, nor than goroutines that call
\* Do: each of those that are there had a request of another goroutine.
ConnsBounded == Len(connClients) <= Limit /\ Len(connClients) <= Callers

\* The counts one scan adds up are of different goroutines, although they are
\* taken one after the other while works come and go: what PendingRequests
\* returns is at most the number of goroutines that call Do, and a call that
\* scans counts only others.
CountedOnce ==
  \A s \in Scanners : scan[s].sum + (IF s \in Calls THEN 1 ELSE 0) <= Callers

\* The works of a connection client, each in one place.
Elems(q)      == {q[i] : i \in 1 .. Len(q)}
Distinct(q)   == \A i, j \in 1 .. Len(q) : q[i] = q[j] => i = j
Works(cc)     == Elems(cc.chW) \cup Elems(cc.chR) \cup ({cc.writer, cc.reader} \ {NoCall})
Exclusive(cc) == /\ Distinct(cc.chW) /\ Distinct(cc.chR)
                 /\ Elems(cc.chW) \cap Elems(cc.chR) = {}
                 /\ {cc.writer, cc.reader} \cap (Elems(cc.chW) \cup Elems(cc.chR)) = {}
                 /\ cc.writer = cc.reader => cc.writer = NoCall

\* No work is lost and none is kept too long, through overflows of chW, failed
\* connections and new ones: what a connection client holds, each in one place,
\* are the works of the calls that chose it and wait without a result.  A work
\* that is nowhere would leave its caller waiting for ever; one that is still
\* somewhere after its caller was told would settle the next use of it, which
\* workPool makes.
WorksHeld ==
  \A i \in DOMAIN connClients :
    /\ Exclusive(connClients[i])
    /\ Works(connClients[i]) = {p \in Calls : /\ call[p].pc = "wait" /\ call[p].cc = i
                                              /\ outcome[p] = Unsettled}

\* The view of the callers.
status == [p \in Calls |->
  CASE call[p].pc = "new" -> "new"
    [] call[p].pc = "returned" -> "returned"
    [] OTHER -> IF outcome[p] = Unsettled THEN "open" ELSE "settled"]

Service == INSTANCE PipelineService WITH Errors <- Errors \ {"nil"}

\* Over several connection clients, each with one connection after another that
\* may fail at any time, every call is settled at most once, with an error or
\* with the response to its own request, although a reader pairs works with
\* responses only by their order, and returns what it was settled with.  (Where
\* no writer ends an idle connection and every Read takes one response.)
SettledOnce == Service!Init /\ [][Service!Next]_(Service!vars)
===============================================================================
