------------------------------ MODULE TCPDialer ------------------------------
(***************************************************************************)
(* The dials of one TCPDialer, clientpipeline/tcpdialer.go: the loop of    *)
(* dial over the addresses of a host, and tryDial, which waits for one of  *)
(* Concurrency slots, starts a goroutine that connects, and waits for its  *)
(* result on a channel from dialResultChanPool or for a timeout.           *)
(*                                                                         *)
(* An attempt is one call of tryDial: <<d, n>> is the attempt of d when n  *)
(* addresses are left.  Time is discrete, and a timer that elapsed is      *)
(* served before time goes on: only connecting takes time.                 *)
(***************************************************************************)
EXTENDS Naturals, FiniteSets

CONSTANTS
  Dials,        \* calls of dial
  NAddrs,       \* addresses of the host
  Concurrency,  \* slots
  Timeout,      \* the timeout of a call
  Chans,        \* result channels that can be allocated
  NoChan,       \* no channel
  Empty,        \* an empty channel
  MaxTime       \* bound on the clock

Attempts == Dials \X (1 .. NAddrs)

ASSUME DialerAssumption ==
  /\ NoChan \notin Chans
  /\ Empty \notin Attempts
  /\ NAddrs \in Nat \ {0}
  /\ Concurrency \in Nat \ {0}
  /\ Timeout \in Nat \ {0}
  /\ MaxTime \in Nat


VARIABLES
  now,
  slots,    \* len(concurrencyCh)
  pool,     \* dialResultChanPool
  buffer,   \* result channels of capacity 1: the attempt whose result is there
  dial,     \* calls: position, addresses left, start of the call, timeout
            \*   computed by tryDial, expiry of the running timer, channel
  attempt   \* goroutines: position, channel, whether connected

vars == <<now, slots, pool, buffer, dial, attempt>>

DialPCs    == {"idle", "try", "wait", "go", "result", "ok", "timeout", "failed"}
AttemptPCs == {"none", "connecting", "release", "gone"}

TypeOK ==
  /\ now \in 0 .. MaxTime
  /\ slots \in 0 .. Concurrency
  /\ pool \subseteq Chans
  /\ buffer \in [Chans -> Attempts \cup {Empty}]
  /\ dial \in [Dials -> [pc : DialPCs, n : 0 .. NAddrs, start : Nat,
                         timeout : Nat, until : Nat, ch : Chans \cup {NoChan}]]
  /\ attempt \in [Attempts -> [pc : AttemptPCs, ch : Chans \cup {NoChan},
                               ok : BOOLEAN]]

Init ==
  /\ now = 0 /\ slots = 0 /\ pool = {}
  /\ buffer = [c \in Chans |-> Empty]
  /\ dial = [d \in Dials |-> [pc |-> "idle", n |-> 0, start |-> 0, timeout |-> 0,
                              until |-> 0, ch |-> NoChan]]
  /\ attempt = [a \in Attempts |-> [pc |-> "none", ch |-> NoChan, ok |-> FALSE]]

Current(d) == <<d, dial[d].n>>

-------------------------------------------------------------------------------
\* dial, with the addresses of getTCPAddrs.  No call starts so late that the
\* clock would stop before its timers.
Start(d) ==
  /\ dial[d].pc = "idle" /\ now + Timeout + Timeout <= MaxTime
  /\ dial' = [dial EXCEPT ![d].pc = "try", ![d].n = NAddrs, ![d].start = now]
  /\ UNCHANGED <<now, slots, pool, buffer, attempt>>

Deadline(d) == dial[d].start + Timeout

\* The first half of tryDial: the timeout, and a slot if there is one.
TooLate(d) ==
  /\ dial[d].pc = "try" /\ now >= Deadline(d)
  /\ dial' = [dial EXCEPT ![d].pc = "timeout"]
  /\ UNCHANGED <<now, slots, pool, buffer, attempt>>

\* Mutant: another slot when all are taken.
HasSlotLate == slots <= Concurrency

HasSlot == slots < Concurrency

Try(d) ==
  /\ dial[d].pc = "try" /\ now < Deadline(d)
  /\ dial' = [dial EXCEPT ![d].pc = IF HasSlot THEN "go" ELSE "wait",
                          ![d].timeout = Deadline(d) - now,
                          ![d].until = Deadline(d)]
  /\ slots' = IF HasSlot THEN slots + 1 ELSE slots
  /\ UNCHANGED <<now, pool, buffer, attempt>>

GetSlot(d) ==
  /\ dial[d].pc = "wait" /\ HasSlot
  /\ slots' = slots + 1
  /\ dial' = [dial EXCEPT ![d].pc = "go"]
  /\ UNCHANGED <<now, pool, buffer, attempt>>

\* Mutant: no timer while waiting for a slot.
SlotTimerNever(d) == FALSE

SlotTimer(d) == now >= dial[d].until

NoSlot(d) ==
  /\ dial[d].pc = "wait" /\ SlotTimer(d)
  /\ dial' = [dial EXCEPT ![d].pc = "timeout"]
  /\ UNCHANGED <<now, slots, pool, buffer, attempt>>

\* A pooled channel, or a new one: a sync.Pool may drop what it holds.
Unused == {c \in Chans \ pool : /\ buffer[c] = Empty
                                /\ \A d \in Dials : dial[d].ch # c
                                /\ \A a \in Attempts : attempt[a].ch # c}

\* Mutant: every wait for a result lasts Timeout.
ResultTimerFull(d) == now + Timeout + Timeout

\* The timeout is the one computed before the wait for a slot.
ResultTimer(d) == now + dial[d].timeout

Spawn(d) ==
  /\ dial[d].pc = "go"
  /\ \E c \in pool \cup Unused :
       /\ pool' = pool \ {c}
       /\ dial' = [dial EXCEPT ![d].pc = "result", ![d].ch = c,
                               ![d].until = ResultTimer(d)]
       /\ attempt' = [attempt EXCEPT ![Current(d)].pc = "connecting",
                                     ![Current(d)].ch = c]
  /\ UNCHANGED <<now, slots, buffer>>

\* net.DialTCP returns, and the goroutine sends the result.
Connected(a) ==
  /\ attempt[a].pc = "connecting"
  /\ buffer[attempt[a].ch] = Empty
  /\ buffer' = [buffer EXCEPT ![attempt[a].ch] = a]
  /\ \E ok \in BOOLEAN :
       attempt' = [attempt EXCEPT ![a].pc = "release", ![a].ok = ok]
  /\ UNCHANGED <<now, slots, pool, dial>>

\* Mutant: only a goroutine that connected gives its slot back.
SlotsAfterSuccess(a) == IF attempt[a].ok THEN slots - 1 ELSE slots

SlotsAfterAttempt(a) == slots - 1

Release(a) ==
  /\ attempt[a].pc = "release" /\ slots > 0
  /\ slots' = SlotsAfterAttempt(a)
  /\ attempt' = [attempt EXCEPT ![a].pc = "gone", ![a].ch = NoChan]
  /\ UNCHANGED <<now, pool, buffer, dial>>

\* After a result: return it, or try the next address.
After(d, a) == IF attempt[a].ok THEN "ok"
               ELSE IF dial[d].n = 1 THEN "failed" ELSE "try"

Receive(d) ==
  /\ dial[d].pc = "result" /\ buffer[dial[d].ch] # Empty
  /\ buffer' = [buffer EXCEPT ![dial[d].ch] = Empty]
  /\ pool' = pool \cup {dial[d].ch}
  /\ dial' = [dial EXCEPT ![d].pc = After(d, buffer[dial[d].ch]),
                          ![d].n = @ - 1, ![d].ch = NoChan]
  /\ UNCHANGED <<now, slots, attempt>>

\* Mutant: the channel goes back to the pool after a timeout too.
PoolAfterTimeoutToo(d) == pool \cup {dial[d].ch}

PoolAfterTimeout(d) == pool

\* Mutant: the timeout also gives the slot back.
SlotsAfterTimeoutLess == slots - 1

SlotsAfterTimeout == slots

NoResult(d) ==
  /\ dial[d].pc = "result" /\ now >= dial[d].until
  /\ dial' = [dial EXCEPT ![d].pc = "timeout", ![d].ch = NoChan]
  /\ pool' = PoolAfterTimeout(d)
  /\ slots' = SlotsAfterTimeout
  /\ UNCHANGED <<now, buffer, attempt>>

-------------------------------------------------------------------------------
\* Nobody but a connecting goroutine lets time pass.
Busy(d)   == \/ dial[d].pc \in {"try", "go"}
             \/ dial[d].pc \in {"wait", "result"} /\ now >= dial[d].until
Tick == /\ now < MaxTime /\ \A d \in Dials : ~Busy(d)
        /\ now' = now + 1
        /\ UNCHANGED <<slots, pool, buffer, dial, attempt>>

DialStep(d) == \/ TooLate(d) \/ Try(d) \/ GetSlot(d) \/ NoSlot(d) \/ Spawn(d)
               \/ Receive(d) \/ NoResult(d)

AttemptStep(a) == Connected(a) \/ Release(a)

Next == \/ \E d \in Dials : Start(d) \/ DialStep(d)
        \/ \E a \in Attempts : AttemptStep(a)
        \/ Tick

Spec == Init /\ [][Next]_vars

\* Goroutines are scheduled and the clock does not stop; a connection attempt
\* may hang.
Fairness == /\ WF_vars(Tick)
            /\ \A d \in Dials : WF_vars(DialStep(d))
            /\ \A a \in Attempts : WF_vars(Release(a))

FairSpec == Spec /\ Fairness

-------------------------------------------------------------------------------
(* Properties.                                                             *)

Holding == {d \in Dials : dial[d].pc = "go"}
Running == {a \in Attempts : attempt[a].pc \in {"connecting", "release"}}

\* A slot is held by a call that is about to connect or by a goroutine that
\* connects, also when its call gave up: so no more than Concurrency
\* connection attempts are under way, and no slot is lost or given back twice.
SlotsHeld == slots = Cardinality(Holding) + Cardinality(Running)

\* A call waits on a channel that only its own goroutine will send to, and
\* what is in it is that goroutine's result; a pooled channel is empty and
\* nobody sends to it.  (So no call gets a connection to another address than
\* its own after a timeout.)
OwnResult ==
  /\ \A d \in Dials : dial[d].pc = "result" =>
       /\ buffer[dial[d].ch] \in {Empty, Current(d)}
       /\ \A a \in Attempts :
            attempt[a].pc = "connecting" /\ attempt[a].ch = dial[d].ch
              => a = Current(d)
  /\ \A c \in pool : /\ buffer[c] = Empty
                     /\ \A a \in Attempts : attempt[a].pc = "connecting"
                                              => attempt[a].ch # c

Ended == {"ok", "timeout", "failed"}

\* A call is over after twice its timeout: tryDial waits for a slot until the
\* deadline, then again for the result.
TwiceTimeout ==
  \A d \in Dials : dial[d].pc \notin Ended \cup {"idle"} =>
    now <= Deadline(d) + Timeout

\* A call is over when its timeout is.  The code breaks it, and keeps TwiceTimeout.
WithinTimeout ==
  \A d \in Dials : dial[d].pc \notin Ended \cup {"idle"} => now <= Deadline(d)

\* Every call ends, also when all slots are taken by connection attempts that
\* hang.
EveryDialEnds == \A d \in Dials : dial[d].pc = "try" ~> dial[d].pc \in Ended

\* If no connection attempt hangs, all slots come back, those of calls that
\* gave up too.
SlotsComeBack ==
  (\A a \in Attempts : []<>(attempt[a].pc # "connecting")) => []<>(slots = 0)
===============================================================================
