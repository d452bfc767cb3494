---------------------------- MODULE TCPDialerProofs ----------------------------
(***************************************************************************)
(* Proofs about TCPDialer, for any number of calls, addresses, slots and   *)
(* result channels, and any timeout: its types, that slots are neither     *)
(* lost nor given back twice, that a call receives only the result of its  *)
(* own goroutine, and how late a call can be.                              *)
(***************************************************************************)
EXTENDS TCPDialer, FiniteSetTheorems, TLAPS

USE DialerAssumption

\* A call that still tries has an address left.
Active == \A d \in Dials : dial[d].pc \in {"try", "wait", "go", "result"} => dial[d].n >= 1

\* The goroutine of an address is not started before its call gets there.
Fresh ==
  \A d \in Dials, k \in 1 .. NAddrs : attempt[<<d, k>>].pc # "none" =>
    /\ dial[d].pc # "idle" /\ k >= dial[d].n
    /\ k = dial[d].n => dial[d].pc \notin {"try", "wait", "go"}

\* A result channel is known to one call, or is pooled, and nobody is about to
\* send to a pooled one or has left a result there; a goroutine whose result is
\* in a channel has finished connecting.
Owned ==
  /\ \A d \in Dials : dial[d].pc = "result" <=> dial[d].ch # NoChan
  /\ \A d, e \in Dials : dial[d].ch = dial[e].ch /\ dial[d].ch # NoChan => d = e
  /\ \A d \in Dials : dial[d].ch \notin pool
  /\ \A a \in Attempts : attempt[a].pc = "connecting" => attempt[a].ch \in Chans \ pool
  /\ \A c \in Chans : buffer[c] # Empty =>
       c \notin pool /\ attempt[buffer[c]].pc \in {"release", "gone"}
  /\ \A d \in Dials : dial[d].pc = "result" =>
       /\ buffer[dial[d].ch] \in {Empty, Current(d)}
       /\ \A a \in Attempts :
            attempt[a].pc = "connecting" /\ attempt[a].ch = dial[d].ch
              => a = Current(d)

Counted == IsFiniteSet(Holding) /\ IsFiniteSet(Running) /\ SlotsHeld

\* The time left is computed once, and both timers are set from it.
OnTime(d) ==
  /\ dial[d].pc # "idle" => dial[d].start <= now
  /\ dial[d].pc \in {"wait", "go"} => /\ dial[d].timeout <= Timeout
                                      /\ now <= Deadline(d)
  /\ dial[d].pc = "wait" => dial[d].until = Deadline(d)
  /\ dial[d].pc = "result" => now <= dial[d].until /\ dial[d].until <= Deadline(d) + Timeout
  /\ dial[d].pc = "try" => now <= Deadline(d) + Timeout
Timers == \A d \in Dials : OnTime(d)

IInv == TypeOK /\ Active /\ Fresh /\ Owned /\ Counted /\ Timers

-------------------------------------------------------------------------------
(* What a step of one call keeps.                                          *)

DialT    == dial \in [Dials -> [pc : DialPCs, n : 0 .. NAddrs, start : Nat,
                                timeout : Nat, until : Nat, ch : Chans \cup {NoChan}]]
AttemptT == attempt \in [Attempts -> [pc : AttemptPCs, ch : Chans \cup {NoChan},
                                      ok : BOOLEAN]]
BufferT  == buffer \in [Chans -> Attempts \cup {Empty}]

Others(d) == \A e \in Dials \ {d} : dial'[e] = dial[e]

\* The types and the time of the call that moves, without the variables.
Fields(d) ==
  /\ dial[d].pc \in DialPCs /\ dial[d].n \in 0 .. NAddrs /\ dial[d].start \in Nat
  /\ dial[d].timeout \in Nat /\ dial[d].until \in Nat
  /\ dial[d].ch \in Chans \cup {NoChan}

LEMMA DialFields == TypeOK => \A d \in Dials : Fields(d)
  BY DEF TypeOK, Fields

\* A call whose channel does not change, in a step that starts no goroutine.
LEMMA OwnedKept ==
  ASSUME Owned, NEW d \in Dials, Others(d), UNCHANGED <<pool, buffer, attempt>>,
         dial[d].pc # "result", dial'[d].pc # "result", dial'[d].ch = dial[d].ch
  PROVE  Owned'
<1>1. \A e \in Dials : dial'[e].pc = "result" <=> dial[e].pc = "result"
  BY DEF Others
<1>2. \A e \in Dials : dial'[e].ch = dial[e].ch
  BY DEF Others
<1>3. \A e \in Dials : dial[e].pc = "result" => Current(e)' = Current(e)
  BY DEF Others, Current
<1>. QED  BY <1>1, <1>2, <1>3 DEF Owned

LEMMA OrderKept ==
  ASSUME Active, Fresh, NEW d \in Dials, Others(d), UNCHANGED attempt,
         dial'[d].n = dial[d].n, dial[d].pc # "idle", dial'[d].pc # "idle",
         dial'[d].pc \in {"try", "wait", "go"} => dial[d].pc \in {"try", "wait", "go"},
         dial'[d].pc # "result"
  PROVE  Active' /\ Fresh'
<1>1. Active'
  BY DEF Active, Others
<1>2. Fresh'
  BY DEF Fresh, Others
<1>. QED  BY <1>1, <1>2

\* No slot changes hands.
LEMMA CountedKept ==
  ASSUME Counted, NEW d \in Dials, Others(d), UNCHANGED <<slots, attempt>>,
         dial[d].pc # "go", dial'[d].pc # "go"
  PROVE  Counted'
<1>1. Holding' = Holding /\ Running' = Running
  BY DEF Holding, Running, Others
<1>. QED  BY <1>1 DEF Counted, SlotsHeld

\* A call that moves into "go" takes a slot.
LEMMA CountedTake ==
  ASSUME Counted, NEW d \in Dials, Others(d), UNCHANGED attempt, slots' = slots + 1,
         dial[d].pc # "go", dial'[d].pc = "go"
  PROVE  Counted'
<1>1. Holding' = Holding \cup {d} /\ d \notin Holding /\ Running' = Running
  BY DEF Holding, Running, Others
<1>2. /\ IsFiniteSet(Holding \cup {d})
      /\ Cardinality(Holding \cup {d}) = Cardinality(Holding) + 1
  BY <1>1, FS_AddElement DEF Counted
<1>3. Cardinality(Holding) \in Nat /\ Cardinality(Running) \in Nat
  BY FS_CardinalityType DEF Counted
<1>. QED  BY <1>1, <1>2, <1>3 DEF Counted, SlotsHeld

LEMMA TimersKept ==
  ASSUME Timers, NEW d \in Dials, Others(d), UNCHANGED now, OnTime(d)'
  PROVE  Timers'
  BY DEF Timers, Others, OnTime, Deadline

-------------------------------------------------------------------------------
LEMMA StartStep == ASSUME IInv, NEW d \in Dials, Start(d) PROVE IInv'
<1>1. /\ TypeOK /\ Active /\ Fresh /\ Owned /\ Counted /\ Timers /\ DialT /\ Fields(d)
      /\ now \in Nat
  BY DialFields DEF IInv, TypeOK, DialT
<1>2. /\ dial[d].pc = "idle" /\ dial'[d].pc = "try" /\ dial'[d].n = NAddrs
      /\ dial'[d].start = now /\ dial'[d].ch = dial[d].ch
      /\ Others(d) /\ UNCHANGED <<now, slots, pool, buffer, attempt>>
  BY <1>1 DEF Start, DialT, Others
<1>3. TypeOK'
  <2>1. dial' \in [Dials -> [pc : DialPCs, n : 0 .. NAddrs, start : Nat,
                             timeout : Nat, until : Nat, ch : Chans \cup {NoChan}]]
    <3>1. NAddrs \in 0 .. NAddrs /\ "try" \in DialPCs
      BY DEF DialPCs
    <3>. QED  BY ZenonT(60), <1>1, <3>1 DEF Start, DialT
  <2>. QED  BY <1>1, <1>2, <2>1 DEF TypeOK
<1>4. Active'
  BY <1>1, <1>2 DEF Active, Others
<1>5. Fresh'
  BY <1>1, <1>2 DEF Fresh, Others
<1>6. Timers'
  BY <1>1, <1>2, TimersKept DEF OnTime, Deadline
<1>. QED  BY <1>1, <1>2, <1>3, <1>4, <1>5, <1>6, OwnedKept, CountedKept DEF IInv

LEMMA TooLateStep == ASSUME IInv, NEW d \in Dials, TooLate(d) \/ NoSlot(d) PROVE IInv'
<1>1. /\ TypeOK /\ Active /\ Fresh /\ Owned /\ Counted /\ Timers /\ DialT /\ Fields(d)
      /\ now \in Nat
  BY DialFields DEF IInv, TypeOK, DialT
<1>2. /\ dial[d].pc \in {"try", "wait"} /\ dial'[d].pc = "timeout"
      /\ dial'[d].n = dial[d].n /\ dial'[d].start = dial[d].start
      /\ dial'[d].ch = dial[d].ch
      /\ Others(d) /\ UNCHANGED <<now, slots, pool, buffer, attempt>>
  BY <1>1 DEF TooLate, NoSlot, DialT, Others
<1>3. TypeOK'
  <2>1. dial' \in [Dials -> [pc : DialPCs, n : 0 .. NAddrs, start : Nat,
                             timeout : Nat, until : Nat, ch : Chans \cup {NoChan}]]
    BY <1>1 DEF TooLate, NoSlot, DialT, DialPCs
  <2>. QED  BY <1>1, <1>2, <2>1 DEF TypeOK
<1>4. Timers'
  BY <1>1, <1>2, TimersKept DEF Timers, OnTime, Deadline
<1>. QED  BY <1>1, <1>2, <1>3, <1>4, OwnedKept, OrderKept, CountedKept DEF IInv

LEMMA TryStep == ASSUME IInv, NEW d \in Dials, Try(d) PROVE IInv'
<1>1. /\ TypeOK /\ Active /\ Fresh /\ Owned /\ Counted /\ Timers /\ DialT /\ Fields(d)
      /\ now \in Nat /\ slots \in Nat /\ OnTime(d)
  BY DialFields DEF IInv, TypeOK, DialT, Timers
<1>2. /\ dial[d].pc = "try" /\ now < Deadline(d)
      /\ dial'[d].pc = (IF HasSlot THEN "go" ELSE "wait")
      /\ dial'[d].timeout = Deadline(d) - now /\ dial'[d].until = Deadline(d)
      /\ dial'[d].n = dial[d].n /\ dial'[d].start = dial[d].start
      /\ dial'[d].ch = dial[d].ch
      /\ slots' = (IF HasSlot THEN slots + 1 ELSE slots)
      /\ Others(d) /\ UNCHANGED <<now, pool, buffer, attempt>>
  BY <1>1 DEF Try, DialT, Others
<1>3. TypeOK'
  <2>1. Deadline(d) \in Nat /\ Deadline(d) - now \in Nat
    BY <1>1, <1>2 DEF Deadline, Fields
  <2>2. dial' \in [Dials -> [pc : DialPCs, n : 0 .. NAddrs, start : Nat,
                             timeout : Nat, until : Nat, ch : Chans \cup {NoChan}]]
    <3>1. PICK at \in DialPCs, t \in Nat, u \in Nat :
            dial' = [dial EXCEPT ![d].pc = at, ![d].timeout = t, ![d].until = u]
      BY <2>1 DEF Try, DialPCs
    <3>. QED  BY ZenonT(60), <1>1, <3>1 DEF DialT
  <2>3. slots' \in 0 .. Concurrency
    BY <1>1, <1>2 DEF TypeOK, HasSlot
  <2>. QED  BY <1>1, <1>2, <2>2, <2>3 DEF TypeOK
<1>4. Timers'
  <2>1. OnTime(d)'
    BY <1>1, <1>2 DEF OnTime, Deadline, Fields
  <2>. QED  BY <1>1, <1>2, <2>1, TimersKept
<1>5. Counted'
  BY <1>1, <1>2, CountedKept, CountedTake
<1>. QED  BY <1>1, <1>2, <1>3, <1>4, <1>5, OwnedKept, OrderKept DEF IInv

LEMMA GetSlotStep == ASSUME IInv, NEW d \in Dials, GetSlot(d) PROVE IInv'
<1>1. /\ TypeOK /\ Active /\ Fresh /\ Owned /\ Counted /\ Timers /\ DialT /\ Fields(d)
      /\ now \in Nat /\ slots \in Nat /\ OnTime(d)
  BY DialFields DEF IInv, TypeOK, DialT, Timers
<1>2. /\ dial[d].pc = "wait" /\ dial'[d].pc = "go" /\ HasSlot
      /\ dial'[d].timeout = dial[d].timeout /\ dial'[d].until = dial[d].until
      /\ dial'[d].n = dial[d].n /\ dial'[d].start = dial[d].start
      /\ dial'[d].ch = dial[d].ch /\ slots' = slots + 1
      /\ Others(d) /\ UNCHANGED <<now, pool, buffer, attempt>>
  BY <1>1 DEF GetSlot, DialT, Others
<1>3. TypeOK'
  <2>1. dial' \in [Dials -> [pc : DialPCs, n : 0 .. NAddrs, start : Nat,
                             timeout : Nat, until : Nat, ch : Chans \cup {NoChan}]]
    BY <1>1 DEF GetSlot, DialT, DialPCs
  <2>2. slots' \in 0 .. Concurrency
    BY <1>1, <1>2 DEF TypeOK, HasSlot
  <2>. QED  BY <1>1, <1>2, <2>1, <2>2 DEF TypeOK
<1>4. Timers'
  <2>1. OnTime(d)'
    BY <1>1, <1>2 DEF OnTime, Deadline, Fields
  <2>. QED  BY <1>1, <1>2, <2>1, TimersKept
<1>. QED  BY <1>1, <1>2, <1>3, <1>4, OwnedKept, OrderKept, CountedTake DEF IInv

LEMMA SpawnStep == ASSUME IInv, NEW d \in Dials, Spawn(d) PROVE IInv'
<1>. DEFINE a == Current(d)
<1>1. /\ TypeOK /\ Active /\ Fresh /\ Owned /\ Counted /\ Timers /\ DialT /\ AttemptT
      /\ Fields(d) /\ now \in Nat /\ slots \in Nat /\ OnTime(d)
  BY DialFields DEF IInv, TypeOK, DialT, AttemptT, Timers
<1>2. dial[d].pc = "go" /\ dial[d].n \in 1 .. NAddrs /\ a = <<d, dial[d].n>> /\ a \in Attempts
  BY <1>1 DEF Spawn, Active, Fields, Current, Attempts
<1>3. PICK c \in pool \cup Unused :
        /\ pool' = pool \ {c}
        /\ dial' = [dial EXCEPT ![d].pc = "result", ![d].ch = c, ![d].until = ResultTimer(d)]
        /\ attempt' = [attempt EXCEPT ![a].pc = "connecting", ![a].ch = c]
  BY DEF Spawn
<1>4. c \in Chans /\ c # NoChan
  BY <1>1 DEF Unused, TypeOK
<1>5. /\ dial'[d].pc = "result" /\ dial'[d].ch = c
      /\ dial'[d].until = now + dial[d].timeout
      /\ dial'[d].n = dial[d].n /\ dial'[d].start = dial[d].start
      /\ pool' = pool \ {c} /\ Others(d) /\ UNCHANGED <<now, slots, buffer>>
  BY <1>1, <1>3 DEF Spawn, DialT, Others, ResultTimer
<1>6. /\ attempt'[a].pc = "connecting" /\ attempt'[a].ch = c
      /\ \A b \in Attempts \ {a} : attempt'[b] = attempt[b]
  BY <1>1, <1>2, <1>3 DEF AttemptT
<1>7. attempt[a].pc = "none"
  BY <1>1, <1>2 DEF Fresh
<1>. HIDE DEF a
<1>8. TypeOK'
  <2>1. now + dial[d].timeout \in Nat /\ "result" \in DialPCs /\ "connecting" \in AttemptPCs
    BY <1>1 DEF Fields, DialPCs, AttemptPCs
  <2>2. dial' \in [Dials -> [pc : DialPCs, n : 0 .. NAddrs, start : Nat,
                             timeout : Nat, until : Nat, ch : Chans \cup {NoChan}]]
    BY ZenonT(60), <1>1, <1>3, <1>4, <2>1 DEF DialT, ResultTimer
  <2>3. attempt' \in [Attempts -> [pc : AttemptPCs, ch : Chans \cup {NoChan}, ok : BOOLEAN]]
    BY <1>1, <1>3, <1>4, <2>1 DEF AttemptT
  <2>. QED  BY <1>1, <1>3, <1>5, <2>2, <2>3 DEF TypeOK
<1>9. Active'
  BY <1>1, <1>2, <1>5 DEF Active, Others
<1>10. Fresh'
  <2>. SUFFICES ASSUME NEW e \in Dials, NEW k \in 1 .. NAddrs, attempt'[<<e, k>>].pc # "none"
                PROVE  /\ dial'[e].pc # "idle" /\ k >= dial'[e].n
                       /\ k = dial'[e].n => dial'[e].pc \notin {"try", "wait", "go"}
    BY DEF Fresh
  <2>1. <<e, k>> \in Attempts
    BY DEF Attempts
  <2>2. CASE <<e, k>> = a
    BY <1>2, <1>5, <2>2
  <2>3. CASE <<e, k>> # a
    <3>1. attempt[<<e, k>>].pc # "none"
      BY <1>6, <2>1, <2>3
    <3>2. /\ dial[e].pc # "idle" /\ k >= dial[e].n
          /\ k = dial[e].n => dial[e].pc \notin {"try", "wait", "go"}
      BY <1>1, <3>1 DEF Fresh
    <3>. QED  BY <1>5, <3>2 DEF Others
  <2>. QED  BY <2>2, <2>3
<1>11. Owned'
  \* No call has c, and no goroutine is about to send to it.
  <2>1. /\ \A e \in Dials : dial[e].ch # c
        /\ \A b \in Attempts : attempt[b].pc = "connecting" => attempt[b].ch # c
        /\ buffer[c] = Empty
    BY <1>1, <1>3, <1>4 DEF Owned, Unused
  <2>2. \A e \in Dials : dial'[e].pc = "result" <=> dial'[e].ch # NoChan
    BY <1>1, <1>4, <1>5 DEF Owned, Others
  <2>3. \A e, f \in Dials : dial'[e].ch = dial'[f].ch /\ dial'[e].ch # NoChan => e = f
    BY <1>1, <1>5, <2>1 DEF Owned, Others
  <2>4. \A e \in Dials : dial'[e].ch \notin pool'
    BY <1>1, <1>5 DEF Owned, Others
  <2>5. \A b \in Attempts : attempt'[b].pc = "connecting" => attempt'[b].ch \in Chans \ pool'
    BY <1>1, <1>4, <1>5, <1>6 DEF Owned
  <2>6. \A x \in Chans : buffer'[x] # Empty =>
          x \notin pool' /\ attempt'[buffer'[x]].pc \in {"release", "gone"}
    <3>1. \A x \in Chans : buffer[x] # Empty => buffer[x] \in Attempts \ {a}
      BY <1>1, <1>7 DEF Owned, TypeOK
    <3>. QED  BY <1>1, <1>5, <1>6, <3>1 DEF Owned
  <2>7. ASSUME NEW e \in Dials, dial'[e].pc = "result"
        PROVE  /\ buffer'[dial'[e].ch] \in {Empty, Current(e)'}
               /\ \A b \in Attempts :
                    attempt'[b].pc = "connecting" /\ attempt'[b].ch = dial'[e].ch
                      => b = Current(e)'
    <3>1. Current(e)' = Current(e)
      BY <1>5 DEF Current, Others
    <3>2. CASE e = d
      BY <1>5, <1>6, <2>1, <3>1, <3>2 DEF a
    <3>3. CASE e # d
      <4>1. dial'[e] = dial[e] /\ dial[e].ch # c
        BY <1>5, <2>1, <3>3 DEF Others
      <4>. QED  BY <1>1, <1>5, <1>6, <2>7, <3>1, <4>1 DEF Owned
    <3>. QED  BY <3>2, <3>3
  <2>. QED  BY <2>2, <2>3, <2>4, <2>5, <2>6, <2>7 DEF Owned
<1>12. Counted'
  <2>1. Holding' = Holding \ {d} /\ d \in Holding
    BY <1>2, <1>5 DEF Holding, Others
  <2>2. Running' = Running \cup {a} /\ a \notin Running
    BY <1>2, <1>6, <1>7 DEF Running
  <2>3. /\ IsFiniteSet(Holding \ {d}) /\ IsFiniteSet(Running \cup {a})
        /\ Cardinality(Holding \ {d}) = Cardinality(Holding) - 1
        /\ Cardinality(Running \cup {a}) = Cardinality(Running) + 1
    BY <1>1, <2>1, <2>2, FS_AddElement, FS_RemoveElement DEF Counted
  <2>4. Cardinality(Holding) \in Nat /\ Cardinality(Running) \in Nat
    BY <1>1, FS_CardinalityType DEF Counted
  <2>. QED  BY <1>1, <1>5, <2>1, <2>2, <2>3, <2>4 DEF Counted, SlotsHeld
<1>13. Timers'
  <2>1. OnTime(d)'
    BY <1>1, <1>2, <1>5 DEF OnTime, Deadline, Fields
  <2>. QED  BY <1>1, <1>5, <2>1, TimersKept
<1>. QED  BY <1>8, <1>9, <1>10, <1>11, <1>12, <1>13 DEF IInv

LEMMA NoResultStep == ASSUME IInv, NEW d \in Dials, NoResult(d) PROVE IInv'
<1>1. /\ TypeOK /\ Active /\ Fresh /\ Owned /\ Counted /\ Timers /\ DialT /\ Fields(d)
      /\ now \in Nat
  BY DialFields DEF IInv, TypeOK, DialT
<1>2. /\ dial[d].pc = "result" /\ dial'[d].pc = "timeout" /\ dial'[d].ch = NoChan
      /\ dial'[d].n = dial[d].n /\ dial'[d].start = dial[d].start
      /\ Others(d) /\ UNCHANGED <<now, slots, pool, buffer, attempt>>
  BY <1>1 DEF NoResult, DialT, Others, PoolAfterTimeout, SlotsAfterTimeout
<1>3. TypeOK'
  <2>1. dial' \in [Dials -> [pc : DialPCs, n : 0 .. NAddrs, start : Nat,
                             timeout : Nat, until : Nat, ch : Chans \cup {NoChan}]]
    BY ZenonT(60), <1>1 DEF NoResult, DialT, DialPCs
  <2>. QED  BY <1>1, <1>2, <2>1 DEF TypeOK
<1>4. Owned'
  <2>1. \A e \in Dials : dial'[e].pc = "result" <=> dial[e].pc = "result" /\ e # d
    BY <1>2 DEF Others
  <2>2. \A e \in Dials : Current(e)' = Current(e)
    BY <1>2 DEF Others, Current
  <2>3. NoChan \notin pool
    BY <1>1 DEF TypeOK
  <2>. QED  BY <1>1, <1>2, <2>1, <2>2, <2>3 DEF Owned, Others
<1>5. Timers'
  BY <1>1, <1>2, TimersKept DEF Timers, OnTime, Deadline
<1>. QED  BY <1>1, <1>2, <1>3, <1>4, <1>5, OrderKept, CountedKept DEF IInv

LEMMA ReceiveStep == ASSUME IInv, NEW d \in Dials, Receive(d) PROVE IInv'
<1>. DEFINE c == dial[d].ch
<1>1. /\ TypeOK /\ Active /\ Fresh /\ Owned /\ Counted /\ Timers /\ DialT /\ AttemptT
      /\ BufferT /\ Fields(d) /\ now \in Nat /\ OnTime(d)
  BY DialFields DEF IInv, TypeOK, DialT, AttemptT, BufferT, Timers
<1>2. /\ dial[d].pc = "result" /\ c # NoChan /\ c \in Chans /\ buffer[c] # Empty
      /\ dial[d].n \in 1 .. NAddrs
  BY <1>1 DEF Receive, Owned, Fields, Active
<1>3. PICK next \in {"ok", "failed", "try"} :
        /\ dial' = [dial EXCEPT ![d].pc = next, ![d].n = @ - 1, ![d].ch = NoChan]
        /\ next = "try" => dial[d].n # 1
  BY DEF Receive, After
<1>4. /\ dial'[d].pc = next /\ dial'[d].ch = NoChan /\ dial'[d].n = dial[d].n - 1
      /\ dial'[d].start = dial[d].start /\ Others(d)
      /\ next = "try" => dial[d].n # 1
  BY <1>1, <1>3 DEF DialT, Others
<1>5. /\ buffer' = [buffer EXCEPT ![c] = Empty] /\ pool' = pool \cup {c}
      /\ UNCHANGED <<now, slots, attempt>>
  BY DEF Receive
<1>6. buffer[c] = Current(d) /\ Current(d) \in Attempts
  BY <1>1, <1>2 DEF Owned, Current, Attempts
<1>. HIDE DEF c
<1>7. TypeOK'
  <2>1. dial[d].n - 1 \in 0 .. NAddrs /\ next \in DialPCs
    BY <1>2 DEF DialPCs
  <2>2. dial' \in [Dials -> [pc : DialPCs, n : 0 .. NAddrs, start : Nat,
                             timeout : Nat, until : Nat, ch : Chans \cup {NoChan}]]
    BY <1>1, <1>3, <2>1 DEF DialT
  <2>3. buffer' \in [Chans -> Attempts \cup {Empty}] /\ pool' \subseteq Chans
    BY <1>1, <1>2, <1>5 DEF TypeOK
  <2>. QED  BY <1>1, <1>5, <2>2, <2>3 DEF TypeOK
<1>8. Active'
  BY <1>1, <1>2, <1>4 DEF Active, Others
<1>9. Fresh'
  <2>1. \A k \in 1 .. NAddrs : k >= dial[d].n => k >= dial'[d].n /\ k # dial'[d].n
    BY <1>2, <1>4
  <2>. QED  BY <1>1, <1>4, <1>5, <2>1 DEF Fresh, Others
<1>10. Owned'
  <2>1. \A e \in Dials \ {d} : dial'[e] = dial[e] /\ Current(e)' = Current(e)
    BY <1>4 DEF Others, Current
  <2>2. \A e \in Dials \ {d} : dial[e].ch # c
    BY <1>1, <1>2 DEF Owned, c
  \* The goroutine of the call has sent its result, and nobody else sends to c.
  <2>3. \A b \in Attempts : attempt[b].pc = "connecting" => attempt[b].ch # c
    BY <1>1, <1>2, <1>6 DEF Owned, c
  <2>4. \A x \in Chans : buffer'[x] = IF x = c THEN Empty ELSE buffer[x]
    BY <1>1, <1>2, <1>5 DEF BufferT
  <2>5. \A e \in Dials : dial'[e].pc = "result" <=> dial'[e].ch # NoChan
    BY <1>1, <1>4, <2>1 DEF Owned
  <2>6. \A e, f \in Dials : dial'[e].ch = dial'[f].ch /\ dial'[e].ch # NoChan => e = f
    BY <1>1, <1>4, <2>1 DEF Owned
  <2>7. \A e \in Dials : dial'[e].ch \notin pool'
    BY <1>1, <1>2, <1>4, <1>5, <2>1, <2>2 DEF Owned, TypeOK
  <2>8. \A b \in Attempts : attempt'[b].pc = "connecting" => attempt'[b].ch \in Chans \ pool'
    BY <1>1, <1>5, <2>3 DEF Owned
  <2>9. \A x \in Chans : buffer'[x] # Empty =>
          x \notin pool' /\ attempt'[buffer'[x]].pc \in {"release", "gone"}
    BY <1>1, <1>5, <2>4 DEF Owned
  <2>10. ASSUME NEW e \in Dials, dial'[e].pc = "result"
         PROVE  /\ buffer'[dial'[e].ch] \in {Empty, Current(e)'}
                /\ \A b \in Attempts :
                     attempt'[b].pc = "connecting" /\ attempt'[b].ch = dial'[e].ch
                       => b = Current(e)'
    <3>1. e # d /\ dial'[e] = dial[e] /\ Current(e)' = Current(e)
      BY <1>3, <1>4, <2>1, <2>10
    <3>2. dial[e].ch \in Chans /\ dial[e].ch # c
      BY <1>1, <2>2, <2>10, <3>1, DialFields DEF Owned, Fields
    <3>. QED  BY <1>1, <1>5, <2>4, <2>10, <3>1, <3>2 DEF Owned
  <2>. QED  BY <2>5, <2>6, <2>7, <2>8, <2>9, <2>10 DEF Owned
<1>11. Counted'
  BY <1>1, <1>2, <1>3, <1>4, <1>5, CountedKept
<1>12. Timers'
  <2>1. OnTime(d)'
    BY <1>1, <1>2, <1>3, <1>4, <1>5 DEF OnTime, Deadline, Fields
  <2>. QED  BY <1>1, <1>4, <1>5, <2>1, TimersKept
<1>. QED  BY <1>7, <1>8, <1>9, <1>10, <1>11, <1>12 DEF IInv

LEMMA ConnectedStep == ASSUME IInv, NEW a \in Attempts, Connected(a) PROVE IInv'
<1>. DEFINE c == attempt[a].ch
<1>1. /\ TypeOK /\ Active /\ Fresh /\ Owned /\ Counted /\ Timers /\ AttemptT /\ BufferT
  BY DEF IInv, TypeOK, AttemptT, BufferT
<1>2. /\ attempt[a].pc = "connecting" /\ c \in Chans \ pool /\ buffer[c] = Empty
      /\ a # Empty
  BY <1>1 DEF Connected, Owned
<1>3. PICK ok \in BOOLEAN : attempt' = [attempt EXCEPT ![a].pc = "release", ![a].ok = ok]
  BY DEF Connected
<1>4. /\ attempt'[a].pc = "release" /\ attempt'[a].ch = c
      /\ \A b \in Attempts \ {a} : attempt'[b] = attempt[b]
  BY <1>1, <1>3 DEF AttemptT
<1>5. /\ buffer' = [buffer EXCEPT ![c] = a] /\ UNCHANGED <<now, slots, pool, dial>>
  BY DEF Connected
<1>. HIDE DEF c
<1>6. \A x \in Chans : buffer'[x] = IF x = c THEN a ELSE buffer[x]
  BY <1>1, <1>2, <1>5 DEF BufferT
<1>7. TypeOK'
  <2>1. attempt' \in [Attempts -> [pc : AttemptPCs, ch : Chans \cup {NoChan}, ok : BOOLEAN]]
    BY <1>1, <1>3 DEF AttemptT, AttemptPCs
  <2>2. buffer' \in [Chans -> Attempts \cup {Empty}]
    BY <1>1, <1>5 DEF BufferT
  <2>. QED  BY <1>1, <1>5, <2>1, <2>2 DEF TypeOK
<1>8. Active' /\ Timers'
  BY <1>1, <1>5 DEF Active, Timers, OnTime, Deadline
<1>9. Fresh'
  <2>1. \A e \in Dials, k \in 1 .. NAddrs :
          <<e, k>> \in Attempts /\ (attempt'[<<e, k>>].pc # "none" => attempt[<<e, k>>].pc # "none")
    BY <1>2, <1>4 DEF Attempts
  <2>. QED  BY <1>1, <1>5, <2>1 DEF Fresh
<1>10. Owned'
  <2>1. \A e \in Dials : Current(e)' = Current(e)
    BY <1>5 DEF Current
  <2>2. \A b \in Attempts : attempt'[b].pc = "connecting" =>
          attempt[b].pc = "connecting" /\ attempt'[b].ch = attempt[b].ch
    BY <1>4
  <2>3. \A x \in Chans : buffer'[x] # Empty =>
          x \notin pool' /\ attempt'[buffer'[x]].pc \in {"release", "gone"}
    <3>1. \A b \in Attempts : attempt[b].pc \in {"release", "gone"} =>
            attempt'[b].pc \in {"release", "gone"}
      BY <1>4
    <3>2. \A x \in Chans : buffer[x] # Empty => buffer[x] \in Attempts
      BY <1>1 DEF BufferT
    <3>. QED  BY <1>1, <1>2, <1>4, <1>5, <1>6, <3>1, <3>2 DEF Owned
  <2>4. ASSUME NEW e \in Dials, dial'[e].pc = "result"
        PROVE  /\ buffer'[dial'[e].ch] \in {Empty, Current(e)'}
               /\ \A b \in Attempts :
                    attempt'[b].pc = "connecting" /\ attempt'[b].ch = dial'[e].ch
                      => b = Current(e)'
    <3>1. dial[e].pc = "result" /\ dial[e].ch \in Chans
      BY <1>1, <1>5, <2>4, DialFields DEF Owned, Fields
    <3>2. dial[e].ch = c => a = Current(e)
      BY <1>1, <1>2, <3>1 DEF Owned, c
    <3>. QED  BY <1>1, <1>5, <1>6, <2>1, <2>2, <3>1, <3>2 DEF Owned
  <2>5. \A b \in Attempts : attempt'[b].pc = "connecting" => attempt'[b].ch \in Chans \ pool'
    BY <1>1, <1>5, <2>2 DEF Owned
  <2>6. /\ \A e \in Dials : dial'[e].pc = "result" <=> dial'[e].ch # NoChan
        /\ \A e, f \in Dials : dial'[e].ch = dial'[f].ch /\ dial'[e].ch # NoChan => e = f
        /\ \A e \in Dials : dial'[e].ch \notin pool'
    BY <1>1, <1>5 DEF Owned
  <2>. QED  BY <2>3, <2>4, <2>5, <2>6 DEF Owned
<1>11. Counted'
  <2>1. Holding' = Holding /\ Running' = Running
    BY <1>2, <1>4, <1>5 DEF Holding, Running
  <2>. QED  BY <1>1, <1>5, <2>1 DEF Counted, SlotsHeld
<1>. QED  BY <1>7, <1>8, <1>9, <1>10, <1>11 DEF IInv

LEMMA ReleaseStep == ASSUME IInv, NEW a \in Attempts, Release(a) PROVE IInv'
<1>1. /\ TypeOK /\ Active /\ Fresh /\ Owned /\ Counted /\ Timers /\ AttemptT /\ BufferT
      /\ slots \in 0 .. Concurrency
  BY DEF IInv, TypeOK, AttemptT, BufferT
<1>2. /\ attempt[a].pc = "release" /\ slots > 0 /\ slots' = slots - 1
      /\ attempt'[a].pc = "gone"
      /\ \A b \in Attempts \ {a} : attempt'[b] = attempt[b]
      /\ UNCHANGED <<now, pool, buffer, dial>>
  BY <1>1 DEF Release, AttemptT, SlotsAfterAttempt
<1>3. TypeOK'
  <2>1. attempt' \in [Attempts -> [pc : AttemptPCs, ch : Chans \cup {NoChan}, ok : BOOLEAN]]
    BY <1>1 DEF Release, AttemptT, AttemptPCs
  <2>2. slots' \in 0 .. Concurrency
    BY <1>1, <1>2
  <2>. QED  BY <1>1, <1>2, <2>1, <2>2 DEF TypeOK
<1>4. Active' /\ Timers'
  BY <1>1, <1>2 DEF Active, Timers, OnTime, Deadline
<1>5. Fresh'
  <2>1. \A e \in Dials, k \in 1 .. NAddrs :
          <<e, k>> \in Attempts /\ (attempt'[<<e, k>>].pc # "none" => attempt[<<e, k>>].pc # "none")
    BY <1>2 DEF Attempts
  <2>. QED  BY <1>1, <1>2, <2>1 DEF Fresh
<1>6. Owned'
  <2>1. \A e \in Dials : Current(e)' = Current(e)
    BY <1>2 DEF Current
  <2>2. \A b \in Attempts : attempt'[b].pc = "connecting" =>
          attempt[b].pc = "connecting" /\ attempt'[b].ch = attempt[b].ch
    BY <1>2
  <2>3. \A b \in Attempts : attempt[b].pc \in {"release", "gone"} =>
          attempt'[b].pc \in {"release", "gone"}
    BY <1>2
  <2>4. \A x \in Chans : buffer[x] # Empty => buffer[x] \in Attempts
    BY <1>1 DEF BufferT
  <2>. QED  BY <1>1, <1>2, <2>1, <2>2, <2>3, <2>4 DEF Owned
<1>7. Counted'
  <2>1. Holding' = Holding /\ Running' = Running \ {a} /\ a \in Running
    BY <1>2 DEF Holding, Running
  <2>2. /\ IsFiniteSet(Running \ {a})
        /\ Cardinality(Running \ {a}) = Cardinality(Running) - 1
    BY <1>1, <2>1, FS_RemoveElement DEF Counted
  <2>3. Cardinality(Holding) \in Nat /\ Cardinality(Running) \in Nat
    BY <1>1, FS_CardinalityType DEF Counted
  <2>. QED  BY <1>1, <1>2, <2>1, <2>2, <2>3 DEF Counted, SlotsHeld
<1>. QED  BY <1>3, <1>4, <1>5, <1>6, <1>7 DEF IInv

\* Time goes on only while no timer is due and nobody is about to look at it.
LEMMA TickStep == ASSUME IInv, Tick PROVE IInv'
<1>1. /\ TypeOK /\ Active /\ Fresh /\ Owned /\ Counted /\ Timers /\ now \in Nat
      /\ \A d \in Dials : Fields(d)
  BY DialFields DEF IInv, TypeOK
<1>2. now < MaxTime /\ now' = now + 1 /\ UNCHANGED <<slots, pool, buffer, dial, attempt>>
  BY DEF Tick
<1>3. TypeOK'
  BY <1>1, <1>2 DEF TypeOK
<1>4. Active' /\ Fresh'
  BY <1>1, <1>2 DEF Active, Fresh
<1>5. Owned'
  BY <1>1, <1>2 DEF Owned, Current
<1>6. Counted'
  BY <1>1, <1>2 DEF Counted, SlotsHeld, Holding, Running
<1>7. Timers'
  <2>. SUFFICES ASSUME NEW d \in Dials PROVE OnTime(d)'
    BY DEF Timers
  <2>1. OnTime(d) /\ Fields(d) /\ ~Busy(d)
    BY <1>1 DEF Timers, Tick
  <2>. QED  BY <1>1, <1>2, <2>1 DEF OnTime, Deadline, Fields, Busy
<1>. QED  BY <1>3, <1>4, <1>5, <1>6, <1>7 DEF IInv

-------------------------------------------------------------------------------
LEMMA Initially == Init => IInv
<1>. SUFFICES ASSUME Init PROVE IInv
  OBVIOUS
<1>1. TypeOK
  BY DEF Init, TypeOK, DialPCs, AttemptPCs
<1>2. Active /\ Fresh /\ Timers
  BY DEF Init, Active, Fresh, Timers, OnTime, Attempts
<1>3. Owned
  BY DEF Init, Owned
<1>4. Counted
  <2>1. Holding = {} /\ Running = {}
    BY DEF Init, Holding, Running
  <2>. QED  BY <2>1, FS_EmptySet DEF Init, Counted, SlotsHeld
<1>. QED  BY <1>1, <1>2, <1>3, <1>4 DEF IInv

LEMMA Inductive == IInv /\ [Next]_vars => IInv'
<1>. SUFFICES ASSUME IInv, [Next]_vars PROVE IInv'
  OBVIOUS
<1>1. ASSUME NEW d \in Dials, Start(d) \/ DialStep(d) PROVE IInv'
  BY <1>1, StartStep, TooLateStep, TryStep, GetSlotStep, SpawnStep, ReceiveStep,
     NoResultStep DEF DialStep
<1>2. ASSUME NEW a \in Attempts, AttemptStep(a) PROVE IInv'
  BY <1>2, ConnectedStep, ReleaseStep DEF AttemptStep
<1>3. CASE UNCHANGED vars
  BY <1>3 DEF vars, IInv, TypeOK, Active, Fresh, Owned, Current, Counted, SlotsHeld,
              Holding, Running, Timers, OnTime, Deadline
<1>. QED  BY <1>1, <1>2, <1>3, TickStep DEF Next

LEMMA Always == Spec => []IInv
  BY Initially, Inductive, PTL DEF Spec

\* The variables keep their types, and no more than Concurrency slots are ever
\* taken.
THEOREM TypeCorrect == Spec => []TypeOK
<1>1. IInv => TypeOK
  BY DEF IInv
<1>. QED  BY <1>1, Always, PTL

\* No slot is lost, and none is given back twice, however calls time out: the
\* slots taken are those of calls about to connect and of running goroutines.
THEOREM SlotsHeldAlways == Spec => []SlotsHeld
<1>1. IInv => SlotsHeld
  BY DEF IInv, Counted
<1>. QED  BY <1>1, Always, PTL

\* A call receives only what its own goroutine sent, although the channels are
\* pooled and goroutines outlive the calls that started them.
THEOREM OwnResultAlways == Spec => []OwnResult
<1>1. IInv => OwnResult
  BY DEF IInv, TypeOK, Owned, OwnResult
<1>. QED  BY <1>1, Always, PTL

\* A call that waits for a slot and then for its result is over after twice
\* its timeout.
THEOREM TwiceTimeoutAlways == Spec => []TwiceTimeout
<1>1. IInv => TwiceTimeout
  <2>. SUFFICES ASSUME IInv, NEW d \in Dials, dial[d].pc \notin Ended \cup {"idle"}
                PROVE  now <= Deadline(d) + Timeout
    BY DEF TwiceTimeout
  <2>1. Fields(d) /\ OnTime(d) /\ now \in Nat
    BY DialFields DEF IInv, Timers, TypeOK
  <2>. QED  BY <2>1 DEF OnTime, Fields, Deadline, Ended, DialPCs
<1>. QED  BY <1>1, Always, PTL

===============================================================================
