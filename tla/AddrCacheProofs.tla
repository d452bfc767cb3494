---------------------------- MODULE AddrCacheProofs ----------------------------
(***************************************************************************)
(* Proofs about AddrCache, for any number of callers and of entries, any   *)
(* cache duration, any period of the cleaner and any bound on the clock.   *)
(***************************************************************************)
EXTENDS AddrCache, TLAPS

USE CacheAssumption

-------------------------------------------------------------------------------
(* The inductive invariant.                                                *)

\* The clock never passes the next run of the cleaner, which is at most one
\* period away; and no entry was resolved in the future.
Clock == /\ now <= wake /\ wake <= now + Period
         /\ \A e \in Entries : entry[e].at <= now

\* A new entry belongs to the caller that made it until it is stored: no map
\* and no other caller refers to it, nobody marked it, and no time has passed.
NewEntries ==
  \A c \in Callers : caller[c].pc = "store" =>
    /\ caller[c].new \in Entries /\ caller[c].new # cache
    /\ ~entry[caller[c].new].pending /\ entry[caller[c].new].at = now
    /\ \A d \in Callers : /\ caller[d].old # caller[c].new
                          /\ d # c => caller[d].new # caller[c].new

\* A caller refers to entries only while it refreshes.
Forgets == \A c \in Callers : /\ caller[c].pc = "idle" => caller[c] = Idle
                              /\ caller[c].pc # "store" => caller[c].new = NoEntry

\* The mark of a refresher stays until some lookup fails.
Marked == \A c \in Callers :
            caller[c].old \notin cleared \cup {NoEntry} => entry[caller[c].old].pending

\* What the last run of the cleaner left, or what was stored since, was no
\* older than two durations at that run.
Fresh == cache # NoEntry => wake <= entry[cache].at + 2 * Duration + Period

IInv == /\ TypeOK /\ Clock /\ NewEntries /\ Forgets /\ Marked /\ Fresh
        /\ PendingHasRefresher /\ OneRefresher

-------------------------------------------------------------------------------
(* Types.                                                                  *)

LEMMA TypeInit == Init => TypeOK
  BY DEF Init, TypeOK, Idle, CallerPCs

LEMMA TypeStep == TypeOK /\ [Next]_vars => TypeOK'
<1>. SUFFICES ASSUME TypeOK, [Next]_vars PROVE TypeOK'
  OBVIOUS
<1>. USE DEF TypeOK, CallerPCs
<1>1. CASE \E c \in Callers : Step(c)
  <2>. PICK c \in Callers : Step(c)
    BY <1>1
  <2>1. CASE Hit(c)
    BY <2>1 DEF Hit, vars
  <2>2. CASE Miss(c)
    BY ZenonT(60), <2>2 DEF Miss, Mark
  <2>3. CASE Resolved(c)
    BY <2>3 DEF Resolved, Free
  <2>4. CASE Store(c)
    BY <2>4 DEF Store, Idle
  <2>5. CASE NotResolved(c)
    BY <2>5 DEF NotResolved
  <2>6. CASE Clear(c)
    BY <2>6 DEF Clear, Cleared, Idle
  <2>. QED  BY <2>1, <2>2, <2>3, <2>4, <2>5, <2>6 DEF Step
<1>2. CASE Clean
  BY <1>2 DEF Clean
<1>3. CASE Tick
  BY <1>3 DEF Tick
<1>4. CASE UNCHANGED vars
  BY <1>4 DEF vars
<1>. QED  BY <1>1, <1>2, <1>3, <1>4 DEF Next

\* The clock, the map and the callers keep their types.
THEOREM TypeCorrect == Spec => []TypeOK
  BY TypeInit, TypeStep, PTL DEF Spec

-------------------------------------------------------------------------------
(* The invariant.                                                          *)

LEMMA IInvInit == Init => IInv
  BY TypeInit DEF Init, IInv, Clock, NewEntries, Forgets, Marked, Fresh,
                  PendingHasRefresher, OneRefresher, Idle

\* What one caller does.
LEMMA StepInv ==
  ASSUME IInv, NEW c \in Callers, Step(c)
  PROVE  /\ Clock' /\ NewEntries' /\ Forgets' /\ Marked' /\ Fresh'
         /\ PendingHasRefresher' /\ OneRefresher'
<1>. USE DEF IInv, TypeOK, CallerPCs
<1>1. CASE Hit(c)
  BY <1>1 DEF Hit, vars, Clock, NewEntries, Forgets, Marked, Fresh,
              PendingHasRefresher, OneRefresher
<1>2. CASE Miss(c)
  <2>. USE <1>2 DEF Miss, Mark
  <2>1. /\ caller' = [caller EXCEPT ![c].pc = "resolve", ![c].old = cache]
        /\ \A e \in Entries : /\ entry'[e].at = entry[e].at
                              /\ entry'[e].pending <=> entry[e].pending \/ e = cache
    OBVIOUS
  <2>2. caller[c].old = NoEntry /\ caller[c].new = NoEntry
    BY DEF Forgets, Idle
  <2>3. Clock' /\ Forgets' /\ Fresh'
    BY <2>1, <2>2 DEF Clock, Forgets, Fresh
  <2>4. NewEntries'
    BY <2>1, <2>2 DEF NewEntries
  <2>5. Marked' /\ PendingHasRefresher'
    BY <2>1 DEF Marked, PendingHasRefresher
  <2>6. cache # NoEntry => ~entry[cache].pending
    BY DEF Usable
  <2>7. OneRefresher'
    BY <2>1, <2>6 DEF OneRefresher, Marked
  <2>. QED  BY <2>3, <2>4, <2>5, <2>7
<1>3. CASE Resolved(c)
  <2>1. PICK e \in Free :
          /\ entry' = [entry EXCEPT ![e] = [at |-> now, pending |-> FALSE]]
          /\ caller' = [caller EXCEPT ![c].pc = "store", ![c].new = e]
          /\ cleared' = cleared \ {e}
          /\ UNCHANGED <<now, cache, wake>>
    BY <1>3 DEF Resolved
  <2>2. /\ e \in Entries /\ e # cache /\ e # NoEntry
        /\ \A d \in Callers : caller[d].old # e /\ caller[d].new # e
    BY DEF Free
  <2>3. Clock' /\ Forgets' /\ Fresh'
    BY <1>3, <2>1, <2>2 DEF Resolved, Clock, Forgets, Fresh
  <2>4. NewEntries'
    BY <2>1, <2>2 DEF NewEntries
  <2>5. Marked' /\ PendingHasRefresher' /\ OneRefresher'
    BY <1>3, <2>1, <2>2 DEF Resolved, Marked, PendingHasRefresher, OneRefresher
  <2>. QED  BY <2>3, <2>4, <2>5
<1>4. CASE Store(c)
  <2>. USE <1>4 DEF Store, Idle
  <2>1. /\ caller[c].new \in Entries /\ ~entry[caller[c].new].pending
        /\ entry[caller[c].new].at = now
    BY DEF NewEntries
  <2>2. Clock' /\ Forgets' /\ Marked' /\ PendingHasRefresher' /\ OneRefresher'
    BY <2>1 DEF Clock, Forgets, Marked, PendingHasRefresher, OneRefresher
  <2>3. NewEntries'
    BY DEF NewEntries
  <2>4. Fresh'
    BY <2>1 DEF Fresh, Clock
  <2>. QED  BY <2>2, <2>3, <2>4
<1>5. CASE NotResolved(c)
  BY <1>5 DEF NotResolved, Clock, NewEntries, Forgets, Marked, Fresh,
              PendingHasRefresher, OneRefresher
<1>6. CASE Clear(c)
  <2>. USE <1>6 DEF Clear, Cleared, Idle
  <2>1. /\ caller' = [caller EXCEPT ![c] = Idle]
        /\ cleared' = cleared \cup ({cache} \ {NoEntry})
        /\ \A e \in Entries :
             /\ entry'[e].at = entry[e].at
             /\ entry'[e].pending <=> entry[e].pending /\ e # cache
    OBVIOUS
  <2>2. Clock' /\ Forgets' /\ Fresh'
    BY <2>1 DEF Clock, Forgets, Fresh
  <2>3. NewEntries'
    BY <2>1 DEF NewEntries
  <2>4. Marked' /\ PendingHasRefresher' /\ OneRefresher'
    BY <2>1 DEF Marked, PendingHasRefresher, OneRefresher
  <2>. QED  BY <2>2, <2>3, <2>4
<1>. QED  BY <1>1, <1>2, <1>3, <1>4, <1>5, <1>6 DEF Step

LEMMA IInvStep == IInv /\ [Next]_vars => IInv'
<1>. SUFFICES ASSUME IInv, [Next]_vars PROVE IInv'
  OBVIOUS
<1>0. TypeOK'
  BY TypeStep DEF IInv
<1>1. CASE \E c \in Callers : Step(c)
  BY <1>0, <1>1, StepInv DEF IInv
<1>2. CASE Clean
  <2>1. Clock' /\ Fresh'
    BY <1>2 DEF Clean, TooOld, Age, IInv, Clock, Fresh, TypeOK
  <2>2. NewEntries' /\ Forgets' /\ Marked' /\ PendingHasRefresher' /\ OneRefresher'
    BY <1>2 DEF Clean, IInv, TypeOK, NewEntries, Forgets, Marked,
                PendingHasRefresher, OneRefresher
  <2>. QED  BY <1>0, <2>1, <2>2 DEF IInv
<1>3. CASE Tick
  <2>1. Clock' /\ NewEntries'
    BY <1>3 DEF Tick, IInv, TypeOK, Clock, NewEntries
  <2>2. Forgets' /\ Marked' /\ Fresh' /\ PendingHasRefresher' /\ OneRefresher'
    BY <1>3 DEF Tick, IInv, Forgets, Marked, Fresh, PendingHasRefresher, OneRefresher
  <2>. QED  BY <1>0, <2>1, <2>2 DEF IInv
<1>4. CASE UNCHANGED vars
  BY <1>0, <1>4 DEF vars, IInv, Clock, NewEntries, Forgets, Marked, Fresh,
                    PendingHasRefresher, OneRefresher
<1>. QED  BY <1>1, <1>2, <1>3, <1>4 DEF Next

LEMMA IInvAlways == Spec => []IInv
  BY IInvInit, IInvStep, PTL DEF Spec

-------------------------------------------------------------------------------
(* The theorems.                                                           *)

\* An entry that callers use although it expired is being refreshed, however
\* many callers mark, replace, clear and delete entries at the same time.
THEOREM PendingRefreshed == Spec => []PendingHasRefresher
<1>1. IInv => PendingHasRefresher
  BY DEF IInv
<1>. QED  BY <1>1, IInvAlways, PTL

\* Two callers look the same expired entry up together only after a lookup
\* of another one failed and cleared its mark.
THEOREM RefreshedOnce == Spec => []OneRefresher
<1>1. IInv => OneRefresher
  BY DEF IInv
<1>. QED  BY <1>1, IInvAlways, PTL

\* What a caller is given from the cache is at most two durations and one
\* period old, for every duration and period and however slow DNS is.
THEOREM AgeBounded == Spec => []AgeOfUsed
<1>1. IInv => AgeOfUsed
  BY DEF IInv, AgeOfUsed, Usable, Age, Fresh, Clock, TypeOK
<1>. QED  BY <1>1, IInvAlways, PTL

===============================================================================
