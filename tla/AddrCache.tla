------------------------------ MODULE AddrCache ------------------------------
(***************************************************************************)
(* The DNS cache of a TCPDialer, clientpipeline/tcpdialer.go: getTCPAddrs, *)
(* called by dial, and the goroutine tcpAddrsClean.  Entries of different  *)
(* addresses never touch each other: this is the entry of one address.     *)
(*                                                                         *)
(* tcpAddrsMap holds pointers, so entries have an identity: a caller may   *)
(* still be refreshing an entry that is no longer in the map.  Only a DNS  *)
(* lookup takes time; what a goroutine does between two waits does not.    *)
(***************************************************************************)
EXTENDS Naturals

CONSTANTS
  Callers,   \* goroutines that call dial, any number of times
  Entries,   \* tcpAddrEntry values that can be allocated
  NoEntry,   \* nil
  Duration,  \* DefaultDNSCacheDuration
  Period,    \* time between two runs of the cleaner
  MaxTime    \* bound on the clock

ASSUME CacheAssumption ==
  /\ NoEntry \notin Entries
  /\ Duration \in Nat \ {0}
  /\ Period \in Nat \ {0}
  /\ MaxTime \in Nat

VARIABLES
  now,
  cache,     \* the entry in tcpAddrsMap
  entry,     \* resolveTime and pending of every entry
  caller,    \* position, the expired entry it refreshes, the entry it made
  wake,      \* when the cleaner wakes up
  cleared    \* history: entries whose pending was cleared by a failed lookup

vars == <<now, cache, entry, caller, wake, cleared>>

CallerPCs == {"idle", "resolve", "store", "clear"}

TypeOK ==
  /\ now \in 0 .. MaxTime
  /\ cache \in Entries \cup {NoEntry}
  /\ entry \in [Entries -> [at : 0 .. MaxTime, pending : BOOLEAN]]
  /\ caller \in [Callers -> [pc : CallerPCs, old : Entries \cup {NoEntry},
                           new : Entries \cup {NoEntry}]]
  /\ wake \in 0 .. MaxTime + Period
  /\ cleared \subseteq Entries

Idle == [pc |-> "idle", old |-> NoEntry, new |-> NoEntry]

Init ==
  /\ now = 0 /\ cache = NoEntry /\ wake = Period /\ cleared = {}
  /\ entry = [e \in Entries |-> [at |-> 0, pending |-> FALSE]]
  /\ caller = [c \in Callers |-> Idle]

-------------------------------------------------------------------------------
Age(e) == now - entry[e].at

\* An entry is used until it expires, and then for as long as it is pending.
Usable == cache # NoEntry /\ (entry[cache].pending \/ Age(cache) <= Duration)

\* getTCPAddrs returns the addresses of a usable entry at once.
Hit(c) ==
  /\ caller[c].pc = "idle" /\ Usable
  /\ UNCHANGED vars

\* Mutant: the expired entry is not marked.
MarkForgotten == entry

\* The first caller to find an entry expired marks it, for others to use it.
Mark == IF cache = NoEntry THEN entry ELSE [entry EXCEPT ![cache].pending = TRUE]

Miss(c) ==
  /\ caller[c].pc = "idle" /\ ~Usable
  /\ entry' = Mark
  /\ caller' = [caller EXCEPT ![c].pc = "resolve", ![c].old = cache]
  /\ UNCHANGED <<now, cache, wake, cleared>>

\* An entry that nothing refers to is as good as a new one.
Free == {e \in Entries : e # cache /\ \A c \in Callers : e \notin {caller[c].old, caller[c].new}}

\* resolveTCPAddrs returns addresses: the new entry is not in the map yet.
Resolved(c) ==
  /\ caller[c].pc = "resolve"
  /\ Free # {}
  /\ LET e == CHOOSE f \in Free : TRUE IN
       /\ entry' = [entry EXCEPT ![e] = [at |-> now, pending |-> FALSE]]
       /\ caller' = [caller EXCEPT ![c].pc = "store", ![c].new = e]
       /\ cleared' = cleared \ {e}
  /\ UNCHANGED <<now, cache, wake>>

Store(c) ==
  /\ caller[c].pc = "store"
  /\ cache' = caller[c].new
  /\ caller' = [caller EXCEPT ![c] = Idle]
  /\ UNCHANGED <<now, entry, wake, cleared>>

NotResolved(c) ==
  /\ caller[c].pc = "resolve"
  /\ caller' = [caller EXCEPT ![c].pc = "clear"]
  /\ UNCHANGED <<now, cache, entry, wake, cleared>>

\* Mutant: nothing is cleared while another caller waits for DNS.
ClearedAlone(c) ==
  IF \E d \in Callers \ {c} : caller[d].pc = "resolve"
  THEN {} ELSE {cache} \ {NoEntry}

\* Mutant: no test for nil, after the cleaner removed the entry.
ClearedNil(c) == {cache}

\* The error path looks the address up again and clears pending in whatever
\* entry is there now, whoever marked it.
Cleared(c) == {cache} \ {NoEntry}

Clear(c) ==
  /\ caller[c].pc = "clear"
  /\ entry' = [e \in Entries |-> IF e \in Cleared(c)
                                 THEN [entry[e] EXCEPT !.pending = FALSE]
                                 ELSE entry[e]]
  /\ cleared' = cleared \cup Cleared(c)
  /\ caller' = [caller EXCEPT ![c] = Idle]
  /\ UNCHANGED <<now, cache, wake>>

-------------------------------------------------------------------------------
\* Mutant: an entry that is being refreshed is left in the map.
TooOldIdle == /\ cache # NoEntry /\ Age(cache) > 2 * Duration
              /\ ~entry[cache].pending

TooOld == cache # NoEntry /\ Age(cache) > 2 * Duration

\* tcpAddrsClean, once a Period.
Clean ==
  /\ now = wake
  /\ cache' = IF TooOld THEN NoEntry ELSE cache
  /\ wake' = now + Period
  /\ UNCHANGED <<now, entry, caller, cleared>>

Tick ==
  /\ now < MaxTime /\ now < wake
  /\ \A c \in Callers : caller[c].pc \in {"idle", "resolve"}
  /\ now' = now + 1
  /\ UNCHANGED <<cache, entry, caller, wake, cleared>>

Step(c) == \/ Hit(c) \/ Miss(c) \/ Resolved(c) \/ Store(c)
           \/ NotResolved(c) \/ Clear(c)

Next == (\E c \in Callers : Step(c)) \/ Clean \/ Tick

Spec == Init /\ [][Next]_vars

-------------------------------------------------------------------------------
(* Properties.                                                             *)

\* A pending entry in the map is being refreshed: the caller that marked it
\* last will replace it or clear pending.  (Else its addresses would be used
\* until the cleaner finds it, and no caller would look them up again.)
PendingHasRefresher ==
  cache # NoEntry /\ entry[cache].pending =>
    \E c \in Callers : caller[c].pc # "idle" /\ caller[c].old = cache

\* An expired entry is looked up by one caller at a time, however many callers
\* find it expired; another one may start only after some lookup failed.
OneRefresher ==
  \A c, d \in Callers :
    c # d /\ caller[c].old = caller[d].old =>
      caller[c].old \in cleared \cup {NoEntry}

\* The addresses a caller gets from the cache were resolved at most two
\* durations and one period of the cleaner ago, also when the caller that
\* refreshes them waits for DNS all the time.
AgeOfUsed == Usable => Age(cache) <= 2 * Duration + Period
===============================================================================
