-------------------------- MODULE PipelineClientProofs --------------------------
(***************************************************************************)
(* Proofs about PipelineClient, for any number of calls, of goroutines and *)
(* of connection clients, and any capacity: its types, that no more        *)
(* clients are made than goroutines call Do, that a scan counts no         *)
(* goroutine twice, and that every call is settled at most once, with its  *)
(* own response or an error.                                               *)
(***************************************************************************)
EXTENDS PipelineClient, FiniteSetTheorems, SequenceTheorems, TLAPS

USE ClientAssumption

\* What the reader waits for begins the wire, and is all of it while the writer
\* runs.  Only who runs has a work in hand.
Hand(p)        == IF p = NoCall THEN <<>> ELSE <<p>>
Chain(p, q, r) == Hand(p) \o q \o Hand(r)
Wire(c, v)     == c \o v
Ordered(cc) ==
  /\ cc.reads => \E rest \in Seq(Calls) :
       /\ cc.wire = Wire(Chain(cc.reader, cc.chR, cc.writer), rest)
       /\ cc.writes => rest = <<>>
  /\ ~cc.writes => cc.writer = NoCall
  /\ ~cc.reads => cc.reader = NoCall

Chosen(p)   == call[p].pc \in {"send", "evict", "resend", "wait"}
AtChW(s)    == IF s = Poll THEN poll = "readW" ELSE call[s].pc = "readW"
Scanning(s) == IF s = Poll THEN poll # "idle" ELSE call[s].pc \in {"readR", "readW"}

\* A call is settled only while it waits, and what a client holds are the works
\* of calls that chose it and wait unsettled.
Placed ==
  /\ \A p \in Calls : /\ Chosen(p) => call[p].cc \in DOMAIN connClients
                      /\ call[p].pc \notin {"wait", "returned"} => outcome[p] = Unsettled
  /\ \A i \in DOMAIN connClients :
       /\ Exclusive(connClients[i]) /\ Ordered(connClients[i])
       /\ \A p \in Works(connClients[i]) :
            call[p].pc = "wait" /\ call[p].cc = i /\ outcome[p] = Unsettled

\* The holder of the lock scans, from the first client on.  A call goes past a
\* client only if it counted a work there.
Scans ==
  \A s \in Scanners :
    /\ Scanning(s) <=> lock = s
    /\ ~Scanning(s) => scan[s] = NoScan
    /\ Scanning(s) => /\ scan[s].next >= 1 /\ scan[s].min < scan[s].next
                      /\ s \in Calls => /\ scan[s].next <= Len(connClients)
                                        /\ scan[s].sum >= scan[s].next - 1
    /\ AtChW(s) => scan[s].next <= Len(connClients)
    /\ ~AtChW(s) => scan[s].n = 0

Admitted == IsFiniteSet(Open) /\ Cardinality(Open) <= Callers

\* The calls that a scan may still count: no other call chooses a client while
\* the lock is held.
Ahead(s) ==
  {p \in Calls : /\ Chosen(p) /\ call[p].cc >= scan[s].next
                 /\ AtChW(s) /\ call[p].cc = scan[s].next /\ call[p].pc = "wait"
                      => p \in Elems(connClients[call[p].cc].chW)}

Own(s) == IF s \in Calls THEN 1 ELSE 0
Paced  == \A s \in Scanners : Scanning(s) =>
            scan[s].sum + scan[s].n + Cardinality(Ahead(s)) + Own(s) <= Callers

IInv == TypeOK /\ Placed /\ Scans /\ Admitted /\ Paced /\ ConnsBounded

-------------------------------------------------------------------------------
(* What the reader waits for.                                              *)

LEMMA HandType ==
  /\ \A p \in Hands : Hand(p) \in Seq(Calls)
  /\ \A p \in Calls : Hand(p) = <<p>> /\ <<p>> \in Seq(Calls) /\ p \in Hands
  /\ NoCall \in Hands /\ Hand(NoCall) = <<>> /\ <<>> \in Seq(Calls)
<1>1. ASSUME NEW p \in Calls PROVE <<p>> \in Seq(Calls) /\ p # NoCall
  OBVIOUS
<1>2. <<>> \in Seq(Calls)
  BY EmptySeq
<1>. QED  BY <1>1, <1>2 DEF Hand, Hands

LEMMA NothingAwaited == <<>> = Wire(Chain(NoCall, <<>>, NoCall), <<>>)
<1>1. <<>> \in Seq(Calls) /\ <<>> \o <<>> = <<>>
  BY HandType, ConcatEmptySeq
<1>. QED  BY <1>1, HandType DEF Wire, Chain

LEMMA ChainType ==
  ASSUME NEW p \in Hands, NEW q \in Seq(Calls), NEW r \in Hands
  PROVE  Chain(p, q, r) \in Seq(Calls) /\ Hand(p) \o q \in Seq(Calls)
  BY HandType, ConcatProperties DEF Chain

LEMMA HeadTailConcat ==
  ASSUME NEW q \in Seq(Calls), q # <<>>
  PROVE  /\ q = <<Head(q)>> \o Tail(q)
         /\ Head(q) \in Calls /\ Tail(q) \in Seq(Calls)
<1>1. /\ Head(q) \in Calls /\ Head(q) = q[1] /\ Tail(q) \in Seq(Calls)
      /\ Len(q) \in Nat \ {0}
  BY HeadTailProperties, LenProperties, EmptySeq
<1>2. /\ SubSeq(q, 1, Len(q)) = q
      /\ SubSeq(q, 1, Len(q)) = <<q[1]>> \o SubSeq(q, 1 + 1, Len(q))
  BY <1>1, SubSeqFull, SubSeqRecursiveFirst
<1>3. Tail(q) = SubSeq(q, 1 + 1, Len(q))
  BY TailIsSubSeq
<1>. QED  BY <1>1, <1>2, <1>3

LEMMA ConcatHeadTail ==
  ASSUME NEW p \in Calls, NEW q \in Seq(Calls)
  PROVE  <<p>> \o q # <<>> /\ Head(<<p>> \o q) = p /\ Tail(<<p>> \o q) = q
<1>. DEFINE s == <<p>> \o q
<1>1. <<p>> \in Seq(Calls) /\ Len(<<p>>) = 1 /\ <<p>>[1] = p
  OBVIOUS
<1>2. s \in Seq(Calls) /\ Len(s) = 1 + Len(q) /\ Len(q) \in Nat
  BY <1>1, ConcatProperties, LenProperties
<1>3. s[1] = p
  BY <1>1, <1>2, ConcatProperties
<1>. HIDE DEF s
<1>4. s # <<>> /\ Head(s) = s[1]
  BY <1>2, EmptySeq
<1>5. s = <<p>> \o Tail(s) /\ Tail(s) \in Seq(Calls)
  BY <1>2, <1>3, <1>4, HeadTailConcat
<1>6. Tail(s) = q
  BY <1>1, <1>5, ConcatSimplifications DEF s
<1>. QED  BY <1>3, <1>4, <1>6 DEF s

\* The first work of chR passes into the hand of the reader.
LEMMA ChainTake ==
  ASSUME NEW q \in Seq(Calls), q # <<>>, NEW r \in Hands
  PROVE  Chain(Head(q), Tail(q), r) = Chain(NoCall, q, r)
<1>1. Hand(Head(q)) \o Tail(q) = q
  BY HeadTailConcat, HandType
<1>2. Hand(NoCall) \o q = q
  BY HandType, ConcatEmptySeq
<1>. QED  BY <1>1, <1>2 DEF Chain

\* A work passes from the hand of the writer to the end of chR.
LEMMA ChainPut ==
  ASSUME NEW p \in Hands, NEW q \in Seq(Calls), NEW r \in Calls
  PROVE  Chain(p, Append(q, r), NoCall) = Chain(p, q, r)
<1>. DEFINE h == Hand(p)
<1>1. h \in Seq(Calls) /\ <<r>> \in Seq(Calls) /\ Hand(r) = <<r>> /\ Hand(NoCall) = <<>>
  BY HandType
<1>2. Append(q, r) = q \o <<r>> /\ Append(q, r) \in Seq(Calls)
  BY AppendIsConcat, AppendProperties
<1>3. (h \o Append(q, r)) \o <<>> = h \o Append(q, r)
  BY <1>1, <1>2, ConcatProperties, ConcatEmptySeq
<1>4. (h \o q) \o <<r>> = h \o (q \o <<r>>)
  BY <1>1, ConcatAssociative
<1>. QED  BY <1>1, <1>2, <1>3, <1>4 DEF Chain

\* A work is written while everything on the wire is awaited.
LEMMA ChainWrite ==
  ASSUME NEW p \in Hands, NEW q \in Seq(Calls), NEW r \in Calls
  PROVE  Append(Chain(p, q, NoCall), r) = Chain(p, q, r)
<1>. DEFINE a == Hand(p) \o q
<1>1. /\ a \in Seq(Calls) /\ Hand(r) = <<r>> /\ Hand(NoCall) = <<>>
  BY HandType, ChainType
<1>2. a \o <<>> = a
  BY <1>1, ConcatEmptySeq
<1>3. Append(a, r) = a \o <<r>>
  BY <1>1, AppendIsConcat
<1>. QED  BY <1>1, <1>2, <1>3 DEF Chain

\* The first response is read by the first work that waits, and both go.
LEMMA ChainRead ==
  ASSUME NEW p \in Calls, NEW q \in Seq(Calls), NEW r \in Hands, NEW v \in Seq(Calls)
  PROVE  /\ Head(Wire(Chain(p, q, r), v)) = p
         /\ Tail(Wire(Chain(p, q, r), v)) = Wire(Chain(NoCall, q, r), v)
<1>. DEFINE h == Hand(r)
<1>1. /\ h \in Seq(Calls) /\ <<p>> \in Seq(Calls) /\ Hand(p) = <<p>>
      /\ Hand(NoCall) = <<>>
  BY HandType
<1>2. <<>> \o q = q /\ q \o h \in Seq(Calls) /\ (q \o h) \o v \in Seq(Calls)
  BY <1>1, ConcatEmptySeq, ConcatProperties
<1>3. (<<p>> \o q) \o h = <<p>> \o (q \o h)
  BY <1>1, ConcatAssociative
<1>4. (<<p>> \o (q \o h)) \o v = <<p>> \o ((q \o h) \o v)
  BY <1>1, <1>2, ConcatAssociative
<1>5. Wire(Chain(p, q, r), v) = <<p>> \o ((q \o h) \o v)
  BY <1>1, <1>3, <1>4 DEF Chain, Wire
<1>6. Wire(Chain(NoCall, q, r), v) = (q \o h) \o v
  BY <1>1, <1>2 DEF Chain, Wire
<1>. QED  BY <1>2, <1>5, <1>6, ConcatHeadTail

\* The writer gives a work up: it stays on the wire, awaited no more.
LEMMA ChainDrop ==
  ASSUME NEW p \in Hands, NEW q \in Seq(Calls), NEW r \in Hands, NEW v \in Seq(Calls)
  PROVE  /\ Wire(Chain(p, q, r), v) = Wire(Chain(p, q, NoCall), Wire(Hand(r), v))
         /\ Wire(Hand(r), v) \in Seq(Calls)
<1>. DEFINE a == Hand(p) \o q
            h == Hand(r)
<1>1. a \in Seq(Calls) /\ h \in Seq(Calls) /\ Hand(NoCall) = <<>>
  BY HandType, ChainType
<1>2. (a \o h) \o v = a \o (h \o v)
  <2>1. a \in Seq(Calls) /\ h \in Seq(Calls) /\ v \in Seq(Calls)
    BY <1>1
  <2>. HIDE DEF a, h
  <2>. QED  BY <2>1, ConcatAssociative, SMTT(20)
<1>3. h \o v \in Seq(Calls)
  <2>. HIDE DEF a, h
  <2>. QED  BY <1>1, ConcatProperties
<1>4. a \o <<>> = a
  <2>. HIDE DEF a, h
  <2>. QED  BY <1>1, ConcatEmptySeq
<1>. QED  BY <1>1, <1>2, <1>3, <1>4 DEF Chain, Wire

-------------------------------------------------------------------------------
(* Channels and hands.                                                     *)

LEMMA ElemsTail ==
  ASSUME NEW S, NEW s \in Seq(S), s # <<>>, Distinct(s)
  PROVE  /\ Head(s) \in S /\ Tail(s) \in Seq(S) /\ Len(Tail(s)) = Len(s) - 1
         /\ Head(s) \in Elems(s) /\ Elems(Tail(s)) = Elems(s) \ {Head(s)}
         /\ Distinct(Tail(s))
<1>1. /\ Head(s) \in S /\ Tail(s) \in Seq(S) /\ Len(s) \in Nat \ {0} /\ Head(s) = s[1]
      /\ Len(Tail(s)) = Len(s) - 1
      /\ \A i \in 1 .. Len(s) - 1 : Tail(s)[i] = s[i + 1]
  OBVIOUS
<1>2. Head(s) \in Elems(s)
  BY <1>1 DEF Elems
<1>3. ASSUME NEW e \in Elems(Tail(s)) PROVE e \in Elems(s) \ {Head(s)}
  <2>1. PICK i \in 1 .. Len(s) - 1 : e = s[i + 1]
    BY <1>1, <1>3 DEF Elems
  <2>2. i + 1 \in 1 .. Len(s) /\ i + 1 # 1 /\ 1 \in 1 .. Len(s)
    BY <1>1
  <2>. QED  BY <1>1, <2>1, <2>2 DEF Elems, Distinct
<1>4. ASSUME NEW e \in Elems(s) \ {Head(s)} PROVE e \in Elems(Tail(s))
  <2>1. PICK i \in 1 .. Len(s) : e = s[i]
    BY <1>4 DEF Elems
  <2>2. i # 1
    BY <1>1, <1>4, <2>1
  <2>3. i - 1 \in 1 .. Len(s) - 1 /\ i - 1 + 1 = i
    BY <1>1, <2>2
  <2>. QED  BY <1>1, <2>1, <2>3 DEF Elems
<1>5. Distinct(Tail(s))
  <2>. SUFFICES ASSUME NEW i \in 1 .. Len(s) - 1, NEW j \in 1 .. Len(s) - 1,
                       s[i + 1] = s[j + 1]
                PROVE  i = j
    BY <1>1 DEF Distinct
  <2>1. i + 1 \in 1 .. Len(s) /\ j + 1 \in 1 .. Len(s)
    BY <1>1
  <2>2. i + 1 = j + 1
    BY <2>1 DEF Distinct
  <2>. QED  BY <2>2
<1>. QED  BY <1>1, <1>2, <1>3, <1>4, <1>5

LEMMA ElemsAppend ==
  ASSUME NEW S, NEW s \in Seq(S), NEW e \in S
  PROVE  /\ Append(s, e) \in Seq(S) /\ Len(Append(s, e)) = Len(s) + 1
         /\ Elems(Append(s, e)) = Elems(s) \cup {e}
         /\ Distinct(s) /\ e \notin Elems(s) => Distinct(Append(s, e))
<1>1. /\ Append(s, e) \in Seq(S) /\ Len(s) \in Nat /\ Len(Append(s, e)) = Len(s) + 1
      /\ \A i \in 1 .. Len(s) + 1 : Append(s, e)[i] = IF i <= Len(s) THEN s[i] ELSE e
  OBVIOUS
<1>2. Elems(Append(s, e)) = Elems(s) \cup {e}
  <2>1. ASSUME NEW x \in Elems(Append(s, e)) PROVE x \in Elems(s) \cup {e}
    BY <1>1, <2>1 DEF Elems
  <2>2. ASSUME NEW x \in Elems(s) PROVE x \in Elems(Append(s, e))
    <3>1. PICK i \in 1 .. Len(s) : x = s[i]
      BY <2>2 DEF Elems
    <3>2. i \in 1 .. Len(s) + 1 /\ Append(s, e)[i] = x
      BY <1>1, <3>1
    <3>. QED  BY <1>1, <3>2 DEF Elems
  <2>3. e \in Elems(Append(s, e))
    <3>1. Len(s) + 1 \in 1 .. Len(s) + 1 /\ ~(Len(s) + 1 <= Len(s))
      BY <1>1
    <3>2. Append(s, e)[Len(s) + 1] = e
      BY <1>1, <3>1
    <3>. QED  BY <1>1, <3>1, <3>2 DEF Elems
  <2>. QED  BY <2>1, <2>2, <2>3
<1>3. ASSUME Distinct(s), e \notin Elems(s) PROVE Distinct(Append(s, e))
  <2>1. \A i \in 1 .. Len(s) : s[i] # e
    BY <1>3 DEF Elems
  <2>. SUFFICES ASSUME NEW i \in 1 .. Len(s) + 1, NEW j \in 1 .. Len(s) + 1,
                       Append(s, e)[i] = Append(s, e)[j]
                PROVE  i = j
    BY <1>1 DEF Distinct
  <2>2. CASE i <= Len(s) /\ j <= Len(s)
    BY <1>1, <1>3, <2>2 DEF Distinct
  <2>3. CASE i <= Len(s) /\ ~(j <= Len(s))
    BY <1>1, <2>1, <2>3
  <2>4. CASE ~(i <= Len(s)) /\ j <= Len(s)
    BY <1>1, <2>1, <2>4
  <2>5. CASE ~(i <= Len(s)) /\ ~(j <= Len(s))
    BY <1>1, <2>5
  <2>. QED  BY <2>2, <2>3, <2>4, <2>5
<1>. QED  BY <1>1, <1>2, <1>3

\* Counting a channel is counting the works in it.
LEMMA ElemsCount ==
  ASSUME NEW S, NEW s \in Seq(S), Distinct(s)
  PROVE  IsFiniteSet(Elems(s)) /\ Cardinality(Elems(s)) = Len(s)
<1>1. Len(s) \in Nat /\ DOMAIN s = 1 .. Len(s)
  OBVIOUS
<1>2. s \in [1 .. Len(s) -> Elems(s)]
  BY <1>1, LenProperties DEF Elems
<1>3. s \in Bijection(1 .. Len(s), Elems(s))
  BY <1>2 DEF Bijection, Injection, Surjection, IsInjective, Elems, Distinct
<1>4. IsFiniteSet(1 .. Len(s)) /\ Cardinality(1 .. Len(s)) = Len(s)
  BY <1>1, FS_Interval, SMTT(20)
<1>. QED  BY <1>3, <1>4, FS_Bijection DEF ExistsBijection

Conns == [chW : Seq(Calls), writer : Hands, chR : Seq(Calls), reader : Hands,
          wire : Seq(Calls), writes : BOOLEAN, reads : BOOLEAN]

\* The channels of cc keep to their capacity.
Fits(cc) == Len(cc.chW) <= MaxPendingRequests /\ Len(cc.chR) <= MaxPendingRequests

Sound(cc) == cc \in Conns /\ Fits(cc) /\ Exclusive(cc) /\ Ordered(cc)

LEMMA WorksType ==
  ASSUME NEW cc \in Conns
  PROVE  /\ Elems(cc.chW) \subseteq Calls /\ Elems(cc.chR) \subseteq Calls
         /\ Works(cc) \subseteq Calls
<1>1. cc.chW \in Seq(Calls) /\ cc.chR \in Seq(Calls) /\ cc.writer \in Hands /\ cc.reader \in Hands
  BY DEF Conns
<1>2. \A s \in Seq(Calls) : Elems(s) \subseteq Calls
  BY ElementOfSeq DEF Elems
<1>. QED  BY <1>1, <1>2 DEF Works, Hands

\* d holds what cc holds but for gone, and nothing new waits in its chW.
Shrinks(cc, d, gone) == /\ Sound(d) /\ Works(d) = Works(cc) \ gone
                        /\ Elems(d.chW) \subseteq Elems(cc.chW)

LEMMA TakeSound ==
  ASSUME NEW cc, Sound(cc), NEW d \in Conns, Ordered(d)
  PROVE  /\ /\ cc.writer = NoCall /\ cc.chW # <<>>
            /\ d.writer = Head(cc.chW) /\ d.chW = Tail(cc.chW)
            /\ d.reader = cc.reader /\ d.chR = cc.chR
            => Shrinks(cc, d, {})
         /\ /\ cc.writer # NoCall /\ Len(cc.chR) < MaxPendingRequests
            /\ d.writer = NoCall /\ d.chW = cc.chW
            /\ d.reader = cc.reader /\ d.chR = Append(cc.chR, cc.writer)
            => Shrinks(cc, d, {})
         /\ /\ cc.reader = NoCall /\ cc.chR # <<>>
            /\ d.writer = cc.writer /\ d.chW = cc.chW
            /\ d.reader = Head(cc.chR) /\ d.chR = Tail(cc.chR)
            => Shrinks(cc, d, {})
<1>1. /\ cc.chW \in Seq(Calls) /\ cc.chR \in Seq(Calls) /\ cc.writer \in Hands /\ cc.reader \in Hands
      /\ Distinct(cc.chW) /\ Distinct(cc.chR) /\ cc \in Conns
      /\ Len(cc.chW) \in Nat /\ Len(cc.chR) \in Nat
      /\ Elems(cc.chW) \subseteq Calls /\ Elems(cc.chR) \subseteq Calls
  BY WorksType DEF Sound, Conns, Exclusive
<1>2. ASSUME cc.writer = NoCall, cc.chW # <<>>, d.writer = Head(cc.chW), d.chW = Tail(cc.chW),
             d.reader = cc.reader, d.chR = cc.chR
      PROVE  Shrinks(cc, d, {})
  <2>1. /\ Head(cc.chW) \in Calls /\ Tail(cc.chW) \in Seq(Calls)
        /\ Len(Tail(cc.chW)) = Len(cc.chW) - 1 /\ Head(cc.chW) \in Elems(cc.chW)
        /\ Elems(Tail(cc.chW)) = Elems(cc.chW) \ {Head(cc.chW)}
        /\ Distinct(Tail(cc.chW))
    BY <1>1, <1>2, ElemsTail
  <2>2. Fits(d)
    BY <1>1, <1>2, <2>1 DEF Sound, Fits
  <2>3. Exclusive(d) /\ Works(d) = Works(cc) \ {} /\ Elems(d.chW) \subseteq Elems(cc.chW)
    BY <1>1, <1>2, <2>1 DEF Sound, Exclusive, Works
  <2>. QED  BY <2>2, <2>3 DEF Shrinks, Sound
<1>3. ASSUME cc.writer # NoCall, Len(cc.chR) < MaxPendingRequests, d.writer = NoCall,
             d.chW = cc.chW, d.reader = cc.reader, d.chR = Append(cc.chR, cc.writer)
      PROVE  Shrinks(cc, d, {})
  <2>1. cc.writer \in Calls /\ cc.writer \notin Elems(cc.chR)
    BY <1>1, <1>3 DEF Sound, Exclusive, Hands
  <2>2. /\ Append(cc.chR, cc.writer) \in Seq(Calls)
        /\ Len(Append(cc.chR, cc.writer)) = Len(cc.chR) + 1
        /\ Elems(Append(cc.chR, cc.writer)) = Elems(cc.chR) \cup {cc.writer}
        /\ Distinct(Append(cc.chR, cc.writer))
    BY <1>1, <2>1, ElemsAppend
  <2>3. Fits(d)
    BY <1>1, <1>3, <2>2 DEF Sound, Fits
  <2>4. Exclusive(d) /\ Works(d) = Works(cc) \ {} /\ Elems(d.chW) \subseteq Elems(cc.chW)
    BY <1>1, <1>3, <2>1, <2>2 DEF Sound, Exclusive, Works
  <2>. QED  BY <2>3, <2>4 DEF Shrinks, Sound
<1>4. ASSUME cc.reader = NoCall, cc.chR # <<>>, d.writer = cc.writer, d.chW = cc.chW,
             d.reader = Head(cc.chR), d.chR = Tail(cc.chR)
      PROVE  Shrinks(cc, d, {})
  <2>1. /\ Head(cc.chR) \in Calls /\ Tail(cc.chR) \in Seq(Calls)
        /\ Len(Tail(cc.chR)) = Len(cc.chR) - 1 /\ Head(cc.chR) \in Elems(cc.chR)
        /\ Elems(Tail(cc.chR)) = Elems(cc.chR) \ {Head(cc.chR)}
        /\ Distinct(Tail(cc.chR))
    BY <1>1, <1>4, ElemsTail
  <2>2. Fits(d)
    BY <1>1, <1>4, <2>1 DEF Sound, Fits
  <2>3. Exclusive(d) /\ Works(d) = Works(cc) \ {} /\ Elems(d.chW) \subseteq Elems(cc.chW)
    BY <1>1, <1>4, <2>1 DEF Sound, Exclusive, Works
  <2>. QED  BY <2>2, <2>3 DEF Shrinks, Sound
<1>. QED  BY <1>2, <1>3, <1>4

\* What is in hand is no work if the hand is empty.
Held(p) == IF p = NoCall THEN {} ELSE {p}

LEMMA DropSound ==
  ASSUME NEW cc, Sound(cc), NEW d \in Conns, Ordered(d)
  PROVE  /\ /\ d.reader = NoCall /\ d.chR = cc.chR /\ d.writer = cc.writer /\ d.chW = cc.chW
            => Held(cc.reader) \subseteq Works(cc) /\ Shrinks(cc, d, Held(cc.reader))
         /\ /\ d.writer = NoCall /\ d.chR = cc.chR /\ d.reader = cc.reader /\ d.chW = cc.chW
            => Held(cc.writer) \subseteq Works(cc) /\ Shrinks(cc, d, Held(cc.writer))
         /\ /\ cc.chR # <<>> /\ d.chR = Tail(cc.chR)
            /\ d.reader = cc.reader /\ d.writer = cc.writer /\ d.chW = cc.chW
            => Head(cc.chR) \in Works(cc) /\ Shrinks(cc, d, {Head(cc.chR)})
         /\ /\ cc.chW # <<>> /\ d.chW = Tail(cc.chW)
            /\ d.reader = cc.reader /\ d.writer = cc.writer /\ d.chR = cc.chR
            => Head(cc.chW) \in Works(cc) /\ Shrinks(cc, d, {Head(cc.chW)})
<1>1. /\ cc.chW \in Seq(Calls) /\ cc.chR \in Seq(Calls) /\ cc.writer \in Hands /\ cc.reader \in Hands
      /\ Distinct(cc.chW) /\ Distinct(cc.chR) /\ cc \in Conns
      /\ Len(cc.chW) \in Nat /\ Len(cc.chR) \in Nat
      /\ Elems(cc.chW) \subseteq Calls /\ Elems(cc.chR) \subseteq Calls
  BY WorksType DEF Sound, Conns, Exclusive
<1>2. ASSUME d.reader = NoCall, d.chR = cc.chR, d.writer = cc.writer, d.chW = cc.chW
      PROVE  Held(cc.reader) \subseteq Works(cc) /\ Shrinks(cc, d, Held(cc.reader))
  <2>1. Exclusive(d) /\ Works(d) = Works(cc) \ Held(cc.reader)
    BY <1>1, <1>2 DEF Sound, Exclusive, Works, Held
  <2>. QED  BY <1>2, <2>1 DEF Shrinks, Sound, Fits, Held, Works
<1>3. ASSUME d.writer = NoCall, d.chR = cc.chR, d.reader = cc.reader, d.chW = cc.chW
      PROVE  Held(cc.writer) \subseteq Works(cc) /\ Shrinks(cc, d, Held(cc.writer))
  <2>1. Exclusive(d) /\ Works(d) = Works(cc) \ Held(cc.writer)
    BY <1>1, <1>3 DEF Sound, Exclusive, Works, Held
  <2>. QED  BY <1>3, <2>1 DEF Shrinks, Sound, Fits, Held, Works
<1>4. ASSUME cc.chR # <<>>, d.chR = Tail(cc.chR),
             d.reader = cc.reader, d.writer = cc.writer, d.chW = cc.chW
      PROVE  Head(cc.chR) \in Works(cc) /\ Shrinks(cc, d, {Head(cc.chR)})
  <2>1. /\ Head(cc.chR) \in Calls /\ Tail(cc.chR) \in Seq(Calls)
        /\ Len(Tail(cc.chR)) = Len(cc.chR) - 1 /\ Head(cc.chR) \in Elems(cc.chR)
        /\ Elems(Tail(cc.chR)) = Elems(cc.chR) \ {Head(cc.chR)}
        /\ Distinct(Tail(cc.chR))
    BY <1>1, <1>4, ElemsTail
  <2>2. Fits(d)
    BY <1>1, <1>4, <2>1 DEF Sound, Fits
  <2>3. Exclusive(d) /\ Works(d) = Works(cc) \ {Head(cc.chR)}
    BY <1>1, <1>4, <2>1 DEF Sound, Exclusive, Works
  <2>. QED  BY <1>4, <2>1, <2>2, <2>3 DEF Shrinks, Sound, Works
<1>5. ASSUME cc.chW # <<>>, d.chW = Tail(cc.chW),
             d.reader = cc.reader, d.writer = cc.writer, d.chR = cc.chR
      PROVE  Head(cc.chW) \in Works(cc) /\ Shrinks(cc, d, {Head(cc.chW)})
  <2>1. /\ Head(cc.chW) \in Calls /\ Tail(cc.chW) \in Seq(Calls)
        /\ Len(Tail(cc.chW)) = Len(cc.chW) - 1 /\ Head(cc.chW) \in Elems(cc.chW)
        /\ Elems(Tail(cc.chW)) = Elems(cc.chW) \ {Head(cc.chW)}
        /\ Distinct(Tail(cc.chW))
    BY <1>1, <1>5, ElemsTail
  <2>2. Fits(d)
    BY <1>1, <1>5, <2>1 DEF Sound, Fits
  <2>3. Exclusive(d) /\ Works(d) = Works(cc) \ {Head(cc.chW)}
        /\ Elems(d.chW) \subseteq Elems(cc.chW)
    BY <1>1, <1>5, <2>1 DEF Sound, Exclusive, Works
  <2>. QED  BY <2>1, <2>2, <2>3 DEF Shrinks, Sound, Works
<1>. QED  BY <1>2, <1>3, <1>4, <1>5

\* The oldest work of chW, if there is one, is taken out.
LEMMA EvictSound ==
  ASSUME NEW cc, Sound(cc)
  PROVE  LET gone == IF cc.chW = <<>> THEN {} ELSE {Head(cc.chW)}
             d    == [cc EXCEPT !.chW = IF @ = <<>> THEN @ ELSE Tail(@)]
         IN  Shrinks(cc, d, gone) /\ gone \subseteq Works(cc)
<1>. DEFINE gone == IF cc.chW = <<>> THEN {} ELSE {Head(cc.chW)}
            d == [cc EXCEPT !.chW = IF @ = <<>> THEN @ ELSE Tail(@)]
<1>1. ASSUME cc.chW = <<>> PROVE Shrinks(cc, d, gone) /\ gone \subseteq Works(cc)
  <2>1. d = cc
    BY <1>1 DEF Sound, Conns
  <2>. QED  BY <1>1, <2>1 DEF Shrinks
<1>2. ASSUME cc.chW # <<>> PROVE Shrinks(cc, d, gone) /\ gone \subseteq Works(cc)
  <2>1. Tail(cc.chW) \in Seq(Calls) /\ cc \in Conns
    BY <1>2 DEF Sound, Conns
  <2>2. /\ d \in Conns /\ d.chW = Tail(cc.chW) /\ d.chR = cc.chR
        /\ d.reader = cc.reader /\ d.writer = cc.writer
        /\ d.wire = cc.wire /\ d.writes = cc.writes /\ d.reads = cc.reads
    BY <1>2, <2>1 DEF Conns
  <2>. HIDE DEF d
  <2>3. Ordered(d)
    BY <2>2 DEF Sound, Ordered
  <2>. QED  BY <1>2, <2>2, <2>3, DropSound
<1>. QED  BY <1>1, <1>2

LEMMA SendSound ==
  ASSUME NEW cc, Sound(cc), NEW p \in Calls \ Works(cc),
         Len(cc.chW) < MaxPendingRequests
  PROVE  LET d == [cc EXCEPT !.chW = Append(cc.chW, p)]
         IN  Sound(d) /\ Works(d) = Works(cc) \cup {p} /\ Elems(d.chW) = Elems(cc.chW) \cup {p}
<1>. DEFINE d == [cc EXCEPT !.chW = Append(cc.chW, p)]
<1>1. /\ cc.chW \in Seq(Calls) /\ cc.chR \in Seq(Calls) /\ cc \in Conns
      /\ Distinct(cc.chW) /\ Distinct(cc.chR) /\ Len(cc.chW) \in Nat
      /\ p # NoCall /\ p \notin Elems(cc.chW) /\ p \notin Elems(cc.chR)
      /\ p # cc.writer /\ p # cc.reader
  BY DEF Sound, Conns, Exclusive, Works
<1>2. /\ Append(cc.chW, p) \in Seq(Calls) /\ Len(Append(cc.chW, p)) = Len(cc.chW) + 1
      /\ Elems(Append(cc.chW, p)) = Elems(cc.chW) \cup {p} /\ Distinct(Append(cc.chW, p))
  BY <1>1, ElemsAppend
<1>3. /\ d \in Conns /\ d.reader = cc.reader /\ d.chR = cc.chR
      /\ d.writer = cc.writer /\ d.chW = Append(cc.chW, p)
      /\ d.wire = cc.wire /\ d.writes = cc.writes /\ d.reads = cc.reads
  BY <1>1, <1>2 DEF Conns
<1>. HIDE DEF d
<1>7. Ordered(d)
  BY <1>3 DEF Sound, Ordered
<1>4. Fits(d)
  BY <1>1, <1>2, <1>3 DEF Sound, Fits
<1>5. Exclusive(d) /\ Works(d) = Works(cc) \cup {p}
  BY <1>1, <1>2, <1>3 DEF Sound, Exclusive, Works
<1>6. Sound(d) /\ Works(d) = Works(cc) \cup {p} /\ Elems(d.chW) = Elems(cc.chW) \cup {p}
  BY <1>2, <1>3, <1>4, <1>5, <1>7 DEF Sound
<1>. QED  BY <1>6 DEF d

-------------------------------------------------------------------------------
(* What a step keeps.                                                      *)

LEMMA Types ==
  TypeOK => /\ connClients \in Seq(Conns) /\ Len(connClients) \in Nat
            /\ DOMAIN connClients = 1 .. Len(connClients)
            /\ \A i \in DOMAIN connClients : connClients[i] \in Conns /\ Fits(connClients[i])
            /\ call \in [Calls -> [pc : CallPCs, cc : 0 .. Len(connClients)]]
            /\ \A s \in Scanners : /\ scan[s].next \in Nat /\ scan[s].n \in Nat
                                   /\ scan[s].min \in Nat /\ scan[s].minReqs \in Nat
                                   /\ scan[s].sum \in Nat
<1>. SUFFICES ASSUME TypeOK
              PROVE  /\ connClients \in Seq(Conns) /\ Len(connClients) \in Nat
                     /\ DOMAIN connClients = 1 .. Len(connClients)
                     /\ \A i \in DOMAIN connClients :
                          connClients[i] \in Conns /\ Fits(connClients[i])
                     /\ \A s \in Scanners : /\ scan[s].next \in Nat /\ scan[s].n \in Nat
                                            /\ scan[s].min \in Nat /\ scan[s].minReqs \in Nat
                                            /\ scan[s].sum \in Nat
  BY DEF TypeOK
<1>1. connClients \in Seq(Conns)
  BY DEF TypeOK, Conns
<1>2. \A i \in DOMAIN connClients : connClients[i] \in Conns
  BY <1>1
<1>3. \A i \in DOMAIN connClients : Fits(connClients[i])
  BY DEF TypeOK, Fits
<1>. QED  BY <1>1, <1>2, <1>3, LenProperties DEF TypeOK

LEMMA AllSound ==
  ASSUME TypeOK, Placed
  PROVE  \A i \in DOMAIN connClients : Sound(connClients[i])
BY Types DEF Placed, Sound

LEMMA AheadOpen ==
  ASSUME Admitted, NEW s \in Scanners
  PROVE  /\ Ahead(s) \subseteq Open /\ IsFiniteSet(Ahead(s)) /\ Cardinality(Ahead(s)) \in Nat
         /\ Cardinality(Open) \in Nat
<1>1. Ahead(s) \subseteq Open
  BY DEF Ahead, Open, Chosen
<1>. QED  BY <1>1, FS_Subset, FS_CardinalityType DEF Admitted

LEMMA ScansKept ==
  ASSUME Scans, UNCHANGED <<lock, scan, poll>>, Len(connClients') = Len(connClients),
         \A p \in Calls : \/ call'[p].pc = call[p].pc
                          \/ {call'[p].pc, call[p].pc} \cap {"readR", "readW"} = {}
  PROVE  /\ Scans'
         /\ \A s \in Scanners : (Scanning(s)' <=> Scanning(s)) /\ (AtChW(s)' <=> AtChW(s))
<1>1. \A s \in Scanners : (Scanning(s)' <=> Scanning(s)) /\ (AtChW(s)' <=> AtChW(s))
  BY DEF Scanning, AtChW, Scanners
<1>. QED  BY <1>1 DEF Scans

LEMMA AdmittedKept ==
  ASSUME Admitted, Open' \subseteq Open
  PROVE  Admitted'
BY FS_Subset, FS_CardinalityType DEF Admitted

LEMMA PacedKept ==
  ASSUME TypeOK, Admitted, Paced,
         \A s \in Scanners : Scanning(s)' =>
           Scanning(s) /\ scan'[s] = scan[s] /\ Ahead(s)' \subseteq Ahead(s)
  PROVE  Paced'
<1>. SUFFICES ASSUME NEW s \in Scanners, Scanning(s)'
              PROVE  scan'[s].sum + scan'[s].n + Cardinality(Ahead(s)') + Own(s) <= Callers
  BY DEF Paced, Own
<1>1. Cardinality(Ahead(s)') \in Nat /\ Cardinality(Ahead(s)') <= Cardinality(Ahead(s))
  BY AheadOpen, FS_Subset, FS_CardinalityType
<1>2. scan[s].sum + scan[s].n + Cardinality(Ahead(s)) + Own(s) <= Callers
  BY DEF Paced
<1>3. /\ scan[s].sum \in Nat /\ scan[s].n \in Nat /\ Own(s) \in Nat
      /\ Cardinality(Ahead(s)) \in Nat
  BY Types, AheadOpen DEF Own
<1>4. scan'[s] = scan[s]
  OBVIOUS
<1>. QED  BY <1>1, <1>2, <1>3, <1>4

\* A step in which the clients lose the works of gone, and calls that chose a
\* client go on or return, but none begins to wait.
LEMMA Kept ==
  ASSUME IInv, UNCHANGED <<lock, scan, poll>>, NEW gone,
         connClients' \in Seq(Conns), Len(connClients') = Len(connClients),
         \A i \in DOMAIN connClients : Shrinks(connClients[i], connClients'[i], gone),
         call' \in [Calls -> [pc : CallPCs, cc : 0 .. Len(connClients)]],
         \A p \in Calls : call'[p].cc = call[p].cc,
         \A p \in Calls :
           \/ call'[p].pc = call[p].pc
           \/ call[p].pc \in {"send", "evict", "resend"} /\ call'[p].pc \in {"evict", "resend"}
           \/ Chosen(p) /\ call'[p].pc = "returned",
         outcome' \in [Calls -> (Errors \cup {"none"}) \X Hands],
         \A p \in Calls : call'[p].pc \notin {"wait", "returned"} => outcome'[p] = Unsettled,
         \A i \in DOMAIN connClients : \A p \in Works(connClients[i]) \ gone :
           call'[p].pc = "wait" /\ outcome'[p] = Unsettled
  PROVE  IInv'
<1>. USE DEF IInv
<1>1. DOMAIN connClients' = DOMAIN connClients
  BY Types, LenProperties
<1>2. \A i \in DOMAIN connClients :
        /\ connClients'[i] \in Conns /\ Fits(connClients'[i])
        /\ Exclusive(connClients'[i]) /\ Ordered(connClients'[i])
        /\ Works(connClients'[i]) = Works(connClients[i]) \ gone
        /\ Elems(connClients'[i].chW) \subseteq Elems(connClients[i].chW)
  BY DEF Shrinks, Sound
<1>3. TypeOK'
  <2>1. connClients' \in Seq([chW : Seq(Calls), writer : Hands,
                              chR : Seq(Calls), reader : Hands,
                              wire : Seq(Calls), writes : BOOLEAN, reads : BOOLEAN])
    BY DEF Conns
  <2>2. \A i \in DOMAIN connClients' : /\ Len(connClients'[i].chW) <= MaxPendingRequests
                                       /\ Len(connClients'[i].chR) <= MaxPendingRequests
    BY <1>1, <1>2 DEF Fits
  <2>. QED  BY <2>1, <2>2 DEF TypeOK
<1>4. \A p \in Calls : Chosen(p)' => Chosen(p)
  BY DEF Chosen
<1>5. Placed'
  <2>1. \A p \in Calls : /\ Chosen(p)' => call'[p].cc \in DOMAIN connClients'
                         /\ call'[p].pc \notin {"wait", "returned"} => outcome'[p] = Unsettled
    BY <1>1, <1>4 DEF Placed
  <2>2. ASSUME NEW i \in DOMAIN connClients', NEW p \in Works(connClients'[i])
        PROVE  call'[p].pc = "wait" /\ call'[p].cc = i /\ outcome'[p] = Unsettled
    <3>1. p \in Works(connClients[i]) \ gone /\ i \in DOMAIN connClients
      BY <1>1, <1>2, <2>2
    <3>2. p \in Calls /\ call[p].cc = i
      BY <3>1, Types, WorksType DEF Placed
    <3>. QED  BY <3>1, <3>2
  <2>. QED  BY <1>1, <1>2, <2>1, <2>2 DEF Placed
<1>6. /\ Scans'
      /\ \A s \in Scanners : (Scanning(s)' <=> Scanning(s)) /\ (AtChW(s)' <=> AtChW(s))
  BY ScansKept DEF Chosen
<1>7. Admitted'
  <2>1. Open' \subseteq Open
    BY DEF Open, Chosen
  <2>. QED  BY <2>1, AdmittedKept
<1>8. Paced'
  <2>1. ASSUME NEW s \in Scanners, NEW p \in Ahead(s)'
        PROVE  p \in Ahead(s)
    <3>1. /\ p \in Calls /\ Chosen(p)' /\ call'[p].cc >= scan[s].next
          /\ AtChW(s)' /\ call'[p].cc = scan[s].next /\ call'[p].pc = "wait"
               => p \in Elems(connClients'[call'[p].cc].chW)
      BY <2>1 DEF Ahead
    <3>2. Chosen(p) /\ call[p].cc \in DOMAIN connClients /\ call'[p].cc = call[p].cc
      BY <1>4, <3>1 DEF Placed
    <3>3. call[p].pc = "wait" => call'[p].pc = "wait"
      BY <3>1 DEF Chosen
    <3>. QED  BY <1>2, <1>6, <3>1, <3>2, <3>3 DEF Ahead
  <2>. QED  BY <1>6, <2>1, PacedKept
<1>. QED  BY <1>3, <1>5, <1>6, <1>7, <1>8 DEF ConnsBounded

LEMMA OneShrinks ==
  ASSUME TypeOK, Placed, NEW i \in DOMAIN connClients, NEW d, NEW gone,
         Shrinks(connClients[i], d, gone), gone \subseteq Works(connClients[i]),
         connClients' = [connClients EXCEPT ![i] = d]
  PROVE  /\ connClients' \in Seq(Conns) /\ Len(connClients') = Len(connClients)
         /\ \A j \in DOMAIN connClients : Shrinks(connClients[j], connClients'[j], gone)
<1>1. d \in Conns
  BY DEF Shrinks, Sound
<1>2. /\ connClients' \in Seq(Conns) /\ Len(connClients') = Len(connClients)
      /\ \A j \in DOMAIN connClients : connClients'[j] = IF j = i THEN d ELSE connClients[j]
  BY <1>1, Types, ExceptSeq
<1>3. ASSUME NEW j \in DOMAIN connClients, j # i
      PROVE  Shrinks(connClients[j], connClients[j], gone)
  <2>1. gone \cap Works(connClients[j]) = {}
    BY <1>3 DEF Placed
  <2>. QED  BY <1>3, <2>1, AllSound DEF Shrinks
<1>. QED  BY <1>2, <1>3

LEMMA NoneShrinks ==
  ASSUME TypeOK, Placed, UNCHANGED connClients
  PROVE  /\ connClients' \in Seq(Conns) /\ Len(connClients') = Len(connClients)
         /\ \A j \in DOMAIN connClients : Shrinks(connClients[j], connClients'[j], {})
BY Types, AllSound DEF Shrinks

LEMMA WorksWait ==
  ASSUME TypeOK, Placed, NEW i \in DOMAIN connClients, NEW p \in Works(connClients[i])
  PROVE  p \in Calls /\ call[p].pc = "wait" /\ call[p].cc = i /\ outcome[p] = Unsettled
BY Types, WorksType DEF Placed

LEMMA ConnKept ==
  ASSUME IInv, NEW i \in DOMAIN connClients, NEW d, NEW gone,
         Shrinks(connClients[i], d, gone), gone \subseteq Works(connClients[i]), Becomes(i, d),
         outcome' \in [Calls -> (Errors \cup {"none"}) \X Hands],
         \A p \in Calls \ gone : outcome'[p] = outcome[p]
  PROVE  IInv'
<1>. USE DEF IInv
<1>1. connClients' = [connClients EXCEPT ![i] = d] /\ UNCHANGED <<lock, scan, call, poll>>
  BY DEF Becomes
<1>2. /\ connClients' \in Seq(Conns) /\ Len(connClients') = Len(connClients)
      /\ \A j \in DOMAIN connClients : Shrinks(connClients[j], connClients'[j], gone)
  BY <1>1, OneShrinks
<1>3. call' \in [Calls -> [pc : CallPCs, cc : 0 .. Len(connClients)]]
  BY <1>1, Types
<1>4. \A p \in Calls : call'[p].pc \notin {"wait", "returned"} => outcome'[p] = Unsettled
  BY <1>1, WorksWait DEF Placed
<1>5. \A j \in DOMAIN connClients : \A p \in Works(connClients[j]) \ gone :
        call'[p].pc = "wait" /\ outcome'[p] = Unsettled
  BY <1>1, WorksWait
<1>. QED  BY <1>1, <1>2, <1>3, <1>4, <1>5, Kept

LEMMA Outcomes ==
  ASSUME TypeOK, NEW p \in Calls, NEW e \in Errors \cup {"none"}, NEW r \in Hands
  PROVE  /\ [outcome EXCEPT ![p] = <<e, r>>] \in [Calls -> (Errors \cup {"none"}) \X Hands]
         /\ \A q \in Calls \ {p} : [outcome EXCEPT ![p] = <<e, r>>][q] = outcome[q]
         /\ outcome \in [Calls -> (Errors \cup {"none"}) \X Hands]
BY DEF TypeOK

\* A step of a client moves its works on or settles one of them.
Result(p, o) == o = <<"nil", p>> \/ o \in {<<e, NoCall>> : e \in Errors \ {"nil"}}

LEMMA FailsSettles ==
  ASSUME NEW p \in Hands, Fails(p)
  PROVE  \/ p = NoCall /\ outcome' = outcome
         \/ p # NoCall /\ \E o : Result(p, o) /\ outcome' = [outcome EXCEPT ![p] = o]
BY DEF Fails, Result, Errors

\* The records that the steps of a client build.
LEMMA ConnFields ==
  ASSUME NEW cc \in Conns
  PROVE  /\ cc.chW \in Seq(Calls) /\ cc.chR \in Seq(Calls) /\ cc.wire \in Seq(Calls)
         /\ cc.writer \in Hands /\ cc.reader \in Hands
         /\ cc.writes \in BOOLEAN /\ cc.reads \in BOOLEAN
BY DEF Conns

\* What the writer takes is the last on the wire, and awaited at once.
LEMMA WriterTakesOrdered ==
  ASSUME NEW cc, Sound(cc), cc.writes, cc.writer = NoCall, cc.chW # <<>>
  PROVE  LET d == [cc EXCEPT !.writer = Head(cc.chW), !.chW = Tail(cc.chW),
                             !.wire = Append(@, Head(cc.chW))]
         IN  /\ d \in Conns /\ Ordered(d)
             /\ d.writer = Head(cc.chW) /\ d.chW = Tail(cc.chW)
             /\ d.reader = cc.reader /\ d.chR = cc.chR
<1>. DEFINE w == Head(cc.chW)
            d == [cc EXCEPT !.writer = w, !.chW = Tail(cc.chW), !.wire = Append(@, w)]
<1>1. cc \in Conns /\ w \in Calls /\ Tail(cc.chW) \in Seq(Calls)
  BY ConnFields, HeadTailConcat DEF Sound
<1>2. Append(cc.wire, w) \in Seq(Calls)
  BY <1>1, ConnFields, AppendProperties
<1>. HIDE DEF w
<1>3. /\ d \in Conns /\ d.writer = w /\ d.chW = Tail(cc.chW)
      /\ d.reader = cc.reader /\ d.chR = cc.chR /\ d.wire = Append(cc.wire, w)
      /\ d.writes = cc.writes /\ d.reads = cc.reads
  BY <1>1, <1>2 DEF Conns, Hands
<1>. HIDE DEF d
<1>4. ASSUME cc.reads PROVE d.wire = Wire(Chain(cc.reader, cc.chR, w), <<>>)
  <2>1. cc.wire = Wire(Chain(cc.reader, cc.chR, NoCall), <<>>)
    BY <1>4 DEF Sound, Ordered
  <2>2. Chain(cc.reader, cc.chR, NoCall) \in Seq(Calls) /\ Chain(cc.reader, cc.chR, w) \in Seq(Calls)
    BY <1>1, ConnFields, ChainType, HandType
  <2>3. cc.wire = Chain(cc.reader, cc.chR, NoCall)
    BY <2>1, <2>2, ConcatEmptySeq DEF Wire
  <2>4. Append(cc.wire, w) = Chain(cc.reader, cc.chR, w)
    BY <1>1, <2>3, ConnFields, ChainWrite
  <2>. QED  BY <1>3, <2>2, <2>4, ConcatEmptySeq DEF Wire
<1>5. Ordered(d)
  BY <1>3, <1>4, HandType DEF Sound, Ordered
<1>. QED  BY <1>3, <1>5 DEF d, w

LEMMA WriterPutsOrdered ==
  ASSUME NEW cc, Sound(cc), cc.writer # NoCall
  PROVE  LET d == [cc EXCEPT !.writer = NoCall, !.chR = Append(cc.chR, cc.writer)]
         IN  /\ d \in Conns /\ Ordered(d)
             /\ d.writer = NoCall /\ d.chW = cc.chW
             /\ d.reader = cc.reader /\ d.chR = Append(cc.chR, cc.writer)
<1>. DEFINE d == [cc EXCEPT !.writer = NoCall, !.chR = Append(cc.chR, cc.writer)]
<1>1. cc \in Conns /\ cc.writer \in Calls /\ cc.writes
  BY ConnFields DEF Sound, Hands, Ordered
<1>2. Append(cc.chR, cc.writer) \in Seq(Calls)
  BY <1>1, ConnFields, AppendProperties
<1>3. /\ d \in Conns /\ d.writer = NoCall /\ d.chW = cc.chW
      /\ d.reader = cc.reader /\ d.chR = Append(cc.chR, cc.writer) /\ d.wire = cc.wire
      /\ d.writes = cc.writes /\ d.reads = cc.reads
  BY <1>1, <1>2 DEF Conns, Hands
<1>. HIDE DEF d
<1>4. Chain(cc.reader, Append(cc.chR, cc.writer), NoCall) = Chain(cc.reader, cc.chR, cc.writer)
  BY <1>1, ConnFields, ChainPut
<1>5. Ordered(d)
  BY <1>3, <1>4 DEF Sound, Ordered
<1>. QED  BY <1>3, <1>5 DEF d

LEMMA ReaderTakesOrdered ==
  ASSUME NEW cc, Sound(cc), cc.reads, cc.reader = NoCall, cc.chR # <<>>
  PROVE  LET d == [cc EXCEPT !.reader = Head(cc.chR), !.chR = Tail(cc.chR)]
         IN  /\ d \in Conns /\ Ordered(d)
             /\ d.writer = cc.writer /\ d.chW = cc.chW
             /\ d.reader = Head(cc.chR) /\ d.chR = Tail(cc.chR)
<1>. DEFINE d == [cc EXCEPT !.reader = Head(cc.chR), !.chR = Tail(cc.chR)]
<1>1. cc \in Conns /\ Head(cc.chR) \in Calls /\ Tail(cc.chR) \in Seq(Calls)
  BY ConnFields, HeadTailConcat DEF Sound
<1>3. /\ d \in Conns /\ d.writer = cc.writer /\ d.chW = cc.chW
      /\ d.reader = Head(cc.chR) /\ d.chR = Tail(cc.chR) /\ d.wire = cc.wire
      /\ d.writes = cc.writes /\ d.reads = cc.reads
  BY <1>1 DEF Conns, Hands
<1>. HIDE DEF d
<1>4. Chain(Head(cc.chR), Tail(cc.chR), cc.writer) = Chain(NoCall, cc.chR, cc.writer)
  BY <1>1, ConnFields, ChainTake
<1>5. Ordered(d)
  BY <1>3, <1>4 DEF Sound, Ordered
<1>. QED  BY <1>3, <1>5 DEF d

\* The response that comes first is of the work in the reader's hand.
LEMMA AnswerOrdered ==
  ASSUME NEW cc, Sound(cc), cc.reader # NoCall, cc.wire # <<>>
  PROVE  LET d == [cc EXCEPT !.reader = NoCall, !.wire = Tail(cc.wire)]
         IN  /\ Head(cc.wire) = cc.reader
             /\ d \in Conns /\ Ordered(d)
             /\ d.writer = cc.writer /\ d.chW = cc.chW
             /\ d.reader = NoCall /\ d.chR = cc.chR
<1>. DEFINE d == [cc EXCEPT !.reader = NoCall, !.wire = Tail(cc.wire)]
<1>1. cc \in Conns /\ cc.reader \in Calls /\ Tail(cc.wire) \in Seq(Calls) /\ cc.reads
  BY ConnFields, HeadTailConcat DEF Sound, Hands, Ordered
<1>2. PICK rest \in Seq(Calls) : /\ cc.wire = Wire(Chain(cc.reader, cc.chR, cc.writer), rest)
                                 /\ cc.writes => rest = <<>>
  BY <1>1 DEF Sound, Ordered
<1>3. /\ Head(cc.wire) = cc.reader
      /\ Tail(cc.wire) = Wire(Chain(NoCall, cc.chR, cc.writer), rest)
  BY <1>1, <1>2, ConnFields, ChainRead
<1>4. /\ d \in Conns /\ d.writer = cc.writer /\ d.chW = cc.chW
      /\ d.reader = NoCall /\ d.chR = cc.chR /\ d.wire = Tail(cc.wire)
      /\ d.writes = cc.writes /\ d.reads = cc.reads
  BY <1>1 DEF Conns, Hands
<1>. HIDE DEF d
<1>5. Ordered(d)
  BY <1>2, <1>3, <1>4 DEF Sound, Ordered
<1>. QED  BY <1>3, <1>4, <1>5 DEF d

\* The writer gives its work up: what is awaited still begins the wire.
LEMMA WriterFailsOrdered ==
  ASSUME NEW cc, Sound(cc)
  PROVE  LET d == [cc EXCEPT !.writer = NoCall, !.writes = FALSE]
         IN  /\ d \in Conns /\ Ordered(d)
             /\ d.writer = NoCall /\ d.chW = cc.chW
             /\ d.reader = cc.reader /\ d.chR = cc.chR
<1>. DEFINE d == [cc EXCEPT !.writer = NoCall, !.writes = FALSE]
<1>1. cc \in Conns
  BY DEF Sound
<1>2. /\ d \in Conns /\ d.writer = NoCall /\ d.chW = cc.chW
      /\ d.reader = cc.reader /\ d.chR = cc.chR /\ d.wire = cc.wire
      /\ d.writes = FALSE /\ d.reads = cc.reads
  BY <1>1 DEF Conns, Hands
<1>. HIDE DEF d
<1>3. ASSUME cc.reads
      PROVE  \E rest \in Seq(Calls) : cc.wire = Wire(Chain(cc.reader, cc.chR, NoCall), rest)
  <2>1. PICK v \in Seq(Calls) : cc.wire = Wire(Chain(cc.reader, cc.chR, cc.writer), v)
    BY <1>3 DEF Sound, Ordered
  <2>2. /\ cc.wire = Wire(Chain(cc.reader, cc.chR, NoCall), Wire(Hand(cc.writer), v))
        /\ Wire(Hand(cc.writer), v) \in Seq(Calls)
    BY <1>1, <2>1, ConnFields, ChainDrop
  <2>. QED  BY <2>2
<1>4. Ordered(d)
  BY <1>2, <1>3 DEF Sound, Ordered
<1>. QED  BY <1>2, <1>4 DEF d

\* Nothing is read any more, or a connection begins with nothing on it.
LEMMA StopOrdered ==
  ASSUME NEW cc, Sound(cc)
  PROVE  /\ LET d == [cc EXCEPT !.reader = NoCall, !.reads = FALSE]
            IN  /\ d \in Conns /\ Ordered(d)
                /\ d.writer = cc.writer /\ d.chW = cc.chW
                /\ d.reader = NoCall /\ d.chR = cc.chR
         /\ Stopped(cc) /\ cc.chR # <<>> =>
              LET d == [cc EXCEPT !.chR = Tail(cc.chR)]
              IN  /\ d \in Conns /\ Ordered(d)
                  /\ d.writer = cc.writer /\ d.chW = cc.chW
                  /\ d.reader = cc.reader /\ d.chR = Tail(cc.chR)
         /\ Stopped(cc) /\ cc.chR = <<>> /\ cc.chW # <<>> =>
              LET d == [cc EXCEPT !.chW = Tail(cc.chW), !.wire = <<>>, !.writes = TRUE,
                                  !.reads = TRUE]
              IN  /\ d \in Conns /\ Ordered(d)
                  /\ d.writer = cc.writer /\ d.chW = Tail(cc.chW)
                  /\ d.reader = cc.reader /\ d.chR = cc.chR
<1>1. cc \in Conns
  BY DEF Sound
<1>2. LET d == [cc EXCEPT !.reader = NoCall, !.reads = FALSE]
      IN  /\ d \in Conns /\ Ordered(d)
          /\ d.writer = cc.writer /\ d.chW = cc.chW
          /\ d.reader = NoCall /\ d.chR = cc.chR
  <2>. DEFINE d == [cc EXCEPT !.reader = NoCall, !.reads = FALSE]
  <2>1. /\ d \in Conns /\ d.writer = cc.writer /\ d.chW = cc.chW
        /\ d.reader = NoCall /\ d.chR = cc.chR /\ d.writes = cc.writes /\ d.reads = FALSE
    BY <1>1 DEF Conns, Hands
  <2>. HIDE DEF d
  <2>2. Ordered(d)
    BY <2>1 DEF Sound, Ordered
  <2>. QED  BY <2>1, <2>2 DEF d
<1>3. ASSUME Stopped(cc), cc.chR # <<>>
      PROVE  LET d == [cc EXCEPT !.chR = Tail(cc.chR)]
             IN  /\ d \in Conns /\ Ordered(d)
                 /\ d.writer = cc.writer /\ d.chW = cc.chW
                 /\ d.reader = cc.reader /\ d.chR = Tail(cc.chR)
  <2>. DEFINE d == [cc EXCEPT !.chR = Tail(cc.chR)]
  <2>1. Tail(cc.chR) \in Seq(Calls)
    BY <1>1, <1>3, ConnFields, HeadTailConcat
  <2>2. /\ d \in Conns /\ d.writer = cc.writer /\ d.chW = cc.chW
        /\ d.reader = cc.reader /\ d.chR = Tail(cc.chR)
        /\ d.writes = cc.writes /\ d.reads = cc.reads
    BY <1>1, <2>1 DEF Conns
  <2>. HIDE DEF d
  <2>3. Ordered(d)
    BY <1>3, <2>2 DEF Sound, Ordered, Stopped
  <2>. QED  BY <2>2, <2>3 DEF d
<1>4. ASSUME Stopped(cc), cc.chR = <<>>, cc.chW # <<>>
      PROVE  LET d == [cc EXCEPT !.chW = Tail(cc.chW), !.wire = <<>>, !.writes = TRUE,
                                 !.reads = TRUE]
             IN  /\ d \in Conns /\ Ordered(d)
                 /\ d.writer = cc.writer /\ d.chW = Tail(cc.chW)
                 /\ d.reader = cc.reader /\ d.chR = cc.chR
  <2>. DEFINE d == [cc EXCEPT !.chW = Tail(cc.chW), !.wire = <<>>, !.writes = TRUE,
                              !.reads = TRUE]
  <2>1. Tail(cc.chW) \in Seq(Calls) /\ <<>> \in Seq(Calls)
    BY <1>1, <1>4, ConnFields, HeadTailConcat, HandType
  <2>2. /\ d \in Conns /\ d.writer = cc.writer /\ d.chW = Tail(cc.chW)
        /\ d.reader = cc.reader /\ d.chR = cc.chR /\ d.wire = <<>>
        /\ d.writes = TRUE /\ d.reads = TRUE
    BY <1>1, <2>1 DEF Conns
  <2>. HIDE DEF d
  <2>3. cc.writer = NoCall /\ cc.reader = NoCall
    BY <1>4 DEF Sound, Ordered, Stopped
  <2>4. d.wire = Wire(Chain(d.reader, d.chR, d.writer), <<>>)
    BY <1>4, <2>2, <2>3, NothingAwaited
  <2>5. Ordered(d)
    BY <2>1, <2>2, <2>4 DEF Ordered
  <2>. QED  BY <2>2, <2>5 DEF d
<1>. QED  BY <1>2, <1>3, <1>4

LEMMA ConnStepDoes ==
  ASSUME IInv, NEW i \in DOMAIN connClients, ConnStep(i)
  PROVE  \/ \E d : /\ Shrinks(connClients[i], d, {}) /\ Becomes(i, d)
                   /\ outcome' = outcome
         \/ \E p \in Works(connClients[i]) : \E d, o :
              /\ Shrinks(connClients[i], d, {p}) /\ Becomes(i, d)
              /\ Result(p, o) /\ outcome' = [outcome EXCEPT ![p] = o]
<1>. DEFINE cc == connClients[i]
<1>0. Sound(cc) /\ cc \in Conns
  BY AllSound DEF IInv, Sound
<1>1. CASE WriterTakes(i)
  <2>. DEFINE d == [cc EXCEPT !.writer = Head(cc.chW), !.chW = Tail(cc.chW),
                              !.wire = Append(@, Head(cc.chW))]
  <2>1. cc.writes /\ cc.writer = NoCall /\ cc.chW # <<>> /\ Becomes(i, d) /\ outcome' = outcome
    BY <1>1 DEF WriterTakes
  <2>2. /\ d \in Conns /\ Ordered(d) /\ d.writer = Head(cc.chW) /\ d.chW = Tail(cc.chW)
        /\ d.reader = cc.reader /\ d.chR = cc.chR
    BY <1>0, <2>1, WriterTakesOrdered
  <2>. HIDE DEF d, cc
  <2>3. Shrinks(cc, d, {})
    BY <1>0, <2>1, <2>2, TakeSound
  <2>. QED  BY <2>1, <2>3 DEF cc
<1>2. CASE WriterPuts(i)
  <2>. DEFINE d == [cc EXCEPT !.writer = NoCall, !.chR = Append(cc.chR, cc.writer)]
  <2>1. /\ cc.writer # NoCall /\ Len(cc.chR) < MaxPendingRequests
        /\ Becomes(i, d) /\ outcome' = outcome
    BY <1>2 DEF WriterPuts
  <2>2. /\ d \in Conns /\ Ordered(d) /\ d.writer = NoCall /\ d.chW = cc.chW
        /\ d.reader = cc.reader /\ d.chR = Append(cc.chR, cc.writer)
    BY <1>0, <2>1, WriterPutsOrdered
  <2>. HIDE DEF d, cc
  <2>3. Shrinks(cc, d, {})
    BY <1>0, <2>1, <2>2, TakeSound
  <2>. QED  BY <2>1, <2>3 DEF cc
<1>3. CASE ReaderTakes(i)
  <2>. DEFINE d == [cc EXCEPT !.reader = Head(cc.chR), !.chR = Tail(cc.chR)]
  <2>1. cc.reads /\ cc.reader = NoCall /\ cc.chR # <<>> /\ Becomes(i, d) /\ outcome' = outcome
    BY <1>3 DEF ReaderTakes
  <2>2. /\ d \in Conns /\ Ordered(d) /\ d.writer = cc.writer /\ d.chW = cc.chW
        /\ d.reader = Head(cc.chR) /\ d.chR = Tail(cc.chR)
    BY <1>0, <2>1, ReaderTakesOrdered
  <2>. HIDE DEF d, cc
  <2>3. Shrinks(cc, d, {})
    BY <1>0, <2>1, <2>2, TakeSound
  <2>. QED  BY <2>1, <2>3 DEF cc
<1>4. CASE Answer(i)
  <2>. DEFINE d == [cc EXCEPT !.reader = NoCall, !.wire = Tail(cc.wire)]
              o == <<"nil", Head(cc.wire)>>
  <2>1. /\ cc.reader # NoCall /\ cc.wire # <<>> /\ Becomes(i, d)
        /\ outcome' = [outcome EXCEPT ![cc.reader] = o]
    BY <1>4 DEF Answer
  <2>2. /\ Head(cc.wire) = cc.reader
        /\ d \in Conns /\ Ordered(d) /\ d.writer = cc.writer /\ d.chW = cc.chW
        /\ d.reader = NoCall /\ d.chR = cc.chR
    BY <1>0, <2>1, AnswerOrdered
  <2>3. Result(cc.reader, o)
    BY <2>2 DEF Result
  <2>. HIDE DEF d, cc, o
  <2>4. /\ Held(cc.reader) = {cc.reader} /\ Held(cc.reader) \subseteq Works(cc)
        /\ Shrinks(cc, d, Held(cc.reader))
    BY <1>0, <2>1, <2>2, DropSound DEF Held
  <2>. QED  BY <2>1, <2>3, <2>4 DEF cc
<1>5. CASE WriterFails(i)
  <2>. DEFINE d == [cc EXCEPT !.writer = NoCall, !.writes = FALSE]
  <2>1. Fails(cc.writer) /\ Becomes(i, d)
    BY <1>5 DEF WriterFails
  <2>2. /\ d \in Conns /\ Ordered(d) /\ d.writer = NoCall /\ d.chW = cc.chW
        /\ d.reader = cc.reader /\ d.chR = cc.chR
    BY <1>0, WriterFailsOrdered
  <2>. HIDE DEF d, cc
  <2>3. Held(cc.writer) \subseteq Works(cc) /\ Shrinks(cc, d, Held(cc.writer))
    BY <1>0, <2>2, DropSound
  <2>4. \/ cc.writer = NoCall /\ outcome' = outcome
        \/ cc.writer # NoCall /\ \E o : Result(cc.writer, o)
                                     /\ outcome' = [outcome EXCEPT ![cc.writer] = o]
    BY <1>0, <2>1, ConnFields, FailsSettles
  <2>. QED  BY <2>1, <2>3, <2>4 DEF cc, Held
<1>6. CASE ReaderFails(i)
  <2>. DEFINE d == [cc EXCEPT !.reader = NoCall, !.reads = FALSE]
  <2>1. Fails(cc.reader) /\ Becomes(i, d)
    BY <1>6 DEF ReaderFails
  <2>2. /\ d \in Conns /\ Ordered(d) /\ d.writer = cc.writer /\ d.chW = cc.chW
        /\ d.reader = NoCall /\ d.chR = cc.chR
    BY <1>0, StopOrdered
  <2>. HIDE DEF d, cc
  <2>3. Held(cc.reader) \subseteq Works(cc) /\ Shrinks(cc, d, Held(cc.reader))
    BY <1>0, <2>2, DropSound
  <2>4. \/ cc.reader = NoCall /\ outcome' = outcome
        \/ cc.reader # NoCall /\ \E o : Result(cc.reader, o)
                                     /\ outcome' = [outcome EXCEPT ![cc.reader] = o]
    BY <1>0, <2>1, ConnFields, FailsSettles
  <2>. QED  BY <2>1, <2>3, <2>4 DEF cc, Held
<1>7. CASE Drain(i)
  <2>. DEFINE d == [cc EXCEPT !.chR = Tail(cc.chR)]
  <2>1. Stopped(cc) /\ cc.chR # <<>> /\ Fails(Head(cc.chR)) /\ Becomes(i, d)
    BY <1>7 DEF Drain
  <2>2. /\ d \in Conns /\ Ordered(d) /\ d.writer = cc.writer /\ d.chW = cc.chW
        /\ d.reader = cc.reader /\ d.chR = Tail(cc.chR)
    BY <1>0, <2>1, StopOrdered
  <2>. HIDE DEF d, cc
  <2>3. Head(cc.chR) \in Works(cc) /\ Shrinks(cc, d, {Head(cc.chR)})
    BY <1>0, <2>1, <2>2, DropSound
  <2>4. Head(cc.chR) \in Calls
    BY <1>0, <2>1, ConnFields, HeadTailConcat
  <2>5. \E o : Result(Head(cc.chR), o) /\ outcome' = [outcome EXCEPT ![Head(cc.chR)] = o]
    BY <2>1, <2>4, FailsSettles DEF Hands
  <2>. QED  BY <2>1, <2>3, <2>5 DEF cc
<1>8. CASE Redial(i)
  <2>. DEFINE d == [cc EXCEPT !.chW = Tail(cc.chW), !.wire = <<>>, !.writes = TRUE,
                              !.reads = TRUE]
  <2>1. /\ Stopped(cc) /\ cc.chR = <<>> /\ cc.chW # <<>> /\ Fails(Head(cc.chW))
        /\ Becomes(i, d)
    BY <1>8 DEF Redial, Drained
  <2>2. /\ d \in Conns /\ Ordered(d) /\ d.writer = cc.writer /\ d.chW = Tail(cc.chW)
        /\ d.reader = cc.reader /\ d.chR = cc.chR
    BY <1>0, <2>1, StopOrdered
  <2>. HIDE DEF d, cc
  <2>3. Head(cc.chW) \in Works(cc) /\ Shrinks(cc, d, {Head(cc.chW)})
    BY <1>0, <2>1, <2>2, DropSound
  <2>4. Head(cc.chW) \in Calls
    BY <1>0, <2>1, ConnFields, HeadTailConcat
  <2>5. \E o : Result(Head(cc.chW), o) /\ outcome' = [outcome EXCEPT ![Head(cc.chW)] = o]
    BY <2>1, <2>4, FailsSettles DEF Hands
  <2>. QED  BY <2>1, <2>3, <2>5 DEF cc
<1>. QED  BY <1>1, <1>2, <1>3, <1>4, <1>5, <1>6, <1>7, <1>8 DEF ConnStep

LEMMA ConnStepKept ==
  ASSUME IInv, NEW i \in DOMAIN connClients, ConnStep(i)
  PROVE  IInv'
<1>0. TypeOK /\ outcome \in [Calls -> (Errors \cup {"none"}) \X Hands]
  BY DEF IInv, TypeOK
<1>1. ASSUME NEW d, Shrinks(connClients[i], d, {}), Becomes(i, d), outcome' = outcome
      PROVE  IInv'
  BY <1>0, <1>1, ConnKept
<1>2. ASSUME NEW p \in Works(connClients[i]), NEW d, NEW o, Shrinks(connClients[i], d, {p}),
             Becomes(i, d), Result(p, o), outcome' = [outcome EXCEPT ![p] = o]
      PROVE  IInv'
  <2>1. p \in Calls
    BY WorksWait DEF IInv
  <2>2. \E e \in Errors : \E r \in Hands : o = <<e, r>>
    BY <1>2, <2>1 DEF Result, Errors, Hands
  <2>3. /\ outcome' \in [Calls -> (Errors \cup {"none"}) \X Hands]
        /\ \A q \in Calls \ {p} : outcome'[q] = outcome[q]
    BY <1>0, <1>2, <2>1, <2>2, Outcomes
  <2>. QED  BY <1>2, <2>3, ConnKept
<1>. QED  BY <1>1, <1>2, ConnStepDoes

-------------------------------------------------------------------------------
(* Steps of Do.                                                            *)

LEMMA EnterKept ==
  ASSUME IInv, NEW p \in Calls, Enter(p)
  PROVE  IInv'
<1>. USE DEF IInv
<1>1. /\ call[p].pc = "new" /\ call'[p] = [call[p] EXCEPT !.pc = "want"]
      /\ \A q \in Calls \ {p} : call'[q] = call[q]
      /\ call' \in [Calls -> [pc : CallPCs, cc : 0 .. Len(connClients)]]
      /\ call'[p].pc = "want"
      /\ UNCHANGED <<connClients, lock, scan, poll, outcome>>
  BY Types DEF Enter, CallPCs
<1>2. TypeOK'
  BY <1>1 DEF TypeOK
<1>3. \A q \in Calls : Chosen(q)' <=> Chosen(q) /\ call'[q] = call[q]
  BY <1>1 DEF Chosen
<1>4. Placed'
  <2>1. \A q \in Calls : /\ Chosen(q)' => call'[q].cc \in DOMAIN connClients'
                         /\ call'[q].pc \notin {"wait", "returned"} => outcome'[q] = Unsettled
    BY <1>1, <1>3 DEF Placed
  <2>2. \A i \in DOMAIN connClients : \A q \in Works(connClients[i]) :
          call'[q].pc = "wait" /\ call'[q].cc = i /\ outcome'[q] = Unsettled
    BY <1>1, WorksWait
  <2>. QED  BY <1>1, <2>1, <2>2 DEF Placed
<1>5. Scans' /\ \A s \in Scanners : (Scanning(s)' <=> Scanning(s)) /\ (AtChW(s)' <=> AtChW(s))
  BY <1>1, ScansKept
<1>6. Admitted'
  <2>1. Open' = Open \cup {p} /\ p \notin Open
    BY <1>1 DEF Open
  <2>2. Cardinality(Open) < Callers /\ IsFiniteSet(Open) /\ Cardinality(Open) \in Nat
    BY FS_CardinalityType DEF Enter, Admitted
  <2>3. IsFiniteSet(Open \cup {p}) /\ Cardinality(Open \cup {p}) = Cardinality(Open) + 1
    BY <2>1, <2>2, FS_AddElement
  <2>. QED  BY <2>1, <2>2, <2>3 DEF Admitted
<1>7. Paced'
  <2>1. \A s \in Scanners : Ahead(s)' \subseteq Ahead(s)
    BY <1>1, <1>3, <1>5 DEF Ahead
  <2>. QED  BY <1>1, <1>5, <2>1, PacedKept
<1>. QED  BY <1>1, <1>2, <1>4, <1>5, <1>6, <1>7 DEF ConnsBounded

\* A full chW, the works that are failed for it, and the return.
LEMMA EvictKept ==
  ASSUME IInv, NEW p \in Calls,
         \/ (Send(p) \/ Resend(p)) /\ ~HasRoom(p)
         \/ Evict(p) \/ Return(p)
  PROVE  IInv'
<1>. USE DEF IInv
<1>1. /\ Chosen(p) /\ call[p].cc \in DOMAIN connClients
      /\ outcome \in [Calls -> (Errors \cup {"none"}) \X Hands]
      /\ UNCHANGED <<lock, scan, poll>>
      /\ "overflow" \in Errors /\ NoCall \in Hands
  BY DEF Send, Evict, Resend, Return, Chosen, Placed, TypeOK, Errors, Hands
<1>2. \A q \in Calls : call[q].pc \notin {"wait", "returned"} => outcome[q] = Unsettled
  BY DEF Placed
<1>3. ASSUME NEW to \in {"evict", "resend", "returned"},
             call' = [call EXCEPT ![p].pc = to]
      PROVE  /\ call' \in [Calls -> [pc : CallPCs, cc : 0 .. Len(connClients)]]
             /\ \A q \in Calls : call'[q].cc = call[q].cc
             /\ \A q \in Calls \ {p} : call'[q] = call[q]
             /\ call'[p].pc = to
  BY <1>3, Types DEF CallPCs
<1>4. CASE Send(p) /\ ~HasRoom(p)
  <2>1. call[p].pc = "send" /\ call' = [call EXCEPT ![p].pc = "evict"]
        /\ UNCHANGED <<connClients, outcome>>
    BY <1>4 DEF Send
  <2>2. \A j \in DOMAIN connClients : \A q \in Works(connClients[j]) \ {} :
          call'[q].pc = "wait" /\ outcome'[q] = Unsettled
    BY <1>3, <2>1, WorksWait
  <2>. QED  BY <1>1, <1>2, <1>3, <2>1, <2>2, NoneShrinks, Kept
<1>5. CASE Evict(p)
  <2>. DEFINE cc == connClients[call[p].cc]
              gone == IF cc.chW = <<>> THEN {} ELSE {Head(cc.chW)}
              d == [cc EXCEPT !.chW = IF @ = <<>> THEN @ ELSE Tail(@)]
  <2>1. call[p].pc = "evict" /\ call' = [call EXCEPT ![p].pc = "resend"]
        /\ connClients' = [connClients EXCEPT ![call[p].cc] = d]
        /\ outcome' = IF cc.chW = <<>> THEN outcome
                      ELSE [outcome EXCEPT ![Head(cc.chW)] = <<"overflow", NoCall>>]
    BY <1>5 DEF Evict, Evicted
  <2>2. Shrinks(cc, d, gone) /\ gone \subseteq Works(cc)
    BY <1>1, AllSound, EvictSound
  <2>. HIDE DEF d, gone
  <2>3. /\ connClients' \in Seq(Conns) /\ Len(connClients') = Len(connClients)
        /\ \A j \in DOMAIN connClients : Shrinks(connClients[j], connClients'[j], gone)
    BY <1>1, <2>1, <2>2, OneShrinks
  <2>4. \A q \in gone : q \in Calls /\ call[q].pc = "wait"
    BY <1>1, <2>2, WorksWait
  <2>5. /\ outcome' \in [Calls -> (Errors \cup {"none"}) \X Hands]
        /\ \A q \in Calls \ gone : outcome'[q] = outcome[q]
    BY <1>1, <2>1, <2>4, Outcomes DEF gone
  <2>6. \A q \in Calls : call'[q].pc \notin {"wait", "returned"} => outcome'[q] = Unsettled
    BY <1>2, <1>3, <2>1, <2>4, <2>5
  <2>7. \A j \in DOMAIN connClients : \A q \in Works(connClients[j]) \ gone :
          call'[q].pc = "wait" /\ outcome'[q] = Unsettled
    BY <1>3, <2>1, <2>5, WorksWait
  <2>8. \A q \in Calls :
          \/ call'[q].pc = call[q].pc
          \/ call[q].pc \in {"send", "evict", "resend"} /\ call'[q].pc \in {"evict", "resend"}
    BY <1>3, <2>1
  <2>. QED  BY <1>1, <1>3, <2>1, <2>3, <2>5, <2>6, <2>7, <2>8, Kept
<1>6. CASE Resend(p) /\ ~HasRoom(p)
  <2>1. call[p].pc = "resend" /\ call' = [call EXCEPT ![p].pc = "returned"]
        /\ outcome' = [outcome EXCEPT ![p] = <<"overflow", NoCall>>] /\ UNCHANGED connClients
    BY <1>6 DEF Resend
  <2>2. /\ outcome' \in [Calls -> (Errors \cup {"none"}) \X Hands]
        /\ \A q \in Calls \ {p} : outcome'[q] = outcome[q]
    BY <1>1, <2>1, Outcomes
  <2>3. \A j \in DOMAIN connClients : \A q \in Works(connClients[j]) \ {} :
          call'[q].pc = "wait" /\ outcome'[q] = Unsettled
    BY <1>3, <2>1, <2>2, WorksWait
  <2>4. /\ call' \in [Calls -> [pc : CallPCs, cc : 0 .. Len(connClients)]]
        /\ \A q \in Calls : call'[q].cc = call[q].cc
        /\ \A q \in Calls \ {p} : call'[q] = call[q]
        /\ call'[p].pc = "returned"
    BY <1>3, <2>1
  <2>5. \A q \in Calls :
          /\ call'[q].pc # call[q].pc => Chosen(q) /\ call'[q].pc = "returned"
          /\ call'[q].pc \notin {"wait", "returned"} => outcome'[q] = Unsettled
    BY <1>1, <1>2, <2>2, <2>4
  <2>. QED  BY <1>1, <2>1, <2>2, <2>3, <2>4, <2>5, NoneShrinks, Kept
<1>7. CASE Return(p)
  <2>1. call[p].pc = "wait" /\ outcome[p] # Unsettled
        /\ call' = [call EXCEPT ![p].pc = "returned"] /\ UNCHANGED <<connClients, outcome>>
    BY <1>7 DEF Return
  <2>2. \A j \in DOMAIN connClients : \A q \in Works(connClients[j]) \ {} :
          call'[q].pc = "wait" /\ outcome'[q] = Unsettled
    BY <1>3, <2>1, WorksWait
  <2>3. /\ call' \in [Calls -> [pc : CallPCs, cc : 0 .. Len(connClients)]]
        /\ \A q \in Calls : call'[q].cc = call[q].cc
        /\ \A q \in Calls \ {p} : call'[q] = call[q]
        /\ call'[p].pc = "returned"
    BY <1>3, <2>1
  <2>4. \A q \in Calls :
          /\ call'[q].pc # call[q].pc => Chosen(q) /\ call'[q].pc = "returned"
          /\ call'[q].pc \notin {"wait", "returned"} => outcome'[q] = Unsettled
    BY <1>1, <1>2, <2>1, <2>3
  <2>. QED  BY <1>1, <2>1, <2>2, <2>3, <2>4, NoneShrinks, Kept
<1>. QED  BY <1>4, <1>5, <1>6, <1>7

LEMMA SentKept ==
  ASSUME IInv, NEW p \in Calls, (Send(p) \/ Resend(p)) /\ HasRoom(p)
  PROVE  IInv'
<1>. USE DEF IInv
<1>. DEFINE i == call[p].cc
            d == [connClients[i] EXCEPT !.chW = Append(connClients[i].chW, p)]
<1>1. /\ call[p].pc \in {"send", "resend"} /\ HasRoom(p)
      /\ connClients' = Enqueued(p) /\ call' = [call EXCEPT ![p].pc = "wait"]
      /\ UNCHANGED <<lock, scan, poll, outcome>>
  BY DEF Send, Resend
<1>2. i \in DOMAIN connClients /\ outcome[p] = Unsettled /\ Sound(connClients[i])
  BY <1>1, AllSound DEF Placed, Chosen
<1>3. \A j \in DOMAIN connClients : p \notin Works(connClients[j])
  BY <1>1, WorksWait
<1>4. Sound(d) /\ Works(d) = Works(connClients[i]) \cup {p}
      /\ Elems(d.chW) = Elems(connClients[i].chW) \cup {p}
  BY <1>1, <1>2, <1>3, SendSound DEF HasRoom
<1>5. connClients' = [connClients EXCEPT ![i] = d]
  BY <1>1 DEF Enqueued
<1>. HIDE DEF d
<1>6. /\ connClients' \in Seq(Conns) /\ Len(connClients') = Len(connClients)
      /\ \A j \in DOMAIN connClients : connClients'[j] = IF j = i THEN d ELSE connClients[j]
      /\ DOMAIN connClients' = DOMAIN connClients
  <2>1. d \in Conns
    BY <1>4 DEF Sound
  <2>. QED  BY <1>2, <1>5, <2>1, Types, ExceptSeq, LenProperties
<1>7. /\ call' \in [Calls -> [pc : CallPCs, cc : 0 .. Len(connClients)]]
      /\ \A q \in Calls : call'[q].cc = call[q].cc
      /\ \A q \in Calls \ {p} : call'[q] = call[q]
      /\ call'[p].pc = "wait"
  BY <1>1, Types DEF CallPCs
<1>8. TypeOK'
  <2>1. connClients' \in Seq([chW : Seq(Calls), writer : Hands,
                              chR : Seq(Calls), reader : Hands,
                              wire : Seq(Calls), writes : BOOLEAN, reads : BOOLEAN])
    BY <1>6 DEF Conns
  <2>2. \A j \in DOMAIN connClients' : Fits(connClients'[j])
    BY <1>4, <1>6, Types DEF Sound
  <2>. QED  BY <1>1, <1>6, <1>7, <2>1, <2>2 DEF TypeOK, Fits
<1>9. Placed'
  <2>1. \A q \in Calls : /\ Chosen(q)' => call'[q].cc \in DOMAIN connClients'
                         /\ call'[q].pc \notin {"wait", "returned"} => outcome'[q] = Unsettled
    BY <1>1, <1>2, <1>6, <1>7 DEF Placed, Chosen
  <2>2. ASSUME NEW j \in DOMAIN connClients', NEW q \in Works(connClients'[j])
        PROVE  call'[q].pc = "wait" /\ call'[q].cc = j /\ outcome'[q] = Unsettled
    <3>1. q \in Works(connClients[j]) \/ (q = p /\ j = i)
      <4>1. connClients'[j] = IF j = i THEN d ELSE connClients[j]
        BY <1>6
      <4>2. CASE j = i
        BY <1>4, <2>2, <4>1, <4>2
      <4>3. CASE j # i
        BY <2>2, <4>1, <4>3
      <4>. QED  BY <4>2, <4>3
    <3>2. CASE q \in Works(connClients[j])
      BY <1>1, <1>3, <1>6, <1>7, <3>2, WorksWait
    <3>3. CASE q = p /\ j = i
      BY <1>1, <1>2, <1>7, <3>3
    <3>. QED  BY <3>1, <3>2, <3>3
  <2>3. \A j \in DOMAIN connClients' :
          Exclusive(connClients'[j]) /\ Ordered(connClients'[j])
    BY <1>4, <1>6, AllSound DEF Sound
  <2>. QED  BY <2>1, <2>2, <2>3 DEF Placed
<1>10. /\ Scans'
       /\ \A s \in Scanners : (Scanning(s)' <=> Scanning(s)) /\ (AtChW(s)' <=> AtChW(s))
  BY <1>1, <1>6, <1>7, ScansKept
<1>11. Admitted'
  <2>1. Open' \subseteq Open
    BY <1>1, <1>7 DEF Open
  <2>. QED  BY <2>1, AdmittedKept
<1>12. Paced'
  <2>1. ASSUME NEW s \in Scanners, NEW q \in Ahead(s)'
        PROVE  q \in Ahead(s)
    <3>1. /\ q \in Calls /\ Chosen(q)' /\ call'[q].cc >= scan[s].next
          /\ AtChW(s)' /\ call'[q].cc = scan[s].next /\ call'[q].pc = "wait"
               => q \in Elems(connClients'[call'[q].cc].chW)
      BY <1>1, <2>1 DEF Ahead
    <3>2. CASE q = p
      BY <1>1, <1>7, <3>1, <3>2 DEF Ahead, Chosen
    <3>3. CASE q # p
      <4>1. Chosen(q) /\ call'[q] = call[q] /\ call[q].cc \in DOMAIN connClients
        BY <1>7, <3>1, <3>3 DEF Chosen, Placed
      <4>2. q \in Elems(connClients'[call[q].cc].chW) => q \in Elems(connClients[call[q].cc].chW)
        BY <1>4, <1>6, <3>3, <4>1
      <4>. QED  BY <1>10, <3>1, <4>1, <4>2 DEF Ahead
    <3>. QED  BY <3>2, <3>3
  <2>. QED  BY <1>1, <1>10, <2>1, PacedKept
<1>. QED  BY <1>6, <1>8, <1>9, <1>10, <1>11, <1>12 DEF ConnsBounded

-------------------------------------------------------------------------------
(* Steps of getConnClient and of PendingRequests.                          *)

\* The call takes a client, old or new, and unlocks.
LEMMA ChoiceKept ==
  ASSUME IInv, NEW p \in Calls, call[p].pc \in {"want", "readW"}, lock \in {NoCall, p},
         Release(p), UNCHANGED <<poll, outcome>>,
         connClients' \in Seq(Conns), Len(connClients) <= Len(connClients'),
         \A i \in DOMAIN connClients : connClients'[i] = connClients[i],
         \A i \in DOMAIN connClients' \ DOMAIN connClients : connClients'[i] = Idle,
         NEW k \in DOMAIN connClients',
         call' = [call EXCEPT ![p] = [pc |-> "send", cc |-> k]],
         Len(connClients') <= Limit, Len(connClients') <= Callers
  PROVE  IInv'
<1>. USE DEF IInv
<1>1. /\ DOMAIN connClients' = 1 .. Len(connClients') /\ Len(connClients') \in Nat
      /\ DOMAIN connClients = 1 .. Len(connClients) /\ Len(connClients) \in Nat
  BY Types, LenProperties
<1>2. /\ call' \in [Calls -> [pc : CallPCs, cc : 0 .. Len(connClients')]]
      /\ call'[p] = [pc |-> "send", cc |-> k]
      /\ \A q \in Calls \ {p} : call'[q] = call[q]
  <2>1. call \in [Calls -> [pc : CallPCs, cc : 0 .. Len(connClients')]]
    BY <1>1, Types
  <2>. QED  BY <1>1, <2>1 DEF CallPCs
<1>3. /\ Idle \in Conns /\ Fits(Idle) /\ Exclusive(Idle) /\ Ordered(Idle)
      /\ Works(Idle) = {}
  <2>1. Idle \in Conns /\ Fits(Idle) /\ Exclusive(Idle) /\ Works(Idle) = {}
    BY DEF Idle, Conns, Fits, Exclusive, Works, Elems, Distinct, Hands
  <2>2. <<>> = Wire(Chain(NoCall, <<>>, NoCall), <<>>)
    BY NothingAwaited
  <2>3. Ordered(Idle)
    BY <2>2, HandType DEF Idle, Ordered
  <2>. QED  BY <2>1, <2>3
<1>4. \A i \in DOMAIN connClients' : /\ Fits(connClients'[i]) /\ Exclusive(connClients'[i])
                                     /\ Ordered(connClients'[i])
                                     /\ i \in DOMAIN connClients \/ Works(connClients'[i]) = {}
  BY <1>3, AllSound DEF Sound
<1>5. lock' = NoCall /\ scan' = [scan EXCEPT ![p] = NoScan] /\ p \in Scanners
  BY DEF Release, Scanners
<1>6. TypeOK'
  <2>1. connClients' \in Seq([chW : Seq(Calls), writer : Hands,
                              chR : Seq(Calls), reader : Hands,
                              wire : Seq(Calls), writes : BOOLEAN, reads : BOOLEAN])
    BY DEF Conns
  <2>2. scan' \in [Scanners -> [next : Nat, n : Nat, min : Nat, minReqs : Nat, sum : Nat]]
    BY <1>5 DEF TypeOK, NoScan
  <2>. QED  BY <1>2, <1>4, <1>5, <2>1, <2>2 DEF TypeOK, Fits
<1>7. Placed'
  <2>1. \A q \in Calls : /\ Chosen(q)' => call'[q].cc \in DOMAIN connClients'
                         /\ call'[q].pc \notin {"wait", "returned"} => outcome'[q] = Unsettled
    BY <1>1, <1>2 DEF Placed, Chosen
  <2>2. \A i \in DOMAIN connClients' : \A q \in Works(connClients'[i]) :
          call'[q].pc = "wait" /\ call'[q].cc = i /\ outcome'[q] = Unsettled
    BY <1>2, <1>4, WorksWait
  <2>. QED  BY <1>4, <2>1, <2>2 DEF Placed
<1>8. \A s \in Scanners : ~Scanning(s)' /\ ~AtChW(s)' /\ scan'[s] = NoScan
  <2>1. ~Scanning(p)' /\ scan'[p] = NoScan
    BY <1>2, <1>5 DEF Scanning, TypeOK
  <2>2. ASSUME NEW s \in Scanners, s # p PROVE ~Scanning(s)' /\ scan'[s] = NoScan
    <3>1. s # NoCall
      BY DEF Scanners
    <3>2. ~Scanning(s) /\ scan[s] = NoScan
      BY <2>2, <3>1 DEF Scans
    <3>. QED  BY <1>2, <1>5, <2>2, <3>2 DEF Scanning, Scanners, TypeOK
  <2>. QED  BY <2>1, <2>2 DEF Scanning, AtChW
<1>9. Scans'
  BY <1>5, <1>8 DEF Scans, NoScan, Scanners
<1>10. Admitted'
  <2>1. Open' \subseteq Open
    BY <1>2 DEF Open
  <2>. QED  BY <2>1, AdmittedKept
<1>11. Paced'
  BY <1>8 DEF Paced
<1>. QED  BY <1>6, <1>7, <1>9, <1>10, <1>11 DEF ConnsBounded

LEMMA Split ==
  ASSUME NEW A, IsFiniteSet(A), NEW B, NEW C, B \subseteq A, C \subseteq A, B \cap C = {}
  PROVE  /\ Cardinality(A) \in Nat /\ Cardinality(B) \in Nat /\ Cardinality(C) \in Nat
         /\ Cardinality(B) + Cardinality(C) <= Cardinality(A)
<1>1. IsFiniteSet(B) /\ IsFiniteSet(C)
  BY FS_Subset
<1>2. Cardinality(B \cup C) = Cardinality(B) + Cardinality(C)
  <2>1. Cardinality(B \cup C) = Cardinality(B) + Cardinality(C) - Cardinality(B \cap C)
    BY <1>1, FS_Union
  <2>2. Cardinality(B \cap C) = 0
    BY FS_EmptySet
  <2>. QED  BY <1>1, <2>1, <2>2, FS_CardinalityType
<1>3. Cardinality(B \cup C) <= Cardinality(A)
  BY FS_Subset
<1>. QED  BY <1>1, <1>2, <1>3, FS_CardinalityType

\* What a scan counts next is among the calls ahead of it.
LEMMA Counts ==
  ASSUME IInv, NEW s \in Scanners, scan[s].next \in DOMAIN connClients
  PROVE  LET cc == connClients[scan[s].next] IN
         /\ Len(cc.chR) \in Nat /\ Cardinality(Elems(cc.chR)) = Len(cc.chR)
         /\ Len(cc.chW) \in Nat /\ Cardinality(Elems(cc.chW)) = Len(cc.chW)
         /\ ~AtChW(s) => Elems(cc.chR) \subseteq Ahead(s)
         /\ AtChW(s) => Elems(cc.chW) \subseteq Ahead(s)
         /\ Elems(cc.chR) \cap Elems(cc.chW) = {}
<1>. DEFINE cc == connClients[scan[s].next]
<1>1. Sound(cc) /\ scan[s].next \in Nat
  BY AllSound, Types DEF IInv
<1>2. /\ cc.chR \in Seq(Calls) /\ cc.chW \in Seq(Calls) /\ Distinct(cc.chR) /\ Distinct(cc.chW)
      /\ Elems(cc.chR) \cap Elems(cc.chW) = {}
  BY <1>1 DEF Sound, Conns, Exclusive
<1>3. \A q \in Elems(cc.chR) \cup Elems(cc.chW) :
        q \in Calls /\ call[q].pc = "wait" /\ call[q].cc = scan[s].next
  BY WorksWait DEF IInv, Works
<1>4. \A q \in Elems(cc.chR) \cup Elems(cc.chW) :
        Chosen(q) /\ call[q].cc >= scan[s].next
  BY <1>1, <1>3 DEF Chosen
<1>5. ~AtChW(s) => Elems(cc.chR) \subseteq Ahead(s)
  BY <1>3, <1>4 DEF Ahead
<1>6. AtChW(s) => Elems(cc.chW) \subseteq Ahead(s)
  BY <1>3, <1>4 DEF Ahead
<1>7. /\ Len(cc.chR) \in Nat /\ Cardinality(Elems(cc.chR)) = Len(cc.chR)
      /\ Len(cc.chW) \in Nat /\ Cardinality(Elems(cc.chW)) = Len(cc.chW)
  BY <1>2, ElemsCount
<1>. QED  BY <1>2, <1>5, <1>6, <1>7

Looking == {"want", "readR", "readW"}

\* A step of a scan that chooses nothing.
LEMMA LookKept ==
  ASSUME IInv, UNCHANGED <<connClients, outcome>>,
         call' \in [Calls -> [pc : CallPCs, cc : 0 .. Len(connClients)]],
         \A q \in Calls : call'[q] = call[q] \/ {call[q].pc, call'[q].pc} \subseteq Looking,
         lock' \in Scanners \cup {NoCall}, poll' \in PollPCs,
         scan' \in [Scanners -> [next : Nat, n : Nat, min : Nat, minReqs : Nat, sum : Nat]]
  PROVE  /\ TypeOK' /\ Placed' /\ Admitted' /\ ConnsBounded' /\ Open' = Open
         /\ \A q \in Calls : Chosen(q)' => Chosen(q) /\ call'[q] = call[q]
<1>. USE DEF IInv
<1>1. \A q \in Calls : (Chosen(q)' <=> Chosen(q)) /\ (Chosen(q) => call'[q] = call[q])
  BY DEF Chosen, Looking
<1>2. TypeOK'
  BY DEF TypeOK
<1>3. Placed'
  <2>1. \A q \in Calls : /\ Chosen(q)' => call'[q].cc \in DOMAIN connClients'
                         /\ call'[q].pc \notin {"wait", "returned"} => outcome'[q] = Unsettled
    BY <1>1 DEF Placed, Looking
  <2>2. \A i \in DOMAIN connClients : \A q \in Works(connClients[i]) :
          call'[q].pc = "wait" /\ call'[q].cc = i /\ outcome'[q] = Unsettled
    <3>. SUFFICES ASSUME NEW i \in DOMAIN connClients, NEW q \in Works(connClients[i])
                  PROVE  call'[q].pc = "wait" /\ call'[q].cc = i /\ outcome'[q] = Unsettled
      OBVIOUS
    <3>1. q \in Calls /\ call[q].pc = "wait" /\ call[q].cc = i /\ outcome[q] = Unsettled
      BY WorksWait
    <3>. QED  BY <1>1, <3>1 DEF Chosen
  <2>. QED  BY <2>1, <2>2 DEF Placed
<1>4. Open' = Open
  BY DEF Open, Looking
<1>5. Admitted'
  BY <1>4 DEF Admitted
<1>. QED  BY <1>1, <1>2, <1>3, <1>4, <1>5 DEF ConnsBounded

\* s holds the lock and looks on: r is what it knows then.
LEMMA ScanKept ==
  ASSUME IInv, NEW s \in Scanners, lock \in {NoCall, s}, lock' = s,
         NEW r \in [next : Nat, n : Nat, min : Nat, minReqs : Nat, sum : Nat],
         scan' = [scan EXCEPT ![s] = r], UNCHANGED <<connClients, outcome>>,
         \/ /\ s \in Calls /\ UNCHANGED poll
            /\ \E pc \in {"readR", "readW"} : call' = [call EXCEPT ![s].pc = pc]
            /\ call[s].pc \in Looking
         \/ s = Poll /\ UNCHANGED call /\ poll' \in {"readR", "readW"},
         r.next >= 1, r.min < r.next,
         s \in Calls => r.next <= Len(connClients) /\ r.sum >= r.next - 1,
         AtChW(s)' => r.next <= Len(connClients),
         ~AtChW(s)' => r.n = 0,
         r.sum + r.n + Cardinality(Ahead(s)') + Own(s) <= Callers
  PROVE  IInv'
<1>. USE DEF IInv
<1>1. /\ call' \in [Calls -> [pc : CallPCs, cc : 0 .. Len(connClients)]]
      /\ \A q \in Calls : call'[q] = call[q] \/ {call[q].pc, call'[q].pc} \subseteq Looking
      /\ \A q \in Calls \ {s} : call'[q] = call[q]
      /\ s # Poll => call'[s].pc \in {"readR", "readW"} /\ poll' = poll
      /\ s = Poll => poll' \in {"readR", "readW"}
      /\ s # NoCall
  <2>1. CASE s \in Calls
    <3>1. PICK pc \in {"readR", "readW"} : call' = [call EXCEPT ![s].pc = pc]
      BY <2>1
    <3>0. call \in [Calls -> [pc : CallPCs, cc : 0 .. Len(connClients)]] /\ pc \in CallPCs
      BY Types DEF CallPCs
    <3>2. /\ call' \in [Calls -> [pc : CallPCs, cc : 0 .. Len(connClients)]]
          /\ call'[s].pc = pc
      <4>1. call'[s] = [call[s] EXCEPT !.pc = pc]
        BY <2>1, <3>0, <3>1
      <4>2. /\ [call[s] EXCEPT !.pc = pc] \in [pc : CallPCs, cc : 0 .. Len(connClients)]
            /\ [call[s] EXCEPT !.pc = pc].pc = pc
        <5>1. call[s] \in [pc : CallPCs, cc : 0 .. Len(connClients)]
          BY <2>1, <3>0
        <5>. QED  BY <3>0, <5>1
      <4>3. call' = [call EXCEPT ![s] = [call[s] EXCEPT !.pc = pc]]
        BY <3>1
      <4>. QED  BY <2>1, <3>0, <4>1, <4>2, <4>3
    <3>3. \A q \in Calls \ {s} : call'[q] = call[q]
      BY <3>0, <3>1
    <3>. QED  BY <2>1, <3>1, <3>2, <3>3 DEF Looking
  <2>2. CASE s = Poll
    BY <2>2, Types
  <2>. QED  BY <2>1, <2>2 DEF Scanners
<1>2. scan' \in [Scanners -> [next : Nat, n : Nat, min : Nat, minReqs : Nat, sum : Nat]]
      /\ scan'[s] = r /\ \A t \in Scanners \ {s} : scan'[t] = scan[t]
  BY DEF TypeOK
<1>3. TypeOK' /\ Placed' /\ Admitted' /\ ConnsBounded'
  <2>1. poll' \in PollPCs
    BY <1>1 DEF TypeOK, PollPCs
  <2>. QED  BY <1>1, <1>2, <2>1, LookKept
<1>4. Scanning(s)'
  BY <1>1 DEF Scanning, Scanners
<1>5. \A t \in Scanners \ {s} : ~Scanning(t)' /\ ~AtChW(t)' /\ scan'[t] = NoScan /\ lock' # t
  <2>. SUFFICES ASSUME NEW t \in Scanners, t # s
                PROVE  ~Scanning(t)' /\ ~AtChW(t)' /\ scan'[t] = NoScan
    OBVIOUS
  <2>1. t # NoCall
    BY DEF Scanners
  <2>2. ~Scanning(t) /\ scan[t] = NoScan
    BY <2>1 DEF Scans
  <2>3. CASE t = Poll
    <3>1. poll' = poll
      BY <1>1, <2>3
    <3>. QED  BY <1>2, <2>2, <2>3, <3>1 DEF Scanning, AtChW
  <2>4. CASE t \in Calls
    <3>1. call'[t] = call[t] /\ t # Poll
      BY <1>1, <2>4
    <3>. QED  BY <1>2, <2>2, <3>1 DEF Scanning, AtChW
  <2>. QED  BY <2>3, <2>4 DEF Scanners
<1>6. Scans'
  BY <1>2, <1>4, <1>5 DEF Scans, NoScan
<1>7. Paced'
  BY <1>2, <1>5 DEF Paced, Own
<1>. QED  BY <1>3, <1>6, <1>7

LEMMA StartKept ==
  ASSUME IInv, NEW s \in Scanners,
         \/ s \in Calls /\ Lock(s) /\ connClients # <<>>
         \/ s = Poll /\ PollLock
  PROVE  IInv'
<1>. USE DEF IInv
<1>. DEFINE r == [scan[s] EXCEPT !.next = 1]
<1>1. /\ lock = NoCall /\ lock' = s /\ scan' = [scan EXCEPT ![s] = r]
      /\ UNCHANGED <<connClients, outcome>>
      /\ s \in Calls => /\ call[s].pc = "want" /\ call' = [call EXCEPT ![s].pc = "readR"]
                        /\ UNCHANGED poll
      /\ s = Poll => UNCHANGED call /\ poll' = "readR"
      /\ s \in Calls => s # Poll /\ connClients # <<>>
  BY DEF Lock, PollLock
<1>2. scan[s] = NoScan
  BY <1>1 DEF Scans, Scanners
<1>3. r = [next |-> 1, n |-> 0, min |-> 0, minReqs |-> 0, sum |-> 0]
  BY <1>2 DEF NoScan
<1>4. s \in Calls => Len(connClients) >= 1
  BY <1>1, Types
<1>5. ~AtChW(s)'
  <2>1. s \in Calls => call'[s].pc = "readR"
    BY <1>1 DEF TypeOK
  <2>. QED  BY <1>1, <2>1 DEF AtChW, Scanners
<1>6. Cardinality(Ahead(s)') + Own(s) <= Callers /\ Cardinality(Ahead(s)') \in Nat
  <2>1. Cardinality(Open) <= Callers /\ IsFiniteSet(Open) /\ Cardinality(Open) \in Nat
    BY FS_CardinalityType DEF Admitted
  <2>2. CASE s \in Calls
    <3>1. /\ \A q \in Calls \ {s} : call'[q] = call[q]
          /\ call'[s].pc = "readR"
      BY <1>1, <2>2, SMTT(20) DEF TypeOK
    <3>2. Ahead(s)' \subseteq Open \ {s} /\ s \in Open
      BY <1>1, <2>2, <3>1 DEF Ahead, Open, Chosen
    <3>3. /\ IsFiniteSet(Open \ {s}) /\ Cardinality(Open \ {s}) = Cardinality(Open) - 1
      BY <2>1, <3>2, FS_RemoveElement
    <3>. QED  BY <2>1, <2>2, <3>2, <3>3, FS_Subset, FS_CardinalityType DEF Own
  <2>3. CASE s = Poll
    <3>1. Ahead(s)' \subseteq Open
      BY <1>1, <2>3 DEF Ahead, Open, Chosen
    <3>. QED  BY <2>1, <2>3, <3>1, FS_Subset, FS_CardinalityType DEF Own
  <2>. QED  BY <2>2, <2>3 DEF Scanners
<1>7. r.sum + r.n + Cardinality(Ahead(s)') + Own(s) <= Callers
  BY <1>3, <1>6 DEF Own
<1>8. \/ /\ s \in Calls /\ UNCHANGED poll
         /\ \E pc \in {"readR", "readW"} : call' = [call EXCEPT ![s].pc = pc]
         /\ call[s].pc \in Looking
      \/ s = Poll /\ UNCHANGED call /\ poll' \in {"readR", "readW"}
  BY <1>1 DEF Scanners, Looking
<1>9. /\ r \in [next : Nat, n : Nat, min : Nat, minReqs : Nat, sum : Nat]
      /\ r.next >= 1 /\ r.min < r.next /\ r.n = 0 /\ r.next = 1 /\ r.sum >= r.next - 1
  BY <1>3
<1>. HIDE DEF r
<1>. QED  BY <1>1, <1>4, <1>5, <1>7, <1>8, <1>9, ScanKept

LEMMA Adds ==
  ASSUME NEW sum \in Nat, NEW n \in Nat, NEW o \in Nat, NEW more \in Nat, NEW ahead \in Nat,
         NEW rest \in Nat, sum + n + ahead + o <= Callers, more + rest <= ahead
  PROVE  sum + (n + more) + rest + o <= Callers
OBVIOUS

LEMMA Grows ==
  ASSUME NEW sum \in Nat, NEW n \in Nat, NEW more \in Nat, NEW ahead \in Nat, NEW len \in Nat,
         sum + n + ahead + 1 <= Callers, more <= ahead, n + more >= 1, sum >= len - 1
  PROVE  len + 1 <= Callers
OBVIOUS

LEMMA CountIs ==
  \A s \in Scanners : /\ Count(s, 1) = Len(connClients[scan[s].next].chR)
                      /\ Count(s, 2) = Len(connClients[scan[s].next].chW)
<1>1. CountOrder[1] = "chR" /\ CountOrder[2] = "chW"
  BY DEF CountOrder
<1>. QED  BY <1>1 DEF Count

LEMMA FirstKept ==
  ASSUME IInv, NEW s \in Scanners, (s \in Calls /\ ScanR(s)) \/ (s = Poll /\ PollR)
  PROVE  IInv'
<1>. USE DEF IInv
<1>. DEFINE cc == connClients[scan[s].next]
            r == [scan[s] EXCEPT !.n = Len(cc.chR)]
<1>1. /\ scan' = [scan EXCEPT ![s] = r]
      /\ UNCHANGED <<connClients, lock, outcome>>
      /\ s \in Calls => /\ call[s].pc = "readR" /\ call' = [call EXCEPT ![s].pc = "readW"]
                        /\ UNCHANGED poll /\ s # Poll
      /\ s = Poll => /\ poll = "readR" /\ UNCHANGED call /\ poll' = "readW"
                     /\ scan[s].next <= Len(connClients)
  <2>1. Count(s, 1) = Len(cc.chR)
    BY CountIs
  <2>. QED  BY <2>1 DEF ScanR, PollR, ReadFirst
<1>2. Scanning(s) /\ ~AtChW(s) /\ lock = s /\ lock' = s
  BY <1>1 DEF Scanning, AtChW, Scans, Scanners
<1>3. /\ scan[s].next \in Nat /\ scan[s].sum \in Nat /\ scan[s].min \in Nat
      /\ scan[s].minReqs \in Nat /\ scan[s].n = 0 /\ scan[s].next >= 1
      /\ scan[s].min < scan[s].next /\ scan[s].next \in DOMAIN connClients
      /\ s \in Calls => scan[s].sum >= scan[s].next - 1
  <2>1. scan[s].next <= Len(connClients)
    BY <1>1, <1>2 DEF Scans, Scanners
  <2>. QED  BY <1>2, <2>1, Types DEF Scans
<1>4. /\ Len(cc.chR) \in Nat /\ Cardinality(Elems(cc.chR)) = Len(cc.chR)
      /\ Elems(cc.chR) \subseteq Ahead(s) /\ Elems(cc.chR) \cap Elems(cc.chW) = {}
      /\ \A q \in Elems(cc.chR) : call[q].pc = "wait" /\ call[q].cc = scan[s].next
  BY <1>2, <1>3, Counts, WorksWait DEF Works
<1>. HIDE DEF cc
<1>5. /\ r \in [next : Nat, n : Nat, min : Nat, minReqs : Nat, sum : Nat]
      /\ r.next = scan[s].next /\ r.n = Len(cc.chR) /\ r.sum = scan[s].sum
      /\ r.min = scan[s].min
      /\ r.next >= 1 /\ r.min < r.next /\ r.next <= Len(connClients)
  <2>1. scan[s] \in [next : Nat, n : Nat, min : Nat, minReqs : Nat, sum : Nat]
    BY DEF TypeOK
  <2>2. /\ r \in [next : Nat, n : Nat, min : Nat, minReqs : Nat, sum : Nat]
        /\ r.next = scan[s].next /\ r.n = Len(cc.chR) /\ r.sum = scan[s].sum
        /\ r.min = scan[s].min
    BY <1>4, <2>1
  <2>3. scan[s].next <= Len(connClients)
    BY <1>3, Types
  <2>. HIDE DEF r
  <2>. QED  BY <1>3, <2>2, <2>3
<1>. HIDE DEF r
<1>6. AtChW(s)' /\ scan'[s] = r
  <2>1. s \in Calls => call'[s].pc = "readW"
    BY <1>1 DEF TypeOK
  <2>. QED  BY <1>1, <2>1 DEF AtChW, Scanners, TypeOK
<1>7. \/ /\ s \in Calls /\ UNCHANGED poll
         /\ \E pc \in {"readR", "readW"} : call' = [call EXCEPT ![s].pc = pc]
         /\ call[s].pc \in Looking
      \/ s = Poll /\ UNCHANGED call /\ poll' \in {"readR", "readW"}
  BY <1>1 DEF Scanners, Looking
<1>8. \A q \in Calls : Chosen(q)' => Chosen(q) /\ call'[q] = call[q]
  <2>1. CASE s \in Calls
    <3>1. call'[s].pc = "readW" /\ \A q \in Calls \ {s} : call'[q] = call[q]
      BY <1>1, <2>1 DEF TypeOK
    <3>. QED  BY <3>1 DEF Chosen
  <2>2. CASE s = Poll
    BY <1>1, <2>2 DEF Chosen
  <2>. QED  BY <2>1, <2>2 DEF Scanners
<1>9. Ahead(s)' \subseteq Ahead(s) /\ Elems(cc.chR) \cap Ahead(s)' = {}
  <2>1. ASSUME NEW q \in Ahead(s)' PROVE q \in Ahead(s) /\ q \notin Elems(cc.chR)
    <3>1. /\ q \in Calls /\ Chosen(q) /\ call[q].cc >= scan[s].next
          /\ call[q].cc = scan[s].next /\ call[q].pc = "wait" => q \in Elems(cc.chW)
      BY <1>1, <1>5, <1>6, <1>8, <2>1 DEF Ahead, cc
    <3>. QED  BY <1>2, <1>4, <3>1 DEF Ahead
  <2>. QED  BY <2>1
<1>10. r.sum + r.n + Cardinality(Ahead(s)') + Own(s) <= Callers
  <2>1. IsFiniteSet(Ahead(s))
    BY AheadOpen
  <2>2. /\ Cardinality(Ahead(s)) \in Nat /\ Cardinality(Ahead(s)') \in Nat
        /\ Len(cc.chR) + Cardinality(Ahead(s)') <= Cardinality(Ahead(s))
    BY <1>4, <1>9, <2>1, Split
  <2>3. scan[s].sum + 0 + Cardinality(Ahead(s)) + Own(s) <= Callers
    BY <1>2, <1>3 DEF Paced
  <2>4. Own(s) \in Nat
    BY DEF Own
  <2>5. r.sum = scan[s].sum /\ r.n = Len(cc.chR) /\ scan[s].sum \in Nat /\ Len(cc.chR) \in Nat
    BY <1>3, <1>4, <1>5
  <2>6. scan[s].sum + (0 + Len(cc.chR)) + Cardinality(Ahead(s)') + Own(s) <= Callers
    BY <2>2, <2>3, <2>4, <2>5, Adds
  <2>7. 0 + Len(cc.chR) = Len(cc.chR)
    BY <2>5
  <2>. QED  BY <2>5, <2>6, <2>7
<1>11. s \in Calls => r.sum >= r.next - 1
  BY <1>3, <1>5
<1>. QED  BY <1>1, <1>2, <1>5, <1>6, <1>7, <1>10, <1>11, ScanKept

LEMMA AdvanceKept ==
  ASSUME IInv, NEW s \in Scanners,
         \/ s \in Calls /\ ScanW(s) /\ ~NonePending(s) /\ scan[s].next < Len(connClients)
         \/ s = Poll /\ PollW
  PROVE  IInv'
<1>. USE DEF IInv
<1>. DEFINE cc == connClients[scan[s].next]
<1>1. /\ UNCHANGED <<connClients, lock, outcome>>
      /\ s \in Calls => /\ call[s].pc = "readW" /\ call' = [call EXCEPT ![s].pc = "readR"]
                        /\ UNCHANGED poll /\ s # Poll /\ Advance(s)
                        /\ Reqs(s) # 0 /\ scan[s].next < Len(connClients)
      /\ s = Poll => /\ poll = "readW" /\ UNCHANGED call /\ poll' = "readR"
  <2>1. ASSUME s \in Calls, ScanW(s), ~NonePending(s), scan[s].next < Len(connClients)
        PROVE  Advance(s) /\ call' = [call EXCEPT ![s].pc = "readR"]
               /\ UNCHANGED <<connClients, lock, poll, outcome>> /\ call[s].pc = "readW"
    <3>1. scan[s].next # Len(connClients)
      BY <2>1, Types DEF Scanners
    <3>. QED  BY <2>1, <3>1 DEF ScanW
  <2>. QED  BY <2>1 DEF PollW, NonePending
<1>2. Scanning(s) /\ AtChW(s) /\ lock = s /\ lock' = s
  BY <1>1 DEF Scanning, AtChW, Scans, Scanners
<1>3. /\ scan[s].next \in Nat /\ scan[s].sum \in Nat /\ scan[s].min \in Nat
      /\ scan[s].minReqs \in Nat /\ scan[s].n \in Nat /\ scan[s].next >= 1
      /\ scan[s].min < scan[s].next /\ scan[s].next \in DOMAIN connClients
      /\ s \in Calls => scan[s].sum >= scan[s].next - 1
  BY <1>2, Types DEF Scans
<1>4. /\ Len(cc.chW) \in Nat /\ Cardinality(Elems(cc.chW)) = Len(cc.chW)
      /\ Elems(cc.chW) \subseteq Ahead(s)
      /\ \A q \in Elems(cc.chW) : call[q].cc = scan[s].next
  BY <1>2, <1>3, Counts, WorksWait DEF Works
<1>5. Reqs(s) = scan[s].n + Len(cc.chW)
  BY CountIs DEF Reqs
<1>. HIDE DEF cc
<1>6. PICK r :
        /\ r \in [next : Nat, n : Nat, min : Nat, minReqs : Nat, sum : Nat]
        /\ scan' = [scan EXCEPT ![s] = r]
        /\ r.next = scan[s].next + 1 /\ r.n = 0 /\ r.sum = scan[s].sum + Reqs(s)
        /\ r.min < r.next
  <2>1. MinCC(s) \in Nat /\ MinCC(s) < scan[s].next + 1 /\ MinReqs(s) \in Nat /\ Reqs(s) \in Nat
    <3>1. Reqs(s) \in Nat
      BY <1>3, <1>4, <1>5
    <3>. QED  BY <1>3, <3>1 DEF MinCC, MinReqs
  <2>2. CASE s \in Calls
    <3>. DEFINE r == [next |-> scan[s].next + 1, n |-> 0, min |-> MinCC(s),
                      minReqs |-> MinReqs(s), sum |-> scan[s].sum + Reqs(s)]
    <3>1. scan' = [scan EXCEPT ![s] = r]
      BY <1>1, <2>2 DEF Advance
    <3>2. /\ r \in [next : Nat, n : Nat, min : Nat, minReqs : Nat, sum : Nat]
          /\ r.next = scan[s].next + 1 /\ r.n = 0 /\ r.sum = scan[s].sum + Reqs(s)
          /\ r.min < r.next
      BY <1>3, <2>1
    <3>. HIDE DEF r
    <3>. QED  BY <3>1, <3>2
  <2>3. CASE s = Poll /\ PollW
    <3>. DEFINE r == [NoScan EXCEPT !.next = scan[s].next + 1, !.sum = scan[s].sum + Reqs(s)]
    <3>1. scan' = [scan EXCEPT ![s] = r]
      BY <2>3 DEF PollW
    <3>2. /\ r \in [next : Nat, n : Nat, min : Nat, minReqs : Nat, sum : Nat]
          /\ r.next = scan[s].next + 1 /\ r.n = 0 /\ r.sum = scan[s].sum + Reqs(s)
          /\ r.min = 0
      <4>1. scan[s].next + 1 \in Nat /\ scan[s].sum + Reqs(s) \in Nat
        BY <1>3, <2>1, SMTT(20)
      <4>2. NoScan \in [next : Nat, n : Nat, min : Nat, minReqs : Nat, sum : Nat]
            /\ NoScan.n = 0 /\ NoScan.min = 0
        BY DEF NoScan
      <4>. QED  BY <4>1, <4>2
    <3>3. r.min < r.next
      BY <1>3, <3>2
    <3>. HIDE DEF r
    <3>. QED  BY <3>1, <3>2, <3>3
  <2>. QED  BY <2>2, <2>3
<1>7. ~AtChW(s)' /\ scan'[s] = r
  <2>1. s \in Calls => call'[s].pc = "readR"
    BY <1>1 DEF TypeOK
  <2>. QED  BY <1>1, <1>6, <2>1 DEF AtChW, Scanners, TypeOK
<1>8. \/ /\ s \in Calls /\ UNCHANGED poll
         /\ \E pc \in {"readR", "readW"} : call' = [call EXCEPT ![s].pc = pc]
         /\ call[s].pc \in Looking
      \/ s = Poll /\ UNCHANGED call /\ poll' \in {"readR", "readW"}
  BY <1>1 DEF Scanners, Looking
<1>9. \A q \in Calls : Chosen(q)' => Chosen(q) /\ call'[q] = call[q]
  <2>1. CASE s \in Calls
    <3>1. call'[s].pc = "readR" /\ \A q \in Calls \ {s} : call'[q] = call[q]
      BY <1>1, <2>1, SMTT(20) DEF TypeOK
    <3>. QED  BY <3>1 DEF Chosen
  <2>2. CASE s = Poll
    BY <1>1, <2>2 DEF Chosen
  <2>. QED  BY <2>1, <2>2 DEF Scanners
<1>10. Ahead(s)' \subseteq Ahead(s) /\ Elems(cc.chW) \cap Ahead(s)' = {}
  <2>1. ASSUME NEW q \in Ahead(s)' PROVE q \in Ahead(s) /\ q \notin Elems(cc.chW)
    <3>1. q \in Calls /\ Chosen(q) /\ call[q].cc >= scan[s].next + 1 /\ call[q].cc \in Nat
      BY <1>6, <1>7, <1>9, <2>1, Types DEF Ahead
    <3>2. call[q].cc >= scan[s].next /\ call[q].cc # scan[s].next
      BY <1>3, <3>1
    <3>. QED  BY <1>4, <3>1, <3>2 DEF Ahead
  <2>. QED  BY <2>1
<1>11. r.sum + r.n + Cardinality(Ahead(s)') + Own(s) <= Callers
  <2>1. IsFiniteSet(Ahead(s))
    BY AheadOpen
  <2>2. /\ Cardinality(Ahead(s)) \in Nat /\ Cardinality(Ahead(s)') \in Nat
        /\ Len(cc.chW) + Cardinality(Ahead(s)') <= Cardinality(Ahead(s))
    BY <1>4, <1>10, <2>1, Split
  <2>3. scan[s].sum + scan[s].n + Cardinality(Ahead(s)) + Own(s) <= Callers
    BY <1>2 DEF Paced
  <2>4. Own(s) \in Nat
    BY DEF Own
  <2>5. scan[s].sum \in Nat /\ scan[s].n \in Nat /\ Len(cc.chW) \in Nat
    BY <1>3, <1>4
  <2>6. scan[s].sum + (scan[s].n + Len(cc.chW)) + Cardinality(Ahead(s)') + Own(s) <= Callers
    BY <2>2, <2>3, <2>4, <2>5, Adds
  <2>7. r.sum + r.n = scan[s].sum + (scan[s].n + Len(cc.chW))
    BY <1>5, <1>6, <2>5
  <2>. QED  BY <2>6, <2>7
<1>12. /\ r.next >= 1
       /\ s \in Calls => r.next <= Len(connClients) /\ r.sum >= r.next - 1
  <2>1. Reqs(s) \in Nat /\ Len(connClients) \in Nat
    BY <1>3, <1>4, <1>5, Types
  <2>2. s \in Calls => /\ scan[s].next < Len(connClients) /\ Reqs(s) # 0
                      /\ scan[s].sum >= scan[s].next - 1
    BY <1>1, <1>3
  <2>3. /\ r.next = scan[s].next + 1 /\ r.sum = scan[s].sum + Reqs(s)
        /\ scan[s].next \in Nat /\ scan[s].sum \in Nat
    BY <1>3, <1>6
  <2>. QED  BY <2>1, <2>2, <2>3
<1>. QED  BY <1>1, <1>2, <1>6, <1>7, <1>8, <1>11, <1>12, ScanKept

LEMMA NewKept ==
  ASSUME IInv, NEW p \in Calls, call[p].pc \in {"want", "readW"}, lock \in {NoCall, p},
         New(p), UNCHANGED <<poll, outcome>>,
         Len(connClients) < Limit, Len(connClients) + 1 <= Callers
  PROVE  IInv'
<1>1. /\ connClients \in Seq(Conns) /\ Len(connClients) \in Nat /\ Limit \in Nat
      /\ DOMAIN connClients = 1 .. Len(connClients)
  BY Types DEF IInv, Limit
<1>2. /\ connClients' = Append(connClients, Idle) /\ Release(p)
      /\ call' = [call EXCEPT ![p] = [pc |-> "send", cc |-> Len(connClients) + 1]]
  BY DEF New
<1>3. Idle \in Conns
  BY DEF Idle, Conns, Hands
<1>4. /\ connClients' \in Seq(Conns) /\ Len(connClients') = Len(connClients) + 1
      /\ \A i \in 1 .. Len(connClients) : connClients'[i] = connClients[i]
      /\ connClients'[Len(connClients) + 1] = Idle
      /\ DOMAIN connClients' = 1 .. Len(connClients) + 1
  BY <1>1, <1>2, <1>3, AppendProperties, LenProperties
<1>5. Len(connClients) + 1 \in DOMAIN connClients'
  BY <1>1, <1>4
<1>6. \A i \in DOMAIN connClients' \ DOMAIN connClients : connClients'[i] = Idle
  BY <1>1, <1>4
<1>7. Len(connClients') <= Limit /\ Len(connClients') <= Callers
      /\ Len(connClients) <= Len(connClients')
  BY <1>1, <1>4
<1>8. \A i \in DOMAIN connClients : connClients'[i] = connClients[i]
  BY <1>1, <1>4
<1>. QED  BY <1>2, <1>4, <1>5, <1>6, <1>7, <1>8, ChoiceKept

LEMMA ChooseKept ==
  ASSUME IInv, NEW p \in Calls, call[p].pc = "readW", lock \in {NoCall, p},
         NEW i \in DOMAIN connClients, Choose(p, i), UNCHANGED <<poll, outcome>>
  PROVE  IInv'
<1>1. /\ connClients \in Seq(Conns) /\ Len(connClients) <= Limit /\ Len(connClients) <= Callers
      /\ Len(connClients) \in Nat
  BY Types DEF IInv, ConnsBounded
<1>2. /\ UNCHANGED connClients /\ Release(p)
      /\ call' = [call EXCEPT ![p] = [pc |-> "send", cc |-> i]]
  BY DEF Choose
<1>3. /\ connClients' \in Seq(Conns) /\ Len(connClients) <= Len(connClients')
      /\ Len(connClients') <= Limit /\ Len(connClients') <= Callers
      /\ \A j \in DOMAIN connClients : connClients'[j] = connClients[j]
      /\ \A j \in DOMAIN connClients' \ DOMAIN connClients : connClients'[j] = Idle
      /\ i \in DOMAIN connClients'
  BY <1>1, <1>2
<1>. QED  BY <1>2, <1>3, ChoiceKept

LEMMA LockKept ==
  ASSUME IInv, NEW p \in Calls, Lock(p)
  PROVE  IInv'
<1>1. CASE connClients # <<>>
  BY <1>1, StartKept DEF Scanners
<1>2. CASE connClients = <<>>
  <2>1. /\ call[p].pc = "want" /\ lock = NoCall /\ New(p) /\ UNCHANGED <<poll, outcome>>
    BY <1>2 DEF Lock
  <2>2. Len(connClients) = 0 /\ Limit \in Nat \ {0}
    BY <1>2 DEF Limit
  <2>. QED  BY <2>1, <2>2, NewKept
<1>. QED  BY <1>1, <1>2

LEMMA ScanWKept ==
  ASSUME IInv, NEW p \in Calls, ScanW(p)
  PROVE  IInv'
<1>. DEFINE cc == connClients[scan[p].next]
<1>1. /\ p \in Scanners /\ p # Poll /\ call[p].pc = "readW" /\ UNCHANGED <<poll, outcome>>
      /\ Scanning(p) /\ AtChW(p)
  BY DEF ScanW, Scanners, Scanning, AtChW
<1>2. /\ lock = p /\ scan[p].next \in Nat /\ scan[p].min \in Nat /\ scan[p].sum \in Nat
      /\ scan[p].n \in Nat /\ scan[p].next >= 1 /\ scan[p].min < scan[p].next
      /\ scan[p].next \in DOMAIN connClients /\ scan[p].sum >= scan[p].next - 1
      /\ DOMAIN connClients = 1 .. Len(connClients) /\ Len(connClients) \in Nat
  BY <1>1, Types DEF IInv, Scans
<1>3. CASE NonePending(p) /\ Choose(p, scan[p].next)
  BY <1>1, <1>2, <1>3, ChooseKept
<1>4. CASE ~NonePending(p) /\ scan[p].next < Len(connClients)
  BY <1>1, <1>4, AdvanceKept
<1>5. CASE scan[p].next = Len(connClients) /\ ~NonePending(p) /\ MayGrow /\ New(p)
  <2>1. /\ Len(cc.chW) \in Nat /\ Cardinality(Elems(cc.chW)) = Len(cc.chW)
        /\ Elems(cc.chW) \subseteq Ahead(p)
    BY <1>1, <1>2, Counts
  <2>2. Reqs(p) = scan[p].n + Len(cc.chW) /\ Reqs(p) # 0
    BY <1>1, <1>5, CountIs DEF Reqs, NonePending
  <2>. HIDE DEF cc
  <2>3. Cardinality(Ahead(p)) \in Nat /\ Len(cc.chW) <= Cardinality(Ahead(p))
    BY <1>1, <2>1, AheadOpen, FS_Subset DEF IInv
  <2>4. scan[p].sum + scan[p].n + Cardinality(Ahead(p)) + 1 <= Callers
    BY <1>1 DEF IInv, Paced, Own
  <2>5. scan[p].n + Len(cc.chW) >= 1
    BY <1>2, <2>1, <2>2
  <2>6. scan[p].sum >= Len(connClients) - 1
    BY <1>2, <1>5
  <2>7. Len(connClients) + 1 <= Callers
    BY <1>2, <2>1, <2>3, <2>4, <2>5, <2>6, Grows
  <2>. QED  BY <1>1, <1>2, <1>5, <2>7, NewKept DEF MayGrow
<1>6. CASE Choose(p, MinCC(p))
  <2>1. MinCC(p) \in DOMAIN connClients
    BY <1>2 DEF MinCC, Fewer
  <2>. QED  BY <1>1, <1>2, <1>6, <2>1, ChooseKept
<1>. QED  BY <1>3, <1>4, <1>5, <1>6 DEF ScanW

LEMMA PollReturnKept ==
  ASSUME IInv, PollReturn
  PROVE  IInv'
<1>. USE DEF IInv
<1>1. /\ poll = "readR" /\ poll' = "idle" /\ lock' = NoCall
      /\ scan' = [scan EXCEPT ![Poll] = NoScan] /\ UNCHANGED <<connClients, call, outcome>>
      /\ Poll \in Scanners
  BY DEF PollReturn, Release, Scanners
<1>2. /\ scan' \in [Scanners -> [next : Nat, n : Nat, min : Nat, minReqs : Nat, sum : Nat]]
      /\ scan'[Poll] = NoScan /\ \A s \in Scanners \ {Poll} : scan'[s] = scan[s]
  BY <1>1 DEF TypeOK, NoScan
<1>3. TypeOK' /\ Placed' /\ Admitted' /\ ConnsBounded'
  <2>1. poll' \in PollPCs /\ lock' \in Scanners \cup {NoCall}
    BY <1>1 DEF PollPCs
  <2>. QED  BY <1>1, <1>2, <2>1, Types, LookKept
<1>4. lock = Poll
  BY <1>1 DEF Scans, Scanning
<1>5. \A s \in Scanners : ~Scanning(s)' /\ ~AtChW(s)' /\ scan'[s] = NoScan /\ lock' # s
  <2>1. ~Scanning(Poll)' /\ ~AtChW(Poll)'
    BY <1>1 DEF Scanning, AtChW
  <2>2. ASSUME NEW s \in Scanners \ {Poll}
        PROVE  ~Scanning(s)' /\ ~AtChW(s)' /\ scan'[s] = NoScan
    BY <1>1, <1>2, <1>4 DEF Scans, Scanning, AtChW
  <2>. QED  BY <1>1, <1>2, <2>1, <2>2 DEF Scanners
<1>6. Scans' /\ Paced'
  BY <1>5 DEF Scans, Paced, NoScan
<1>. QED  BY <1>3, <1>6

-------------------------------------------------------------------------------
(* The invariant holds.                                                    *)

LEMMA IInvInit == Init => IInv
<1>. SUFFICES ASSUME Init PROVE IInv
  OBVIOUS
<1>. USE DEF Init
<1>1. TypeOK
  BY EmptySeq DEF TypeOK, Scanners, NoScan, CallPCs, PollPCs, Unsettled, Hands
<1>2. Placed
  BY DEF Placed, Chosen
<1>3. Scans
  BY DEF Scans, Scanning, AtChW, Scanners, NoScan
<1>4. Admitted
  <2>1. Open = {}
    BY DEF Open
  <2>. QED  BY <2>1, FS_EmptySet DEF Admitted
<1>5. Paced
  BY DEF Paced, Scanning, Scanners
<1>6. ConnsBounded
  <2>1. Len(connClients) = 0 /\ Limit \in Nat
    BY DEF Limit
  <2>. QED  BY <2>1 DEF ConnsBounded
<1>. QED  BY <1>1, <1>2, <1>3, <1>4, <1>5, <1>6 DEF IInv

LEMMA IInvStep == IInv /\ [Next]_vars => IInv'
<1>. SUFFICES ASSUME IInv, [Next]_vars PROVE IInv'
  OBVIOUS
<1>1. ASSUME NEW p \in Calls, Enter(p) \/ CallStep(p) PROVE IInv'
  <2>1. Poll \in Scanners /\ p \in Scanners
    BY DEF Scanners
  <2>. QED  BY <1>1, <2>1, EnterKept, LockKept, FirstKept, ScanWKept, SentKept, EvictKept
            DEF CallStep
<1>2. CASE PollLock \/ PollR \/ PollW \/ PollReturn
  <2>1. Poll \in Scanners
    BY DEF Scanners
  <2>. QED  BY <1>2, <2>1, StartKept, FirstKept, AdvanceKept, PollReturnKept
<1>3. ASSUME NEW i \in DOMAIN connClients, ConnStep(i) PROVE IInv'
  BY <1>3, ConnStepKept
<1>4. CASE UNCHANGED vars
  BY <1>4 DEF vars, IInv, TypeOK, Placed, Scans, Admitted, Paced, ConnsBounded, Open, Chosen,
              AtChW, Scanning, Ahead
<1>. QED  BY <1>1, <1>2, <1>3, <1>4 DEF Next

LEMMA IInvAlways == Spec => []IInv
BY IInvInit, IInvStep, PTL DEF Spec

\* The types, of the client's fields and of the positions of its callers, hold
\* whatever the number of calls and of connection clients.
THEOREM TypeCorrect == Spec => []TypeOK
<1>1. IInv => TypeOK
  BY DEF IInv
<1>. QED  BY <1>1, IInvAlways, PTL

\* getConnClient never makes more connection clients than MaxConns, nor than
\* goroutines call Do, whatever the channels hold while it asks for their length.
THEOREM ConnsBoundedAlways == Spec => []ConnsBounded
<1>1. IInv => ConnsBounded
  BY DEF IInv
<1>. QED  BY <1>1, IInvAlways, PTL

\* A scan counts no goroutine twice, although works move from channel to channel
\* and calls return while it goes on, because chR is counted before chW.
THEOREM CountedOnceAlways == Spec => []CountedOnce
<1>1. ASSUME IInv PROVE CountedOnce
  <2>. SUFFICES ASSUME NEW s \in Scanners
                PROVE  scan[s].sum + (IF s \in Calls THEN 1 ELSE 0) <= Callers
    BY DEF CountedOnce
  <2>1. CASE Scanning(s)
    <3>1. scan[s].sum + scan[s].n + Cardinality(Ahead(s)) + Own(s) <= Callers
      BY <1>1, <2>1 DEF IInv, Paced
    <3>2. /\ scan[s].sum \in Nat /\ scan[s].n \in Nat /\ Cardinality(Ahead(s)) \in Nat
          /\ Own(s) \in Nat
      BY <1>1, Types, AheadOpen DEF IInv, Own
    <3>3. scan[s].sum + Own(s) <= Callers
      BY <3>1, <3>2
    <3>. QED  BY <3>3 DEF Own
  <2>2. CASE ~Scanning(s)
    <3>1. scan[s].sum = 0
      BY <1>1, <2>2 DEF IInv, Scans, NoScan
    <3>. QED  BY <3>1
  <2>. QED  BY <2>1, <2>2
<1>. QED  BY <1>1, IInvAlways, PTL

-------------------------------------------------------------------------------
(* No work is lost.                                                        *)

\* Who waits without a result is a work of the client it chose.
Awaited ==
  \A p \in Calls : call[p].pc = "wait" /\ outcome[p] = Unsettled
                   => p \in Works(connClients[call[p].cc])

\* What the clients hold stays but for the works that are settled.
LEMMA AwaitedShrinks ==
  ASSUME IInv, Awaited, NEW i \in DOMAIN connClients, NEW d, NEW gone,
         Shrinks(connClients[i], d, gone), gone \subseteq Works(connClients[i]),
         connClients' = [connClients EXCEPT ![i] = d],
         \A p \in Calls : /\ call'[p].pc = "wait" => call'[p] = call[p]
                          /\ p \in gone => outcome'[p] # Unsettled
                          /\ p \notin gone => outcome'[p] = outcome[p]
  PROVE  Awaited'
<1>1. /\ connClients' \in Seq(Conns) /\ Len(connClients') = Len(connClients)
      /\ \A j \in DOMAIN connClients : Shrinks(connClients[j], connClients'[j], gone)
  BY OneShrinks DEF IInv
<1>2. \A p \in Calls : call[p].pc = "wait" => call[p].cc \in DOMAIN connClients
  BY DEF IInv, Placed, Chosen
<1>. QED  BY <1>1, <1>2 DEF Awaited, Shrinks

LEMMA AwaitedCall ==
  ASSUME IInv, Awaited, NEW p \in Calls, Enter(p) \/ CallStep(p)
  PROVE  Awaited'
<1>. USE DEF IInv
<1>. DEFINE i == call[p].cc
            cc == connClients[i]
<1>0. /\ connClients \in Seq(Conns) /\ Len(connClients) \in Nat
      /\ DOMAIN connClients = 1 .. Len(connClients)
      /\ call \in [Calls -> [pc : CallPCs, cc : 0 .. Len(connClients)]]
      /\ outcome \in [Calls -> (Errors \cup {"none"}) \X Hands]
      /\ \A q \in Calls : call[q].pc = "wait" => call[q].cc \in DOMAIN connClients
  BY Types DEF TypeOK, Placed, Chosen
<1>1. CASE Enter(p) \/ Lock(p) \/ ScanR(p) \/ ScanW(p)
  <2>1. UNCHANGED outcome
    BY <1>1 DEF Enter, Lock, ScanR, ScanW
  <2>2. connClients' \in {connClients, Append(connClients, Idle)}
    BY <1>1 DEF Enter, Lock, ScanR, ScanW, New, Choose
  <2>3. \/ \E pc \in CallPCs \ {"wait"} : call' = [call EXCEPT ![p].pc = pc]
        \/ \E k : call' = [call EXCEPT ![p] = [pc |-> "send", cc |-> k]]
    BY <1>1 DEF Enter, Lock, ScanR, ScanW, New, Choose, CallPCs
  <2>4. \A j \in DOMAIN connClients : connClients'[j] = connClients[j]
    BY <1>0, <2>2
  <2>5. call'[p].pc # "wait" /\ \A q \in Calls \ {p} : call'[q] = call[q]
    BY <1>0, <2>3
  <2>. SUFFICES ASSUME NEW q \in Calls, call'[q].pc = "wait", outcome'[q] = Unsettled
                PROVE  q \in Works(connClients'[call'[q].cc])
    BY DEF Awaited
  <2>6. call'[q] = call[q] /\ outcome[q] = Unsettled
    BY <2>1, <2>5
  <2>7. connClients'[call[q].cc] = connClients[call[q].cc]
    BY <1>0, <2>4, <2>6
  <2>. QED  BY <2>6, <2>7 DEF Awaited
<1>2. CASE (Send(p) \/ Resend(p)) /\ HasRoom(p)
  <2>. DEFINE d == [cc EXCEPT !.chW = Append(cc.chW, p)]
  <2>1. /\ call[p].pc \in {"send", "resend"} /\ connClients' = Enqueued(p)
        /\ call' = [call EXCEPT ![p].pc = "wait"] /\ UNCHANGED outcome
    BY <1>2 DEF Send, Resend
  <2>2. i \in DOMAIN connClients /\ Sound(cc) /\ p \notin Works(cc)
    BY <2>1, AllSound, WorksWait DEF Placed, Chosen
  <2>3. Works(d) = Works(cc) \cup {p}
    BY <1>2, <2>2, SendSound DEF HasRoom
  <2>4. connClients' = [connClients EXCEPT ![i] = d]
    BY <2>1 DEF Enqueued
  <2>. HIDE DEF d
  <2>5. \A j \in DOMAIN connClients : Works(connClients[j]) \subseteq Works(connClients'[j])
    BY <1>0, <2>2, <2>3, <2>4
  <2>6. p \in Works(connClients'[i])
    BY <1>0, <2>2, <2>3, <2>4
  <2>7. call'[p].cc = i /\ \A q \in Calls \ {p} : call'[q] = call[q]
    BY <1>0, <2>1
  <2>. QED  BY <1>0, <2>1, <2>5, <2>6, <2>7 DEF Awaited
<1>3. CASE (Send(p) \/ Resend(p)) /\ ~HasRoom(p)
  <2>1. /\ UNCHANGED connClients /\ call[p].pc \in {"send", "resend"}
        /\ \E pc \in {"evict", "returned"} : call' = [call EXCEPT ![p].pc = pc]
        /\ \A q \in Calls \ {p} : outcome'[q] = outcome[q]
    BY <1>0, <1>3 DEF Send, Resend
  <2>2. call'[p].pc # "wait" /\ \A q \in Calls \ {p} : call'[q] = call[q]
    BY <1>0, <2>1
  <2>. QED  BY <2>1, <2>2 DEF Awaited
<1>4. CASE Evict(p)
  <2>. DEFINE gone == IF cc.chW = <<>> THEN {} ELSE {Head(cc.chW)}
              d == [cc EXCEPT !.chW = IF @ = <<>> THEN @ ELSE Tail(@)]
  <2>1. /\ call[p].pc = "evict" /\ call' = [call EXCEPT ![p].pc = "resend"]
        /\ connClients' = [connClients EXCEPT ![i] = d]
        /\ outcome' = IF cc.chW = <<>> THEN outcome
                      ELSE [outcome EXCEPT ![Head(cc.chW)] = <<"overflow", NoCall>>]
    BY <1>4 DEF Evict, Evicted
  <2>2. i \in DOMAIN connClients /\ Sound(cc)
    BY <2>1, AllSound DEF Placed, Chosen
  <2>3. Shrinks(cc, d, gone) /\ gone \subseteq Works(cc)
    BY <2>2, EvictSound
  <2>4. /\ \A q \in Calls \cap gone : outcome'[q] # Unsettled
        /\ \A q \in Calls \ gone : outcome'[q] = outcome[q]
    BY <1>0, <2>1 DEF Unsettled
  <2>5. \A q \in Calls : call'[q].pc = "wait" => call'[q] = call[q]
    BY <1>0, <2>1
  <2>6. \A q \in Calls : /\ call'[q].pc = "wait" => call'[q] = call[q]
                         /\ q \in gone => outcome'[q] # Unsettled
                         /\ q \notin gone => outcome'[q] = outcome[q]
    BY <2>4, <2>5
  <2>. HIDE DEF gone, d
  <2>. QED  BY <2>1, <2>2, <2>3, <2>6, AwaitedShrinks
<1>5. CASE Return(p)
  BY <1>0, <1>5 DEF Return, Awaited
<1>. QED  BY <1>1, <1>2, <1>3, <1>4, <1>5 DEF CallStep

LEMMA AwaitedConn ==
  ASSUME IInv, Awaited, NEW i \in DOMAIN connClients, ConnStep(i)
  PROVE  Awaited'
<1>0. outcome \in [Calls -> (Errors \cup {"none"}) \X Hands]
  BY DEF IInv, TypeOK
<1>1. ASSUME NEW d, Shrinks(connClients[i], d, {}), Becomes(i, d), outcome' = outcome
      PROVE  Awaited'
  <2>. DEFINE none == {}
  <2>1. /\ connClients' = [connClients EXCEPT ![i] = d]
        /\ \A q \in Calls : /\ call'[q].pc = "wait" => call'[q] = call[q]
                            /\ q \in none => outcome'[q] # Unsettled
                            /\ q \notin none => outcome'[q] = outcome[q]
    BY <1>1 DEF Becomes
  <2>2. Shrinks(connClients[i], d, none) /\ none \subseteq Works(connClients[i])
    BY <1>1
  <2>. HIDE DEF none
  <2>. QED  BY <2>1, <2>2, AwaitedShrinks
<1>2. ASSUME NEW p \in Works(connClients[i]), NEW d, NEW o, Shrinks(connClients[i], d, {p}),
             Becomes(i, d), Result(p, o), outcome' = [outcome EXCEPT ![p] = o]
      PROVE  Awaited'
  <2>1. p \in Calls
    BY WorksWait DEF IInv
  <2>2. o # Unsettled
    BY <1>2 DEF Result, Unsettled, Errors
  <2>3. outcome'[p] # Unsettled /\ \A q \in Calls \ {p} : outcome'[q] = outcome[q]
    BY <1>0, <1>2, <2>1, <2>2
  <2>4. call' = call /\ connClients' = [connClients EXCEPT ![i] = d]
    BY <1>2 DEF Becomes
  <2>5. \A q \in Calls : /\ call'[q].pc = "wait" => call'[q] = call[q]
                         /\ q \in {p} => outcome'[q] # Unsettled
                         /\ q \notin {p} => outcome'[q] = outcome[q]
    BY <2>3, <2>4
  <2>. QED  BY <1>2, <2>4, <2>5, AwaitedShrinks
<1>. QED  BY <1>1, <1>2, ConnStepDoes

\* No work is lost and none is kept too long, whatever overflows or fails: a
\* connection client holds the works of the calls that wait for it without a
\* result, each in one place, and no other.
THEOREM WorksHeldAlways == Spec => []WorksHeld
<1>1. Init => Awaited
  BY DEF Init, Awaited
<1>2. IInv /\ Awaited /\ [Next]_vars => Awaited'
  <2>. SUFFICES ASSUME IInv, Awaited, [Next]_vars PROVE Awaited'
    OBVIOUS
  <2>1. CASE PollLock \/ PollR \/ PollW \/ PollReturn \/ UNCHANGED vars
    <3>1. UNCHANGED <<connClients, call, outcome>>
      BY <2>1 DEF PollLock, PollR, PollW, PollReturn, vars
    <3>. QED  BY <3>1 DEF Awaited
  <2>. QED  BY <2>1, AwaitedCall, AwaitedConn DEF Next
<1>3. ASSUME IInv, Awaited PROVE WorksHeld
  <2>. SUFFICES ASSUME NEW i \in DOMAIN connClients
                PROVE  /\ Exclusive(connClients[i])
                       /\ Works(connClients[i])
                            = {p \in Calls : /\ call[p].pc = "wait" /\ call[p].cc = i
                                             /\ outcome[p] = Unsettled}
    BY DEF WorksHeld
  <2>1. Exclusive(connClients[i])
    BY <1>3 DEF IInv, Placed
  <2>2. \A p \in Works(connClients[i]) :
          p \in Calls /\ call[p].pc = "wait" /\ call[p].cc = i /\ outcome[p] = Unsettled
    BY <1>3, WorksWait DEF IInv
  <2>3. \A p \in Calls : call[p].pc = "wait" /\ call[p].cc = i /\ outcome[p] = Unsettled
                         => p \in Works(connClients[i])
    BY <1>3 DEF Awaited
  <2>. QED  BY <2>1, <2>2, <2>3
<1>. QED  BY <1>1, <1>2, <1>3, IInvAlways, PTL DEF Spec

-------------------------------------------------------------------------------
(* The client implements PipelineService: every step is a step of the      *)
(* service or a stutter.                                                   *)

\* For its caller p is where it was.
Same(p) == /\ outcome'[p] = outcome[p]
           /\ call'[p].pc = "new" <=> call[p].pc = "new"
           /\ call'[p].pc = "returned" <=> call[p].pc = "returned"

LEMMA ServiceStill ==
  ASSUME UNCHANGED outcome, \A q \in Calls : Same(q)
  PROVE  UNCHANGED Service!vars
BY DEF Service!vars, status, Same

LEMMA ServiceSettle ==
  ASSUME TypeOK, NEW p \in Calls, call[p].pc \notin {"new", "returned"}, outcome[p] = Unsettled,
         call'[p].pc # "new", NEW o, Result(p, o), outcome' = [outcome EXCEPT ![p] = o],
         \A q \in Calls \ {p} : Same(q)
  PROVE  Service!Next
<1>. DEFINE to == IF call'[p].pc = "returned" THEN "returned" ELSE "settled"
<1>1. o # Unsettled /\ o \in Service!Failed \cup {Service!Answered(p)}
  BY DEF Result, Unsettled, Service!Failed, Service!Answered, Errors
<1>2. outcome'[p] = o
  BY DEF TypeOK
<1>3. status[p] = "open"
  BY DEF status
<1>4. status' = [status EXCEPT ![p] = to]
  BY <1>1, <1>2 DEF status, Same
<1>5. Service!Settle(p)
  BY <1>1, <1>3, <1>4 DEF Service!Settle
<1>. QED  BY <1>5 DEF Service!Next

LEMMA ServiceStepCall ==
  ASSUME IInv, NEW p \in Calls, Enter(p) \/ CallStep(p)
  PROVE  [Service!Next]_(Service!vars)
<1>. USE DEF IInv
<1>1. call \in [Calls -> [pc : CallPCs, cc : 0 .. Len(connClients)]]
  BY Types
<1>2. CASE Enter(p)
  <2>1. call[p].pc = "new" /\ call' = [call EXCEPT ![p].pc = "want"] /\ UNCHANGED outcome
        /\ outcome[p] = Unsettled
    BY <1>2 DEF Enter, Placed
  <2>2. call'[p].pc = "want" /\ \A q \in Calls \ {p} : call'[q] = call[q]
    BY <1>1, <2>1
  <2>3. status[p] = "new" /\ status' = [status EXCEPT ![p] = "open"]
    BY <2>1, <2>2 DEF status
  <2>. QED  BY <2>1, <2>3 DEF Service!Call, Service!Next
<1>3. CASE \/ Lock(p) \/ ScanR(p) \/ ScanW(p) \/ Send(p)
           \/ Evict(p) /\ connClients[call[p].cc].chW = <<>>
           \/ Resend(p) /\ HasRoom(p)
  <2>1. /\ call[p].pc \notin {"new", "returned"} /\ UNCHANGED outcome
        /\ \/ \E pc \in CallPCs \ {"new", "returned"} : call' = [call EXCEPT ![p].pc = pc]
           \/ \E k : call' = [call EXCEPT ![p] = [pc |-> "send", cc |-> k]]
    <3>1. CASE Lock(p)
      BY <3>1 DEF Lock, New, CallPCs
    <3>2. CASE ScanR(p)
      BY <3>2 DEF ScanR, CallPCs
    <3>3. CASE ScanW(p)
      BY <3>3 DEF ScanW, New, Choose, CallPCs
    <3>4. CASE Send(p) \/ (Resend(p) /\ HasRoom(p))
      BY <3>4 DEF Send, Resend, CallPCs
    <3>5. CASE Evict(p) /\ connClients[call[p].cc].chW = <<>>
      BY <3>5 DEF Evict, Evicted, CallPCs
    <3>. QED  BY <1>3, <3>1, <3>2, <3>3, <3>4, <3>5
  <2>2. /\ call'[p].pc \notin {"new", "returned"}
        /\ \A q \in Calls \ {p} : call'[q] = call[q]
    BY <1>1, <2>1
  <2>. QED  BY <2>1, <2>2, ServiceStill DEF Same
<1>4. CASE Evict(p) /\ connClients[call[p].cc].chW # <<>>
  <2>. DEFINE cc == connClients[call[p].cc]  q == Head(cc.chW)
  <2>1. call[p].pc = "evict" /\ call' = [call EXCEPT ![p].pc = "resend"]
        /\ outcome' = [outcome EXCEPT ![q] = <<"overflow", NoCall>>]
    BY <1>4 DEF Evict, Evicted
  <2>2. call[p].cc \in DOMAIN connClients /\ q \in Works(cc)
    <3>1. call[p].cc \in DOMAIN connClients
      BY <2>1 DEF Placed, Chosen
    <3>2. cc.chW \in Seq(Calls) /\ Distinct(cc.chW)
      BY <3>1, AllSound DEF Sound, Conns, Exclusive
    <3>. QED  BY <1>4, <3>1, <3>2, ElemsTail DEF Works
  <2>3. q \in Calls /\ call[q].pc = "wait" /\ outcome[q] = Unsettled
    BY <2>2, WorksWait
  <2>. HIDE DEF q
  <2>4. \A r \in Calls \ {q} : Same(r)
    BY <1>1, <2>1, <2>3 DEF Same, TypeOK
  <2>5. call'[q].pc = "wait"
    BY <1>1, <2>1, <2>3
  <2>6. Result(q, <<"overflow", NoCall>>)
    BY DEF Result, Errors
  <2>. QED  BY <2>1, <2>3, <2>4, <2>5, <2>6, ServiceSettle
<1>5. CASE Resend(p) /\ ~HasRoom(p)
  <2>1. call[p].pc = "resend" /\ call' = [call EXCEPT ![p].pc = "returned"]
        /\ outcome' = [outcome EXCEPT ![p] = <<"overflow", NoCall>>] /\ outcome[p] = Unsettled
    BY <1>5 DEF Resend, Placed
  <2>2. \A r \in Calls \ {p} : Same(r)
    BY <1>1, <2>1 DEF Same, TypeOK
  <2>3. call'[p].pc = "returned"
    BY <1>1, <2>1
  <2>4. Result(p, <<"overflow", NoCall>>)
    BY DEF Result, Errors
  <2>. QED  BY <2>1, <2>2, <2>3, <2>4, ServiceSettle
<1>6. CASE Return(p)
  <2>1. call[p].pc = "wait" /\ call' = [call EXCEPT ![p].pc = "returned"]
        /\ outcome[p] # Unsettled /\ UNCHANGED outcome
    BY <1>6 DEF Return
  <2>2. call'[p].pc = "returned" /\ \A q \in Calls \ {p} : call'[q] = call[q]
    BY <1>1, <2>1
  <2>3. status[p] = "settled" /\ status' = [status EXCEPT ![p] = "returned"]
    BY <2>1, <2>2 DEF status
  <2>. QED  BY <2>1, <2>3 DEF Service!Return, Service!Next
<1>. QED  BY <1>2, <1>3, <1>4, <1>5, <1>6 DEF CallStep

LEMMA ServiceStepConn ==
  ASSUME IInv, NEW i \in DOMAIN connClients, ConnStep(i)
  PROVE  [Service!Next]_(Service!vars)
<1>1. ASSUME NEW d, Becomes(i, d), outcome' = outcome
      PROVE  [Service!Next]_(Service!vars)
  BY <1>1, ServiceStill DEF Becomes, Same
<1>2. ASSUME NEW p \in Works(connClients[i]), NEW d, NEW o, Becomes(i, d),
             Result(p, o), outcome' = [outcome EXCEPT ![p] = o]
      PROVE  [Service!Next]_(Service!vars)
  <2>1. p \in Calls /\ call[p].pc = "wait" /\ outcome[p] = Unsettled /\ call' = call
    BY <1>2, WorksWait DEF IInv, Becomes
  <2>2. \A q \in Calls \ {p} : Same(q)
    BY <1>2, <2>1 DEF Same, IInv, TypeOK
  <2>. QED  BY <1>2, <2>1, <2>2, ServiceSettle DEF IInv
<1>. QED  BY <1>1, <1>2, ConnStepDoes

\* Over several connections, each of which may fail and be replaced at any time,
\* every call is settled at most once, with an error or with the response to its
\* own request, and returns that: the works wait for their responses in the order
\* in which they were written (Ordered).  This is of clients whose writer ends no
\* idle connection and whose Reads take one response each; that a call is settled
\* at all rests on fairness.
THEOREM ServiceImplemented == Spec => SettledOnce
<1>1. Init => Service!Init
  BY DEF Init, status, Unsettled, Service!Init, Service!Unsettled
<1>2. IInv /\ [Next]_vars => [Service!Next]_(Service!vars)
  <2>. SUFFICES ASSUME IInv, [Next]_vars PROVE [Service!Next]_(Service!vars)
    OBVIOUS
  <2>1. CASE PollLock \/ PollR \/ PollW \/ PollReturn \/ UNCHANGED vars
    <3>1. UNCHANGED <<call, outcome>>
      BY <2>1 DEF PollLock, PollR, PollW, PollReturn, vars
    <3>. QED  BY <3>1, ServiceStill DEF Same
  <2>. QED  BY <2>1, ServiceStepCall, ServiceStepConn DEF Next
<1>. QED  BY <1>1, <1>2, IInvAlways, PTL DEF Spec, SettledOnce

===============================================================================
