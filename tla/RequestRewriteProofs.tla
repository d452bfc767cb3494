------------------------- MODULE RequestRewriteProofs -------------------------
(***************************************************************************)
(* Proofs about RequestRewrite, for any number of hosts, any raw requests, *)
(* any bodies and any Content-Length values in the caller's header map.    *)
(***************************************************************************)
EXTENDS RequestRewrite, FiniteSetTheorems, SequenceTheorems, TLAPS

USE RewriteAssumption

Maps  == [host : Entries \cup {NoValue}, length : Lengths \cup {NoValue}]

\* A line of one of these names; and the texts they may have.
Has(s, names)    == \E i \in 1 .. Len(s) : s[i].name \in names
All(s, names, T) == \A i \in 1 .. Len(s) : s[i].name \in names => Text(s[i]) \in T
Saying(v)        == Nat \X {v}

\* Every Host, X-Forwarded-Host included, is one that the search can find.
AllMatched(s, n) == \A i \in 1 .. Len(s) : s[i].name \in HostNames => Matched(s[i], n)

-------------------------------------------------------------------------------
(* The search for a header.                                                *)

\* A set of numbers has a least one.
LEMMA LeastOf ==
  ASSUME NEW T \in SUBSET Nat, T # {}
  PROVE  Min(T) \in T /\ \A y \in T : Min(T) <= y
<1>1. PICK x \in T : \A y \in T : <<y, x>> \notin OpToRel(<, Nat)
  BY NatLessThanWellFounded, WFMin
<1>2. \A y \in T : ~(y < x)
  BY <1>1 DEF OpToRel
<1>3. \A y \in T : x <= y
  BY <1>2
<1>. QED  BY <1>3 DEF Min

\* FirstOf finds the leftmost of some positions, and 0 if there is none.
LEMMA FirstOfFinds ==
  ASSUME NEW k \in Nat, NEW at \in SUBSET (1 .. k)
  PROVE  /\ FirstOf(at) \in 0 .. k
         /\ FirstOf(at) = 0 <=> at = {}
         /\ FirstOf(at) # 0 => FirstOf(at) \in at
         /\ \A i \in at : FirstOf(at) <= i
<1>1. CASE at = {}
  BY <1>1 DEF FirstOf
<1>2. CASE at # {}
  <2>1. Min(at) \in at /\ \A y \in at : Min(at) <= y
    <3>1. at \in SUBSET Nat
      OBVIOUS
    <3>. QED  BY <1>2, <3>1, LeastOf
  <2>2. FirstOf(at) = Min(at)
    BY <1>2 DEF FirstOf
  <2>3. FirstOf(at) \in at /\ \A y \in at : FirstOf(at) <= y
    BY <2>1, <2>2
  <2>4. \A y \in at : y \in 0 .. k /\ y # 0
    OBVIOUS
  <2>. QED  BY <1>2, <2>3, <2>4
<1>. QED  BY <1>1, <1>2

\* The positions of some names, in terms of the lines.
LEMMA AtIs ==
  ASSUME NEW s \in Seq(Line), NEW names
  PROVE  /\ Len(s) \in Nat /\ DOMAIN s = 1 .. Len(s)
         /\ At(s, names) = {i \in 1 .. Len(s) : s[i].name \in names}
         /\ Has(s, names) <=> At(s, names) # {}
         /\ \A i \in 1 .. Len(s) : s[i] \in Line
<1>1. Len(s) \in Nat /\ DOMAIN s = 1 .. Len(s) /\ \A i \in 1 .. Len(s) : s[i] \in Line
  BY LenProperties, ElementOfSeq
<1>. QED  BY <1>1 DEF At, Has

\* The Host that is found, with or without white space after the colon.
LEMMA HostAtFinds ==
  ASSUME NEW s \in Seq(Line), NEW n \in {0, 1}
  PROVE  /\ Len(s) \in Nat /\ HostAt(s, n) \in 0 .. Len(s)
         /\ HostAt(s, n) # 0 => s[HostAt(s, n)] \in Line /\ s[HostAt(s, n)].name \in HostNames
         /\ ~Has(s, HostNames) => HostAt(s, n) = 0
         /\ AllMatched(s, n) => HostAt(s, n) = FirstOf(At(s, HostNames))
<1> DEFINE at == {i \in At(s, HostNames) : Matched(s[i], n)}
<1>1. /\ Len(s) \in Nat
      /\ At(s, HostNames) = {i \in 1 .. Len(s) : s[i].name \in HostNames}
      /\ Has(s, HostNames) <=> At(s, HostNames) # {}
      /\ \A i \in 1 .. Len(s) : s[i] \in Line
  BY AtIs
<1>2. HostAt(s, n) = FirstOf(at)
  BY DEF HostAt
<1>3. at \in SUBSET (1 .. Len(s)) /\ (~Has(s, HostNames) => at = {})
  BY <1>1
<1>4. AllMatched(s, n) => at = At(s, HostNames)
  BY <1>1 DEF AllMatched
<1>5. \A i \in at : i \in 1 .. Len(s) /\ s[i].name \in HostNames
  BY <1>1
<1>. HIDE DEF at
<1>6. /\ FirstOf(at) \in 0 .. Len(s)
      /\ FirstOf(at) = 0 <=> at = {}
      /\ FirstOf(at) # 0 => FirstOf(at) \in at
  BY <1>1, <1>3, FirstOfFinds
<1>. QED  BY <1>1, <1>2, <1>3, <1>4, <1>5, <1>6

\* If each can be found, the first is.
LEMMA HostAtFirst ==
  ASSUME NEW s \in Seq(Line), NEW n \in {0, 1}, AllMatched(s, n)
  PROVE  /\ HostAt(s, n) = 0 <=> ~Has(s, HostNames)
         /\ \A i \in 1 .. Len(s) : s[i].name \in HostNames => HostAt(s, n) <= i
<1>1. /\ Len(s) \in Nat
      /\ At(s, HostNames) = {i \in 1 .. Len(s) : s[i].name \in HostNames}
      /\ Has(s, HostNames) <=> At(s, HostNames) # {}
  BY AtIs
<1>2. HostAt(s, n) = FirstOf(At(s, HostNames))
  BY HostAtFinds
<1>3. /\ FirstOf(At(s, HostNames)) = 0 <=> At(s, HostNames) = {}
      /\ \A i \in At(s, HostNames) : FirstOf(At(s, HostNames)) <= i
  BY <1>1, FirstOfFinds
<1>. QED  BY <1>1, <1>2, <1>3

\* Without white space every Host can be found.
LEMMA AnyMatched ==
  ASSUME NEW s \in Seq(Line)
  PROVE  AllMatched(s, 0)
<1>1. \A i \in 1 .. Len(s) : s[i].gap \in Nat
  BY AtIs DEF Line
<1>. QED  BY <1>1 DEF AllMatched, Matched

\* The Content-Length that is found, if each has white space after the colon.
LEMMA LengthAtFinds ==
  ASSUME NEW s \in Seq(Line)
  PROVE  /\ Len(s) \in Nat /\ LengthAt(s) \in 0 .. Len(s)
         /\ LengthAt(s) # 0 => s[LengthAt(s)] \in Line /\ s[LengthAt(s)].name = "length"
         /\ ~Has(s, {"length"}) => LengthAt(s) = 0
         /\ \A x : x[1] > 0 /\ All(s, {"length"}, {x})
              => (LengthAt(s) # 0 <=> Has(s, {"length"}))
<1> DEFINE at == {i \in At(s, {"length"}) : s[i].gap >= 1}
<1>1. /\ Len(s) \in Nat
      /\ At(s, {"length"}) = {i \in 1 .. Len(s) : s[i].name \in {"length"}}
      /\ Has(s, {"length"}) <=> At(s, {"length"}) # {}
      /\ \A i \in 1 .. Len(s) : s[i] \in Line
  BY AtIs
<1>2. LengthAt(s) = FirstOf(at)
  BY DEF LengthAt
<1>3. at \in SUBSET (1 .. Len(s)) /\ (~Has(s, {"length"}) => at = {})
  BY <1>1
<1>4. ASSUME NEW x, x[1] > 0, All(s, {"length"}, {x}) PROVE at = At(s, {"length"})
  <2>1. ASSUME NEW i \in At(s, {"length"}) PROVE s[i].gap >= 1
    <3>1. i \in 1 .. Len(s) /\ s[i].name \in {"length"} /\ s[i].gap \in Nat
      BY <1>1, <2>1 DEF Line
    <3>2. <<s[i].gap, s[i].value>> = x
      BY <1>4, <3>1 DEF All, Text
    <3>3. s[i].gap = x[1]
      BY <3>2
    <3>. QED  BY <1>4, <3>1, <3>3
  <2>. QED  BY <2>1
<1>5. \A i \in at : i \in 1 .. Len(s) /\ s[i].name = "length"
  BY <1>1
<1>. HIDE DEF at
<1>6. /\ FirstOf(at) \in 0 .. Len(s)
      /\ FirstOf(at) = 0 <=> at = {}
      /\ FirstOf(at) # 0 => FirstOf(at) \in at
  BY <1>1, <1>3, FirstOfFinds
<1>. QED  BY <1>1, <1>2, <1>3, <1>4, <1>5, <1>6

-------------------------------------------------------------------------------
(* The texts of a header.                                                  *)

\* A header has finitely many texts.
LEMMA TextsFinite ==
  ASSUME NEW s \in Seq(Line), NEW names
  PROVE  IsFiniteSet(Texts(s, names))
<1> DEFINE at == At(s, names)
           f  == [i \in at |-> Text(s[i])]
<1>1. Len(s) \in Nat /\ at \subseteq 1 .. Len(s)
  BY AtIs
<1>2. IsFiniteSet(1 .. Len(s))
  BY <1>1, FS_Interval
<1>3. IsFiniteSet(at)
  BY <1>1, <1>2, FS_Subset
<1>4. f \in Surjection(at, Texts(s, names))
  BY DEF Surjection, Texts
<1>. QED  BY <1>3, <1>4, FS_Surjection

\* A set with one element at most: what the preconditions of the properties say.
LEMMA AtMostOne ==
  ASSUME NEW S, IsFiniteSet(S), Cardinality(S) <= 1
  PROVE  \A a, b \in S : a = b
<1>1. Cardinality(S) \in Nat
  BY FS_CardinalityType
<1>2. CASE Cardinality(S) = 0
  BY <1>2, FS_EmptySet
<1>3. CASE Cardinality(S) = 1
  BY <1>3, FS_Singleton
<1>. QED  BY <1>1, <1>2, <1>3

\* If it has one at most, all its lines agree.
LEMMA OneText ==
  ASSUME NEW s \in Seq(Line), NEW names, Cardinality(Texts(s, names)) <= 1
  PROVE  \E x : All(s, names, {x})
<1>1. \A a, b \in Texts(s, names) : a = b
  BY TextsFinite, AtMostOne
<1>2. At(s, names) = {i \in 1 .. Len(s) : s[i].name \in names}
  BY AtIs
<1>3. CASE \E i \in 1 .. Len(s) : s[i].name \in names
  <2>1. PICK i \in 1 .. Len(s) : s[i].name \in names
    BY <1>3
  <2>2. All(s, names, {Text(s[i])})
    BY <1>1, <1>2, <2>1 DEF All, Texts
  <2>. QED  BY <2>2
<1>. QED  BY <1>3 DEF All

-------------------------------------------------------------------------------
(* Lines put together.                                                     *)

\* The lines that are written.
LEMMA LinesAre ==
  ASSUME NEW n \in Nat
  PROVE  /\ Host(n) \in Line /\ Host(n).name = "host" /\ Text(Host(n)) = <<1, n>>
         /\ Spaced(n) \in Line /\ Spaced(n).name = "host" /\ Text(Spaced(n)) = <<2, n>>
         /\ Length(n) \in Line /\ Length(n).name = "length" /\ Text(Length(n)) = <<1, n>>
         /\ Blank \in Line /\ Blank.name = "blank"
  BY DEF Host, Spaced, Length, Blank, Line, Text

\* The lines that the map may hold.
LEMMA EntriesAre ==
  ASSUME NEW e \in Entries
  PROVE  e \in Line /\ e.name = "host" /\ e # NoValue /\ e.value \in Hosts
<1>1. PICK h \in Hosts : e = Host(h) \/ e = Spaced(h)
  BY DEF Entries
<1>2. h \in Nat
  BY DEF Hosts
<1>3. e.value = h
  BY <1>1 DEF Host, Spaced
<1>. QED  BY <1>1, <1>2, <1>3, LinesAre

\* The empty head.
LEMMA NoLine ==
  /\ <<>> \in Seq(Line)
  /\ \A names : ~Has(<<>>, names) /\ At(<<>>, names) = {} /\ \A T : All(<<>>, names, T)
<1>1. <<>> \in Seq(Line) /\ Len(<<>>) = 0
  BY EmptySeq
<1>2. \A names : ~Has(<<>>, names) /\ \A T : All(<<>>, names, T)
  BY <1>1 DEF Has, All
<1>3. \A names : At(<<>>, names) = {}
  BY <1>1, <1>2, AtIs
<1>. QED  BY <1>1, <1>2, <1>3

\* The headers of two parts are those of both, and where one part has none they stand
\* where they stood in the other.
LEMMA ConcatLines ==
  ASSUME NEW s \in Seq(Line), NEW t \in Seq(Line), NEW names
  PROVE  /\ s \o t \in Seq(Line)
         /\ Has(s \o t, names) <=> Has(s, names) \/ Has(t, names)
         /\ \A T : All(s \o t, names, T) <=> All(s, names, T) /\ All(t, names, T)
         /\ At(s \o t, names) = At(s, names) \cup {Len(s) + i : i \in At(t, names)}
         /\ ~Has(t, names) => At(s \o t, names) = At(s, names)
<1>1. /\ s \o t \in Seq(Line) /\ Len(s) \in Nat /\ Len(t) \in Nat
      /\ Len(s \o t) = Len(s) + Len(t)
      /\ \A i \in 1 .. Len(s) + Len(t) :
           (s \o t)[i] = IF i <= Len(s) THEN s[i] ELSE t[i - Len(s)]
  BY ConcatProperties, LenProperties
<1>2. \A i \in 1 .. Len(s) : i \in 1 .. Len(s \o t) /\ (s \o t)[i] = s[i]
  BY <1>1
<1>3. \A i \in 1 .. Len(t) : Len(s) + i \in 1 .. Len(s \o t) /\ (s \o t)[Len(s) + i] = t[i]
  BY <1>1
<1>4. \A i \in 1 .. Len(s \o t) : \/ i \in 1 .. Len(s) /\ (s \o t)[i] = s[i]
                                  \/ /\ i - Len(s) \in 1 .. Len(t)
                                     /\ (s \o t)[i] = t[i - Len(s)]
                                     /\ i = Len(s) + (i - Len(s))
  BY <1>1
<1>5. Has(s \o t, names) <=> Has(s, names) \/ Has(t, names)
  <2>1. ASSUME Has(s \o t, names) PROVE Has(s, names) \/ Has(t, names)
    BY <1>4, <2>1 DEF Has
  <2>2. ASSUME Has(s, names) PROVE Has(s \o t, names)
    BY <1>2, <2>2 DEF Has
  <2>3. ASSUME Has(t, names) PROVE Has(s \o t, names)
    BY <1>3, <2>3 DEF Has
  <2>. QED  BY <2>1, <2>2, <2>3
<1>6. ASSUME NEW T
      PROVE  All(s \o t, names, T) <=> All(s, names, T) /\ All(t, names, T)
  <2>1. ASSUME All(s, names, T), All(t, names, T) PROVE All(s \o t, names, T)
    BY <1>4, <2>1 DEF All
  <2>2. ASSUME All(s \o t, names, T) PROVE All(s, names, T)
    BY <1>2, <2>2 DEF All
  <2>3. ASSUME All(s \o t, names, T) PROVE All(t, names, T)
    BY <1>3, <2>3 DEF All
  <2>. QED  BY <2>1, <2>2, <2>3
<1>7. At(s \o t, names) = At(s, names) \cup {Len(s) + i : i \in At(t, names)}
  <2>1. /\ At(s \o t, names) = {i \in 1 .. Len(s \o t) : (s \o t)[i].name \in names}
        /\ At(s, names) = {i \in 1 .. Len(s) : s[i].name \in names}
        /\ At(t, names) = {i \in 1 .. Len(t) : t[i].name \in names}
    BY <1>1, AtIs
  <2>2. ASSUME NEW i \in At(s \o t, names)
        PROVE  i \in At(s, names) \cup {Len(s) + j : j \in At(t, names)}
    BY <1>4, <2>1, <2>2
  <2>3. ASSUME NEW i \in At(s, names) PROVE i \in At(s \o t, names)
    BY <1>2, <2>1, <2>3
  <2>4. ASSUME NEW i \in At(t, names) PROVE Len(s) + i \in At(s \o t, names)
    BY <1>3, <2>1, <2>4
  <2>. QED  BY <2>2, <2>3, <2>4
<1>8. ~Has(t, names) => At(t, names) = {}
  BY AtIs
<1>. QED  BY <1>1, <1>5, <1>6, <1>7, <1>8

\* A line that is there or not.
LEMMA IfLine ==
  ASSUME NEW c \in BOOLEAN, NEW line \in Line, NEW names
  PROVE  /\ If(c, line) \in Seq(Line)
         /\ Has(If(c, line), names) <=> c /\ line.name \in names
         /\ \A T : All(If(c, line), names, T) <=>
                     (c /\ line.name \in names => Text(line) \in T)
         /\ c /\ line.name \in names => At(If(c, line), names) = {1}
<1>1. If(c, line) = IF c THEN <<line>> ELSE <<>>
  BY DEF If
<1>2. CASE c
  <2>1. If(c, line) = <<line>> /\ <<line>> \in Seq(Line) /\ Len(<<line>>) = 1 /\ <<line>>[1] = line
    BY <1>1, <1>2
  <2>2. \A i \in 1 .. Len(If(c, line)) : If(c, line)[i] = line
    BY <2>1
  <2>3. 1 \in 1 .. Len(If(c, line))
    BY <2>1
  <2>4. Has(If(c, line), names) <=> line.name \in names
    BY <2>2, <2>3 DEF Has
  <2>5. \A T : All(If(c, line), names, T) <=> (line.name \in names => Text(line) \in T)
    BY <2>2, <2>3 DEF All
  <2>6. line.name \in names => At(If(c, line), names) = {1}
    <3>. DEFINE w == If(c, line)
    <3>1. w \in Seq(Line) /\ Len(w) = 1 /\ w[1] = line
      BY <2>1
    <3>. HIDE DEF w
    <3>2. At(w, names) = {i \in 1 .. 1 : w[i].name \in names}
      BY <3>1, AtIs
    <3>3. 1 .. 1 = {1}
      OBVIOUS
    <3>. QED  BY <3>1, <3>2, <3>3 DEF w
  <2>. QED  BY <1>2, <2>1, <2>4, <2>5, <2>6
<1>3. CASE ~c
  <2>1. If(c, line) = <<>>
    BY <1>1, <1>3
  <2>. QED  BY <1>3, <2>1, NoLine
<1>. QED  BY <1>2, <1>3

\* toHeaders writes the entries that are in the map, and nothing else.
LEMMA MapLinesAre ==
  ASSUME NEW hs \in Maps, NEW names
  PROVE  /\ MapLines(hs) \in Seq(Line)
         /\ Has(MapLines(hs), names) <=> \/ hs.host # NoValue /\ "host" \in names
                                         \/ hs.length # NoValue /\ "length" \in names
         /\ \A T : All(MapLines(hs), names, T) <=>
              /\ hs.host # NoValue /\ "host" \in names => Text(hs.host) \in T
              /\ hs.length # NoValue /\ "length" \in names => <<1, hs.length>> \in T
         /\ hs.host # NoValue /\ "host" \in names /\ "length" \notin names
              => At(MapLines(hs), names) = {1}
<1> DEFINE hosted == hs.host # NoValue
           told   == hs.length # NoValue
           a == If(hosted, hs.host)
           b == If(told, Length(hs.length))
<1>1. /\ a \in Seq(Line)
      /\ Has(a, names) <=> hosted /\ "host" \in names
      /\ \A T : All(a, names, T) <=> (hosted /\ "host" \in names => Text(hs.host) \in T)
      /\ hosted /\ "host" \in names => At(a, names) = {1}
  <2>1. CASE ~hosted
    <3>1. a = <<>>
      BY <2>1 DEF If
    <3>. QED  BY <2>1, <3>1, NoLine
  <2>2. CASE hosted
    <3>1. hs.host \in Entries
      BY <2>2 DEF Maps
    <3>2. hosted \in BOOLEAN
      OBVIOUS
    <3>. DEFINE line == hs.host
    <3>3. line \in Line /\ line.name = "host"
      BY <3>1, EntriesAre
    <3>. HIDE DEF hosted, line
    <3>4. /\ If(hosted, line) \in Seq(Line)
          /\ Has(If(hosted, line), names) <=> hosted /\ line.name \in names
          /\ \A T : All(If(hosted, line), names, T) <=>
                     (hosted /\ line.name \in names => Text(line) \in T)
          /\ hosted /\ line.name \in names => At(If(hosted, line), names) = {1}
      BY <3>2, <3>3, IfLine
    <3>. QED  BY <3>3, <3>4 DEF line
  <2>. QED  BY <2>1, <2>2
<1>2. /\ b \in Seq(Line)
      /\ Has(b, names) <=> told /\ "length" \in names
      /\ \A T : All(b, names, T) <=> (told /\ "length" \in names => <<1, hs.length>> \in T)
  <2>1. CASE ~told
    <3>1. b = <<>>
      BY <2>1 DEF If
    <3>. QED  BY <2>1, <3>1, NoLine
  <2>2. CASE told
    <3>1. hs.length \in Nat
      BY <2>2 DEF Maps
    <3>2. told \in BOOLEAN
      OBVIOUS
    <3>. DEFINE line == Length(hs.length)
    <3>3. line \in Line /\ line.name = "length" /\ Text(line) = <<1, hs.length>>
      BY <3>1, LinesAre
    <3>. HIDE DEF told, line
    <3>4. /\ If(told, line) \in Seq(Line)
          /\ Has(If(told, line), names) <=> told /\ line.name \in names
          /\ \A T : All(If(told, line), names, T) <=>
                     (told /\ line.name \in names => Text(line) \in T)
      BY <3>2, <3>3, IfLine
    <3>. QED  BY <3>3, <3>4 DEF line
  <2>. QED  BY <2>1, <2>2
<1>3. MapLines(hs) = a \o b
  BY DEF MapLines
<1>. HIDE DEF a, b
<1>. QED  BY <1>1, <1>2, <1>3, ConcatLines

-------------------------------------------------------------------------------
(* The replacement of a header.                                            *)

\* A line with another value.
LEMMA SayIs ==
  ASSUME NEW line \in Line, NEW n \in Nat
  PROVE  /\ Say(line, n) \in Line /\ Say(line, n).name = line.name
         /\ Text(Say(line, n)) = <<1, n>>
  BY DEF Say, Text, Line

\* ReplaceText changes the text of some lines, and nothing else.
LEMMA ReplaceTextIs ==
  ASSUME NEW s \in Seq(Line), NEW found \in Line, NEW n \in Nat
  PROVE  LET r == ReplaceText(s, found, n) IN
         /\ r \in Seq(Line) /\ Len(r) = Len(s)
         /\ \A i \in 1 .. Len(s) :
              /\ r[i].name = s[i].name
              /\ Text(r[i]) = IF SameText(found, s[i]) THEN <<1, n>> ELSE Text(s[i])
<1> DEFINE r == ReplaceText(s, found, n)
<1>1. DOMAIN s = 1 .. Len(s) /\ Len(s) \in Nat /\ \A i \in 1 .. Len(s) : s[i] \in Line
  BY LenProperties, ElementOfSeq
<1>2. \A line \in Line : /\ Say(line, n) \in Line
                         /\ Say(line, n).name = line.name
                         /\ Text(Say(line, n)) = <<1, n>>
  BY SayIs
<1>3. /\ DOMAIN r = 1 .. Len(s)
      /\ \A i \in 1 .. Len(s) : r[i] = IF SameText(found, s[i])
                                       THEN Say(s[i], n) ELSE s[i]
  BY <1>1 DEF ReplaceText
<1>4. r \in [1 .. Len(s) -> Line]
  <2>1. \A i \in 1 .. Len(s) : r[i] \in Line
    BY <1>1, <1>2, <1>3
  <2>2. r = [i \in DOMAIN s |-> r[i]]
    BY DEF ReplaceText
  <2>. HIDE DEF r
  <2>. QED  BY <1>1, <2>1, <2>2
<1>. HIDE DEF r
<1>5. r \in Seq(Line) /\ Len(r) = Len(s)
  BY <1>1, <1>4
<1>6. \A i \in 1 .. Len(s) : /\ r[i].name = s[i].name
                             /\ Text(r[i]) = IF SameText(found, s[i]) THEN <<1, n>> ELSE Text(s[i])
  BY <1>1, <1>2, <1>3
<1>. QED  BY <1>5, <1>6 DEF r

\* So it keeps the headers of other names, and where each stands; if all lines of
\* its own name had the text of the one found, they all get the new one.
LEMMA ReplaceTextSets ==
  ASSUME NEW s \in Seq(Line), NEW found \in Line, NEW n \in Nat
  PROVE  LET r == ReplaceText(s, found, n)
             kin == IF found.name = "length" THEN {"length"} ELSE HostNames
         IN  /\ r \in Seq(Line)
             /\ \A names : /\ Has(r, names) <=> Has(s, names)
                           /\ At(r, names) = At(s, names)
             /\ \A names, T : names \cap kin = {} /\ All(s, names, T) => All(r, names, T)
             /\ All(s, kin, {Text(found)}) => All(r, kin, {<<1, n>>})
<1> DEFINE r   == ReplaceText(s, found, n)
           kin == IF found.name = "length" THEN {"length"} ELSE HostNames
<1>1. /\ r \in Seq(Line) /\ Len(r) = Len(s)
      /\ \A i \in 1 .. Len(s) :
           /\ r[i].name = s[i].name
           /\ Text(r[i]) = IF SameText(found, s[i]) THEN <<1, n>> ELSE Text(s[i])
  BY ReplaceTextIs
<1>2. \A line : SameText(found, line) <=> Text(line) = Text(found) /\ line.name \in kin
  BY DEF SameText
<1>. HIDE DEF r, kin
<1>3. ASSUME NEW names
      PROVE  (Has(r, names) <=> Has(s, names)) /\ At(r, names) = At(s, names)
  <2>1. At(s, names) = {i \in 1 .. Len(s) : s[i].name \in names}
    BY AtIs
  <2>2. At(r, names) = {i \in 1 .. Len(s) : r[i].name \in names}
    BY <1>1, AtIs
  <2>. QED  BY <1>1, <2>1, <2>2 DEF Has
<1>4. ASSUME NEW names, NEW T, names \cap kin = {}, All(s, names, T)
      PROVE  All(r, names, T)
  <2>1. ASSUME NEW i \in 1 .. Len(s), r[i].name \in names PROVE Text(r[i]) \in T
    <3>1. s[i].name \in names /\ ~SameText(found, s[i])
      BY <1>1, <1>2, <1>4, <2>1
    <3>2. Text(r[i]) = Text(s[i])
      BY <1>1, <3>1
    <3>. QED  BY <1>4, <3>1, <3>2 DEF All
  <2>. QED  BY <1>1, <2>1 DEF All
<1>5. ASSUME All(s, kin, {Text(found)}) PROVE All(r, kin, {<<1, n>>})
  <2>1. ASSUME NEW i \in 1 .. Len(s), r[i].name \in kin PROVE Text(r[i]) = <<1, n>>
    <3>1. s[i].name \in kin
      BY <1>1, <2>1
    <3>2. Text(s[i]) = Text(found)
      BY <1>5, <3>1 DEF All
    <3>. QED  BY <1>1, <1>2, <3>1, <3>2
  <2>. QED  BY <1>1, <2>1 DEF All
<1>. QED  BY <1>1, <1>3, <1>4, <1>5 DEF r, kin

\* In r, line i of s has the host, and the line after it is gone.
Swallowed(r, s, i, h) ==
  /\ r \in Seq(Line) /\ Len(r) = Len(s) - 1
  /\ r[i].name = s[i].name /\ Text(r[i]) = <<1, h>>
  /\ \A k \in 1 .. Len(r) : /\ k < i => r[k] = s[k]
                            /\ k > i => r[k] = s[k + 1]

\* That is what Swallow makes.
LEMMA SwallowIs ==
  ASSUME NEW s \in Seq(Line), NEW i \in 1 .. Len(s), i < Len(s), NEW h \in Nat
  PROVE  Swallowed(Swallow(s, i, h), s, i, h)
<1> DEFINE line == Say(s[i], h)
           u == [s EXCEPT ![i] = Say(@, h)]
           a == SubSeq(u, 1, i)
           b == SubSeq(u, i + 2, Len(u))
           r == Swallow(s, i, h)
<1>1. DOMAIN s = 1 .. Len(s) /\ Len(s) \in Nat /\ \A k \in 1 .. Len(s) : s[k] \in Line
  BY LenProperties, ElementOfSeq
<1>2. line \in Line /\ line.name = s[i].name /\ Text(line) = <<1, h>>
  BY <1>1, SayIs
<1>. HIDE DEF line
<1>3. u = [s EXCEPT ![i] = line]
  BY DEF line
<1>4. /\ u \in Seq(Line) /\ Len(u) = Len(s)
      /\ \A k \in 1 .. Len(s) : u[k] = IF k = i THEN line ELSE s[k]
  <2>. DEFINE w == [s EXCEPT ![i] = line]
  <2>1. w \in Seq(Line)
    BY <1>2, ExceptSeq
  <2>2. Len(w) = Len(s)
    BY <1>2, ExceptSeq
  <2>3. \A k \in 1 .. Len(s) : w[k] = IF k = i THEN line ELSE s[k]
    BY <1>1
  <2>. QED  BY <1>3, <2>1, <2>2, <2>3
<1>. HIDE DEF u
<1>5. \A k \in 1 .. Len(u) : u[k] \in Line
  BY <1>4, ElementOfSeq
<1>6. a \in Seq(Line) /\ Len(a) = i /\ \A k \in 1 .. i : a[k] = u[k]
  <2>1. \A k \in 1 .. i : u[k] \in Line
    BY <1>1, <1>4, <1>5
  <2>. QED  BY <2>1, SubSeqProperties
<1>7. /\ b \in Seq(Line) /\ Len(b) = Len(s) - 1 - i
      /\ \A k \in 1 .. Len(s) - 1 - i : b[k] = u[i + 1 + k]
  <2>1. \A k \in i + 2 .. Len(u) : u[k] \in Line
    BY <1>1, <1>5
  <2>2. i + 2 \in Int /\ Len(u) \in Int
    BY <1>1, <1>4
  <2>3. /\ b \in Seq(Line)
        /\ Len(b) = IF i + 2 <= Len(u) THEN Len(u) - (i + 2) + 1 ELSE 0
        /\ \A k \in 1 .. Len(u) - (i + 2) + 1 : b[k] = u[i + 2 + k - 1]
    BY <2>1, <2>2, SubSeqProperties
  <2>4. Len(u) - (i + 2) + 1 = Len(s) - 1 - i
    BY <1>1, <1>4
  <2>5. \A k \in 1 .. Len(s) - 1 - i : i + 2 + k - 1 = i + 1 + k
    BY <1>1
  <2>6. Len(b) = Len(s) - 1 - i
    <3>1. Len(b) = IF i + 2 <= Len(s) THEN Len(s) - (i + 2) + 1 ELSE 0
      BY <1>4, <2>3
    <3>2. i \in Nat /\ Len(s) \in Nat /\ i < Len(s)
      BY <1>1
    <3>3. (IF i + 2 <= Len(s) THEN Len(s) - (i + 2) + 1 ELSE 0) = Len(s) - 1 - i
      BY <3>2
    <3>. QED  BY <3>1, <3>3
  <2>. HIDE DEF b
  <2>. QED  BY <2>3, <2>4, <2>5, <2>6
<1>8. r = a \o b
  <2>1. i + 1 - 1 = i /\ i + 1 + 1 = i + 2
    BY <1>1
  <2>. QED  BY <2>1 DEF Swallow, RemoveAt, u
<1>. HIDE DEF a, b, r
<1>9. /\ r \in Seq(Line) /\ Len(r) = Len(s) - 1
      /\ \A k \in 1 .. Len(s) - 1 : r[k] = IF k <= i THEN a[k] ELSE b[k - i]
  <2>1. Len(a) + Len(b) = Len(s) - 1
    BY <1>1, <1>6, <1>7
  <2>2. /\ a \o b \in Seq(Line) /\ Len(a \o b) = Len(a) + Len(b)
        /\ \A k \in 1 .. Len(a) + Len(b) : (a \o b)[k] = IF k <= Len(a) THEN a[k] ELSE b[k - Len(a)]
    <3>1. a \in Seq(Line) /\ b \in Seq(Line)
      BY <1>6, <1>7
    <3>. QED  BY <3>1, ConcatProperties
  <2>. QED  BY <1>6, <1>8, <2>1, <2>2
<1>10. r[i] = line
  <2>1. i \in 1 .. Len(s) - 1 /\ i <= i /\ i \in 1 .. i
    BY <1>1
  <2>2. r[i] = a[i]
    BY <1>9, <2>1
  <2>3. a[i] = u[i]
    BY <1>6, <2>1
  <2>. QED  BY <1>4, <2>2, <2>3
<1>11. ASSUME NEW k \in 1 .. Len(r), k < i PROVE r[k] = s[k]
  <2>1. k \in 1 .. i /\ k <= i /\ k # i /\ k \in 1 .. Len(s) - 1 /\ k \in 1 .. Len(s)
    BY <1>1, <1>9, <1>11
  <2>. QED  BY <1>4, <1>6, <1>9, <2>1
<1>12. ASSUME NEW k \in 1 .. Len(r), k > i PROVE r[k] = s[k + 1]
  <2>1. k - i \in 1 .. Len(s) - 1 - i /\ i + 1 + (k - i) = k + 1 /\ k + 1 \in 1 .. Len(s)
    BY <1>1, <1>9, <1>12
  <2>2. r[k] = u[k + 1]
    BY <1>7, <1>9, <1>12, <2>1
  <2>. QED  BY <1>4, <1>12, <2>1, <2>2
<1>. QED  BY <1>2, <1>9, <1>10, <1>11, <1>12 DEF r, Swallowed

\* Where the names stand after that.
LEMMA SwallowedAt ==
  ASSUME NEW s \in Seq(Line), NEW i \in 1 .. Len(s), i < Len(s), NEW h, NEW r,
         Swallowed(r, s, i, h), NEW names
  PROVE  At(r, names) = {k \in At(s, names) : k <= i}
                        \cup {k - 1 : k \in {l \in At(s, names) : l > i + 1}}
<1>1. /\ Len(s) \in Nat /\ At(s, names) = {k \in 1 .. Len(s) : s[k].name \in names}
      /\ r \in Seq(Line) /\ Len(r) = Len(s) - 1
      /\ At(r, names) = {k \in 1 .. Len(r) : r[k].name \in names}
  BY AtIs DEF Swallowed
<1>2. \A k \in 1 .. Len(r) : /\ k <= i => r[k].name = s[k].name
                             /\ k > i => r[k].name = s[k + 1].name
  <2>1. ASSUME NEW k \in 1 .. Len(r), k <= i PROVE r[k].name = s[k].name
    <3>1. k = i \/ k < i
      BY <2>1
    <3>. QED  BY <3>1 DEF Swallowed
  <2>. QED  BY <2>1 DEF Swallowed
<1>3. ASSUME NEW k \in At(r, names)
      PROVE  k \in {l \in At(s, names) : l <= i}
               \cup {l - 1 : l \in {m \in At(s, names) : m > i + 1}}
  <2>1. CASE k <= i
    BY <1>1, <1>2, <1>3, <2>1
  <2>2. CASE k > i
    <3>1. k + 1 \in At(s, names) /\ k + 1 > i + 1 /\ (k + 1) - 1 = k
      BY <1>1, <1>2, <1>3, <2>2
    <3>. QED  BY <3>1
  <2>. QED  BY <1>1, <1>3, <2>1, <2>2
<1>4. ASSUME NEW k \in At(s, names), k <= i PROVE k \in At(r, names)
  BY <1>1, <1>2, <1>4
<1>5. ASSUME NEW k \in At(s, names), k > i + 1 PROVE k - 1 \in At(r, names)
  <2>1. k - 1 \in 1 .. Len(r) /\ k - 1 > i /\ (k - 1) + 1 = k
    BY <1>1, <1>5
  <2>. QED  BY <1>1, <1>2, <1>5, <2>1
<1>. QED  BY <1>3, <1>4, <1>5

\* SetLength gives every Content-Length the new length, if all have one text with
\* white space before the value, adds no line and changes no other.
LEMMA SetLengthSets ==
  ASSUME NEW s \in Seq(Line), NEW n \in Nat
  PROVE  LET r == SetLength(s, n) IN
         /\ r \in Seq(Line)
         /\ \A names : /\ Has(r, names) <=> Has(s, names)
                       /\ At(r, names) = At(s, names)
         /\ \A names, T : "length" \notin names /\ All(s, names, T) => All(r, names, T)
         /\ \A x : x[1] > 0 /\ All(s, {"length"}, {x}) => All(r, {"length"}, {<<1, n>>})
<1> DEFINE i == LengthAt(s)
           r == SetLength(s, n)
<1>1. /\ i \in 0 .. Len(s) /\ Len(s) \in Nat
      /\ i # 0 => s[i] \in Line /\ s[i].name = "length"
      /\ \A x : x[1] > 0 /\ All(s, {"length"}, {x}) => (i # 0 <=> Has(s, {"length"}))
  BY LengthAtFinds
<1>2. CASE i = 0
  <2>1. r = s
    BY <1>2 DEF SetLength
  <2>2. \A T : ~Has(s, {"length"}) => All(s, {"length"}, T)
    BY DEF Has, All
  <2>. QED  BY <1>1, <1>2, <2>1, <2>2
<1>3. CASE i # 0
  <2>1. i \in 1 .. Len(s) /\ s[i] \in Line /\ s[i].name = "length"
    BY <1>1, <1>3
  <2>2. r = ReplaceText(s, s[i], n)
    BY <1>3 DEF SetLength
  <2>3. \A x : All(s, {"length"}, {x}) => Text(s[i]) = x
    BY <2>1 DEF All
  <2>. HIDE DEF i, r
  <2>4. /\ r \in Seq(Line)
        /\ \A names : (Has(r, names) <=> Has(s, names)) /\ At(r, names) = At(s, names)
        /\ \A names, T : names \cap {"length"} = {} /\ All(s, names, T) => All(r, names, T)
        /\ All(s, {"length"}, {Text(s[i])}) => All(r, {"length"}, {<<1, n>>})
    BY <2>1, <2>2, ReplaceTextSets
  <2>. QED  BY <2>3, <2>4 DEF r
<1>. QED  BY <1>2, <1>3

\* The host that is found has a value, or is the last line: no line is lost.
LEMMA SetHostReplaces ==
  ASSUME NEW s \in Seq(Line), NEW n \in {0, 1}, NEW h \in Nat, HostAt(s, n) # 0,
         s[HostAt(s, n)].value # Empty \/ HostAt(s, n) = Len(s)
  PROVE  LET r == SetHost(s, n, h) IN
         /\ r \in Seq(Line)
         /\ \A names : /\ Has(r, names) <=> Has(s, names)
                       /\ At(r, names) = At(s, names)
         /\ \A names, T : names \cap HostNames = {} /\ All(s, names, T) => All(r, names, T)
         /\ r = ReplaceText(s, s[HostAt(s, n)], h)
<1> DEFINE i == HostAt(s, n)
           r == SetHost(s, n, h)
<1>1. i \in 1 .. Len(s) /\ Len(s) \in Nat /\ s[i] \in Line /\ s[i].name \in HostNames
  BY HostAtFinds
<1>2. s[i].name # "length"
  BY <1>1 DEF HostNames
<1>3. r = ReplaceText(s, s[i], h)
  BY <1>1 DEF SetHost
<1>. HIDE DEF i, r
<1>4. /\ r \in Seq(Line)
      /\ \A names : (Has(r, names) <=> Has(s, names)) /\ At(r, names) = At(s, names)
      /\ \A names, T : names \cap HostNames = {} /\ All(s, names, T) => All(r, names, T)
  BY <1>1, <1>2, <1>3, ReplaceTextSets
<1>. QED  BY <1>3, <1>4 DEF i, r

\* The host that is found has no value: the line after it is lost.
LEMMA SetHostSwallows ==
  ASSUME NEW s \in Seq(Line), NEW n \in {0, 1}, NEW h \in Nat, HostAt(s, n) # 0,
         s[HostAt(s, n)].value = Empty, HostAt(s, n) < Len(s)
  PROVE  /\ HostAt(s, n) \in 1 .. Len(s) /\ s[HostAt(s, n)].name \in HostNames
         /\ SetHost(s, n, h) = Swallow(s, HostAt(s, n), h)
<1>1. HostAt(s, n) \in 1 .. Len(s) /\ Len(s) \in Nat /\ s[HostAt(s, n)].name \in HostNames
  BY HostAtFinds
<1>2. HostAt(s, n) > 0
  BY <1>1
<1>. QED  BY <1>1, <1>2 DEF SetHost

\* SetHost adds no line, and does not change those of other names.
LEMMA SetHostKeeps ==
  ASSUME NEW s \in Seq(Line), NEW n \in {0, 1}, NEW h \in Nat
  PROVE  LET r == SetHost(s, n, h) IN
         /\ r \in Seq(Line)
         /\ \A names : names \cap HostNames = {} =>
              /\ ~Has(s, names) => ~Has(r, names)
              /\ \A T : All(s, names, T) => All(r, names, T)
<1> DEFINE i == HostAt(s, n)
           r == SetHost(s, n, h)
<1>1. i \in 0 .. Len(s) /\ Len(s) \in Nat
  BY HostAtFinds
<1>2. CASE i = 0
  BY <1>2 DEF SetHost
<1>3. CASE i # 0 /\ s[i].value = Empty /\ i < Len(s)
  <2>1. i \in 1 .. Len(s) /\ s[i].name \in HostNames /\ r = Swallow(s, i, h)
    BY <1>1, <1>3, SetHostSwallows
  <2>. HIDE DEF i, r
  <2>2. /\ r \in Seq(Line) /\ Len(r) = Len(s) - 1
        /\ r[i].name = s[i].name
        /\ \A k \in 1 .. Len(r) : /\ k < i => r[k] = s[k]
                                  /\ k > i => r[k] = s[k + 1]
    <3>1. i \in 1 .. Len(s) /\ i < Len(s)
      BY <1>3, <2>1
    <3>2. Swallowed(r, s, i, h)
      BY <2>1, <3>1, SwallowIs
    <3>. QED  BY <3>2 DEF Swallowed
  <2>3. \A k \in 1 .. Len(r) : \/ k = i
                               \/ k \in 1 .. Len(s) /\ r[k] = s[k]
                               \/ k + 1 \in 1 .. Len(s) /\ r[k] = s[k + 1]
    BY <1>1, <2>1, <2>2
  <2>4. ASSUME NEW names, names \cap HostNames = {}, ~Has(s, names)
        PROVE  ~Has(r, names)
    BY <2>1, <2>2, <2>3, <2>4 DEF Has
  <2>5. ASSUME NEW names, NEW T, names \cap HostNames = {}, All(s, names, T)
        PROVE  All(r, names, T)
    <3>1. ASSUME NEW k \in 1 .. Len(r), r[k].name \in names PROVE Text(r[k]) \in T
      <4>1. k # i
        BY <2>1, <2>2, <2>5, <3>1
      <4>. QED  BY <2>3, <2>5, <3>1, <4>1 DEF All
    <3>. QED  BY <3>1 DEF All
  <2>. QED  BY <2>2, <2>4, <2>5 DEF r
<1>4. CASE i # 0 /\ (s[i].value # Empty \/ i = Len(s))
  BY <1>1, <1>4, SetHostReplaces
<1>. QED  BY <1>1, <1>2, <1>3, <1>4

\* A Host without a value is the only one, and the line that is lost with it is
\* not a Host.
Lone(s) ==
  \A i \in 1 .. Len(s) :
    s[i] \in Unvalued =>
      /\ i < Len(s) /\ s[i + 1].name \notin HostNames
      /\ \A j \in 1 .. Len(s) : s[j] \in Unvalued => j = i

\* A line with this value.
LEMMA TextSays ==
  ASSUME NEW line \in Line, NEW h
  PROVE  Text(line) \in Saying(h) <=> line.value = h
<1>1. line.gap \in Nat
  BY DEF Line
<1>. QED  BY <1>1 DEF Text, Saying

\* If every Host can be found, and is the one found or the new one already, the new
\* one is all that is left.  The lines stand where they stood, unless one is lost.
LEMMA SetHostSets ==
  ASSUME NEW s \in Seq(Line), NEW n \in {0, 1}, NEW h \in Nat, h # Empty, Lone(s),
         HostAt(s, n) # 0,
         \A i \in 1 .. Len(s) : s[i].name \in HostNames =>
           Text(s[i]) = Text(s[HostAt(s, n)]) \/ s[i].value = h
  PROVE  LET i == HostAt(s, n)
             r == SetHost(s, n, h)
         IN  /\ r \in Seq(Line) /\ All(r, HostNames, Saying(h))
             /\ s[i].value # Empty => \A names : At(r, names) = At(s, names)
             /\ s[i].value = Empty => i < Len(s) /\ Swallowed(r, s, i, h)
<1> DEFINE i == HostAt(s, n)
           r == SetHost(s, n, h)
<1>1. i \in 1 .. Len(s) /\ Len(s) \in Nat /\ s[i].name \in HostNames /\ s[i] \in Line
  BY HostAtFinds
<1>2. \A k \in 1 .. Len(s) : s[k] \in Line
  BY AtIs
<1>3. <<1, h>> \in Saying(h)
  BY DEF Saying
<1>4. CASE s[i].value # Empty
  <2>. HIDE DEF i, r
  <2>1. /\ r = ReplaceText(s, s[i], h)
        /\ r \in Seq(Line)
        /\ \A names : At(r, names) = At(s, names)
    BY <1>1, <1>4, SetHostReplaces DEF i, r
  <2>2. /\ Len(r) = Len(s)
        /\ \A k \in 1 .. Len(s) :
             /\ r[k].name = s[k].name
             /\ Text(r[k]) = IF SameText(s[i], s[k]) THEN <<1, h>> ELSE Text(s[k])
    <3>. DEFINE f == s[i]
                q == ReplaceText(s, f, h)
    <3>1. f \in Line
      BY <1>1
    <3>. HIDE DEF f
    <3>2. /\ Len(q) = Len(s)
          /\ \A k \in 1 .. Len(s) :
               /\ q[k].name = s[k].name
               /\ Text(q[k]) = IF SameText(f, s[k]) THEN <<1, h>> ELSE Text(s[k])
      BY <3>1, ReplaceTextIs
    <3>3. r = q
      BY <2>1 DEF f
    <3>. HIDE DEF q
    <3>. QED  BY <3>2, <3>3 DEF f
  <2>3. \A k \in 1 .. Len(s) : s[k].name \in HostNames /\ Text(s[k]) = Text(s[i])
                               => SameText(s[i], s[k])
    BY <1>1 DEF SameText, HostNames
  <2>4. \A k \in 1 .. Len(s) : s[k].name \in HostNames =>
          Text(s[k]) = Text(s[i]) \/ s[k].value = h
    BY DEF i
  <2>5. ASSUME NEW k \in 1 .. Len(s), r[k].name \in HostNames
        PROVE  Text(r[k]) \in Saying(h)
    <3>1. s[k].name \in HostNames
      BY <2>2, <2>5
    <3>2. CASE SameText(s[i], s[k])
      BY <1>3, <2>2, <3>2
    <3>3. CASE ~SameText(s[i], s[k])
      <4>1. s[k].value = h /\ Text(r[k]) = Text(s[k])
        BY <2>2, <2>3, <2>4, <3>1, <3>3
      <4>. QED  BY <1>2, <4>1, TextSays
    <3>. QED  BY <3>2, <3>3
  <2>6. All(r, HostNames, Saying(h))
    BY <2>2, <2>5 DEF All
  <2>. QED  BY <1>4, <2>1, <2>6 DEF r, i
<1>5. CASE s[i].value = Empty
  <2>1. s[i] \in Unvalued
    BY <1>1, <1>5 DEF Unvalued, Named
  <2>2. /\ i < Len(s) /\ s[i + 1].name \notin HostNames
        /\ \A j \in 1 .. Len(s) : s[j] \in Unvalued => j = i
    BY <1>1, <2>1 DEF Lone
  <2>3. r = Swallow(s, i, h)
    BY <1>1, <1>5, <2>2, SetHostSwallows
  <2>4. \A k \in 1 .. Len(s) : s[k].name \in HostNames =>
          Text(s[k]) = Text(s[i]) \/ s[k].value = h
    OBVIOUS
  <2>. HIDE DEF i, r
  <2>5. \A k \in 1 .. Len(s) : s[k].name \in HostNames /\ k # i => s[k].value = h
    <3>1. ASSUME NEW k \in 1 .. Len(s), s[k].name \in HostNames, s[k].value # h
          PROVE  k = i
      <4>1. Text(s[k]) = Text(s[i])
        BY <2>4, <3>1
      <4>2. s[k].value = Empty
        BY <1>5, <4>1 DEF Text
      <4>3. s[k] \in Unvalued
        BY <1>2, <3>1, <4>2 DEF Unvalued, Named
      <4>. QED  BY <2>2, <4>3
    <3>. QED  BY <3>1
  <2>6. Swallowed(r, s, i, h)
    BY <1>1, <2>2, <2>3, SwallowIs
  <2>7. /\ r \in Seq(Line) /\ Len(r) = Len(s) - 1
        /\ r[i].name = s[i].name /\ Text(r[i]) = <<1, h>>
        /\ \A k \in 1 .. Len(r) : /\ k < i => r[k] = s[k]
                                  /\ k > i => r[k] = s[k + 1]
    BY <2>6 DEF Swallowed
  <2>8. \A k \in 1 .. Len(r) : \/ k = i
                               \/ k \in 1 .. Len(s) /\ k # i /\ r[k] = s[k]
                               \/ k + 1 \in 1 .. Len(s) /\ k + 1 # i /\ r[k] = s[k + 1]
    BY <1>1, <2>7
  <2>9. ASSUME NEW k \in 1 .. Len(r), r[k].name \in HostNames
        PROVE  Text(r[k]) \in Saying(h)
    <3>1. CASE k = i
      BY <1>3, <2>7, <3>1
    <3>2. CASE k # i
      <4>1. PICK l \in 1 .. Len(s) : l # i /\ r[k] = s[l]
        BY <2>8, <3>2
      <4>2. s[l].value = h
        BY <2>5, <2>9, <4>1
      <4>. QED  BY <1>2, <4>1, <4>2, TextSays
    <3>. QED  BY <3>1, <3>2
  <2>10. All(r, HostNames, Saying(h))
    BY <2>9 DEF All
  <2>. QED  BY <1>5, <2>2, <2>6, <2>7, <2>10 DEF r, i
<1>. QED  BY <1>4, <1>5

-------------------------------------------------------------------------------
(* What a server reads.                                                    *)

\* Lines with a blank one after them are lines.
LEMMA Closed ==
  ASSUME NEW t \in Seq(Line)
  PROVE  t \o <<Blank>> \in Seq(Line)
<1>1. <<Blank>> \in Seq(Line)
  BY LinesAre
<1>. QED  BY <1>1, ConcatProperties

\* A server that is sent u reads the header lines t.
ReadsBack(t, u) ==
  /\ FirstOf(At(u, {"blank"})) = Len(u)
  /\ \A name : name # "blank" =>
       /\ {i \in At(u, {name}) : i < FirstOf(At(u, {"blank"}))} = At(t, {name})
       /\ \A v : All(t, {name}, Saying(v)) => \A i \in At(t, {name}) : u[i].value = v

\* The first blank line ends the head, and the lines before it are what is read.
LEMMA ReadBack ==
  ASSUME NEW t \in Seq(Line), ~Has(t, {"blank"}), NEW u, u = t \o <<Blank>>
  PROVE  ReadsBack(t, u)
<1>1. /\ <<Blank>> \in Seq(Line) /\ Len(<<Blank>>) = 1 /\ <<Blank>>[1] = Blank
      /\ Blank.name = "blank"
  <2>1. Blank \in Line /\ Blank.name = "blank"
    BY LinesAre
  <2>. QED  BY <2>1
<1>2. /\ u \in Seq(Line) /\ Len(t) \in Nat /\ Len(u) = Len(t) + 1
      /\ \A i \in 1 .. Len(t) : u[i] = t[i]
      /\ u[Len(u)].name = "blank"
  <2>1. /\ u \in Seq(Line) /\ Len(t) \in Nat /\ Len(u) = Len(t) + Len(<<Blank>>)
        /\ \A i \in 1 .. Len(t) + Len(<<Blank>>) :
             u[i] = IF i <= Len(t) THEN t[i] ELSE <<Blank>>[i - Len(t)]
    BY <1>1, ConcatProperties, LenProperties
  <2>2. \A i \in 1 .. Len(t) : i \in 1 .. Len(t) + 1 /\ i <= Len(t)
    BY <2>1
  <2>3. Len(t) + 1 \in 1 .. Len(t) + 1 /\ ~(Len(t) + 1 <= Len(t)) /\ (Len(t) + 1) - Len(t) = 1
    BY <2>1
  <2>. QED  BY <1>1, <2>1, <2>2, <2>3
<1>3. \A names : /\ At(u, names) = {i \in 1 .. Len(u) : u[i].name \in names}
                 /\ At(t, names) = {i \in 1 .. Len(t) : t[i].name \in names}
  BY <1>2, AtIs
<1>4. At(u, {"blank"}) = {Len(u)}
  <2>1. \A i \in 1 .. Len(u) : i = Len(u) \/ i \in 1 .. Len(t)
    BY <1>2
  <2>2. \A i \in 1 .. Len(t) : u[i].name # "blank"
    BY <1>2 DEF Has
  <2>3. Len(u) \in 1 .. Len(u)
    BY <1>2
  <2>. QED  BY <1>2, <1>3, <2>1, <2>2, <2>3
<1>5. FirstOf(At(u, {"blank"})) = Len(u)
  <2>1. Len(u) \in Nat /\ At(u, {"blank"}) \in SUBSET (1 .. Len(u))
    BY <1>2, <1>3
  <2>2. /\ FirstOf(At(u, {"blank"})) = 0 <=> At(u, {"blank"}) = {}
        /\ FirstOf(At(u, {"blank"})) # 0 => FirstOf(At(u, {"blank"})) \in At(u, {"blank"})
    BY <2>1, FirstOfFinds
  <2>. QED  BY <1>4, <2>2
<1>6. ASSUME NEW name, name # "blank"
      PROVE  /\ {i \in At(u, {name}) : i < FirstOf(At(u, {"blank"}))} = At(t, {name})
             /\ \A v : All(t, {name}, Saying(v)) => \A i \in At(t, {name}) : u[i].value = v
  <2>1. {i \in At(u, {name}) : i < Len(u)} = At(t, {name})
    <3>1. \A i \in 1 .. Len(u) : i < Len(u) <=> i \in 1 .. Len(t)
      BY <1>2
    <3>2. \A i \in 1 .. Len(t) : i \in 1 .. Len(u)
      BY <1>2
    <3>. QED  BY <1>2, <1>3, <3>1, <3>2
  <2>2. ASSUME NEW v, All(t, {name}, Saying(v)), NEW i \in At(t, {name})
        PROVE  u[i].value = v
    <3>1. i \in 1 .. Len(t) /\ t[i].name \in {name} /\ u[i] = t[i]
      BY <1>2, <1>3, <2>2
    <3>2. t[i] \in Line /\ Text(t[i]) \in Saying(v)
      BY <2>2, <3>1, AtIs DEF All
    <3>. QED  BY <3>1, <3>2, TextSays
  <2>. QED  BY <1>5, <2>1, <2>2
<1>. QED  BY <1>5, <1>6 DEF ReadsBack

-------------------------------------------------------------------------------
(* Raw requests.                                                           *)

\* The types of a raw request; ToRequest writes one CRLF more than the length of
\* a body whose lines end with CRLF.
LEMMA RawTypes ==
  ASSUME NEW raw \in Raws
  PROVE  /\ raw.head \in Seq(Line) /\ RawHead(raw.head) /\ raw.split \in BOOLEAN
         /\ Size(raw) \in Nat /\ PipelineBody(raw) \in Nat
         /\ raw.split /\ raw.sep = "crlf" => PipelineBody(raw) = Size(raw) + 2
         /\ WellFormed(raw) /\ raw.split => ~Has(raw.head, {"blank"})
<1>1. raw.head \in Seq(Line) /\ RawHead(raw.head) /\ raw.split \in BOOLEAN
      /\ raw.sep \in {"lf", "crlf"}
  BY DEF Raws
<1>2. raw.body.lines \in Nat \ {0} /\ raw.body.bytes \in Nat
  BY DEF Raws
<1>3. ASSUME NEW l \in Nat \ {0}, NEW b \in Nat
      PROVE  /\ b + 1 * (l - 1) \in Nat /\ b + 2 * (l - 1) \in Nat /\ b + 2 * l \in Nat
             /\ b + 2 * l = b + 2 * (l - 1) + 2
  BY <1>3
<1>4. SepSize(raw) \in {1, 2} /\ (raw.sep = "crlf" => SepSize(raw) = 2)
  BY DEF SepSize
<1>5. /\ Size(raw) \in Nat /\ PipelineBody(raw) \in Nat
      /\ raw.split /\ raw.sep = "crlf" => PipelineBody(raw) = Size(raw) + 2
  BY <1>2, <1>3, <1>4 DEF Size, PipelineBody
<1>6. DOMAIN raw.head = 1 .. Len(raw.head)
  BY <1>1, LenProperties
<1>7. WellFormed(raw) /\ raw.split => ~Has(raw.head, {"blank"})
  BY <1>6 DEF WellFormed, Has
<1>. QED  BY <1>1, <1>5, <1>7

\* A Host, or a Content-Length, that is written or not.
LEMMA IfHost ==
  ASSUME NEW c \in BOOLEAN, NEW n \in Nat
  PROVE  /\ If(c, Host(n)) \in Seq(Line)
         /\ \A names : Has(If(c, Host(n)), names) <=> c /\ "host" \in names
         /\ \A names, T : All(If(c, Host(n)), names, T) <=> (c /\ "host" \in names => <<1, n>> \in T)
<1> DEFINE line == Host(n)
<1>1. line \in Line /\ line.name = "host" /\ Text(line) = <<1, n>>
  BY LinesAre
<1>. HIDE DEF line
<1>2. If(c, line) \in Seq(Line)
  BY <1>1, IfLine
<1>3. ASSUME NEW names
      PROVE  /\ Has(If(c, line), names) <=> c /\ line.name \in names
             /\ \A T : All(If(c, line), names, T) <=> (c /\ line.name \in names => Text(line) \in T)
  BY <1>1, IfLine
<1>. QED  BY <1>1, <1>2, <1>3 DEF line

\* The same for the length.
LEMMA IfLength ==
  ASSUME NEW c \in BOOLEAN, NEW n \in Nat
  PROVE  /\ If(c, Length(n)) \in Seq(Line)
         /\ \A names : Has(If(c, Length(n)), names) <=> c /\ "length" \in names
         /\ \A names, T : All(If(c, Length(n)), names, T) <=> (c /\ "length" \in names => <<1, n>> \in T)
<1> DEFINE line == Length(n)
<1>1. line \in Line /\ line.name = "length" /\ Text(line) = <<1, n>>
  BY LinesAre
<1>. HIDE DEF line
<1>2. If(c, line) \in Seq(Line)
  BY <1>1, IfLine
<1>3. ASSUME NEW names
      PROVE  /\ Has(If(c, line), names) <=> c /\ line.name \in names
             /\ \A T : All(If(c, line), names, T) <=> (c /\ line.name \in names => Text(line) \in T)
  BY <1>1, IfLine
<1>. QED  BY <1>1, <1>2, <1>3 DEF line

\* A head with one host at most loses no other Host with one that has no value,
LEMMA LoneHead ==
  ASSUME NEW s \in Seq(Line), RawHead(s), NEW x, All(s, HostNames, {x})
  PROVE  Lone(s)
<1>1. ASSUME NEW i \in 1 .. Len(s), s[i] \in Unvalued
      PROVE  /\ i < Len(s) /\ s[i + 1].name \notin HostNames
             /\ \A j \in 1 .. Len(s) : s[j] \in Unvalued => j = i
  <2>1. i < Len(s) /\ \A j \in 1 .. Len(s) : s[j] \in Unvalued => j = i
    BY <1>1 DEF RawHead
  <2>2. i + 1 \in 1 .. Len(s) /\ i + 1 # i
    BY <2>1, LenProperties
  <2>3. s[i + 1] \in Line /\ s[i].name \in HostNames /\ s[i].value = Empty
    BY <1>1, <2>2, ElementOfSeq DEF Unvalued, Named
  <2>4. ASSUME s[i + 1].name \in HostNames PROVE FALSE
    <3>1. Text(s[i + 1]) = Text(s[i])
      BY <2>2, <2>3, <2>4 DEF All
    <3>2. s[i + 1].value = Empty
      BY <2>3, <3>1 DEF Text
    <3>3. s[i + 1] \in Unvalued
      BY <2>3, <2>4, <3>2 DEF Unvalued, Named
    <3>. QED  BY <2>1, <2>2, <3>3
  <2>. QED  BY <2>1, <2>4
<1>. QED  BY <1>1 DEF Lone

\* Without another Host, a host without a value is the only one of its kind.
LEMMA UnvaluedAlone ==
  ASSUME NEW s \in Seq(Line), RawHead(s), NEW x, All(s, HostNames, {x}),
         NEW i \in 1 .. Len(s), s[i].name \in HostNames, s[i].value = Empty
  PROVE  /\ i < Len(s) /\ s[i + 1].name \notin HostNames
         /\ At(s, HostNames) = {i}
<1>1. \A k \in 1 .. Len(s) : s[k] \in Line
  BY AtIs
<1>2. s[i] \in Unvalued
  BY <1>1 DEF Unvalued, Named
<1>3. /\ i < Len(s) /\ s[i + 1].name \notin HostNames
      /\ \A j \in 1 .. Len(s) : s[j] \in Unvalued => j = i
  BY <1>2, LoneHead DEF Lone
<1>4. ASSUME NEW k \in 1 .. Len(s), s[k].name \in HostNames PROVE k = i
  <2>1. Text(s[k]) = Text(s[i])
    BY <1>4 DEF All
  <2>2. s[k] \in Unvalued
    BY <1>1, <1>4, <2>1 DEF Unvalued, Named, Text
  <2>. QED  BY <1>3, <2>2
<1>5. At(s, HostNames) = {k \in 1 .. Len(s) : s[k].name \in HostNames}
  BY AtIs
<1>. QED  BY <1>3, <1>4, <1>5

\* The positions of a header, and one more.
OneMore(t, given) == \E k : k \notin given /\ At(t, {"host"}) = given \cup {k}

\* and neither does it with the caller's map after it, which has the host.
LEMMA HostedHead ==
  ASSUME NEW raw \in Raws, NEW hs \in Maps, NEW h \in Hosts, hs.host = Spaced(h),
         NEW n \in {0, 1}, AllMatched(raw.head, n), Cardinality(Texts(raw.head, HostNames)) <= 1
  PROVE  LET head == raw.head \o MapLines(hs)
             r    == SetHost(head, n, h)
         IN  /\ All(r, HostNames, Saying(h)) /\ OneMore(r, At(raw.head, {"host"}))
             /\ HostAt(head, n) # 0
<1> DEFINE a == raw.head
           m == MapLines(hs)
           s == a \o m
           i == HostAt(s, n)
           r == SetHost(s, n, h)
           P == Len(a) + 1
<1>1. a \in Seq(Line) /\ RawHead(a) /\ Len(a) \in Nat
  BY RawTypes, LenProperties
<1>2. PICK x : All(a, HostNames, {x})
  BY <1>1, OneText
<1>3. Lone(a)
  BY <1>1, <1>2, LoneHead
<1>4. h \in Nat /\ h # Empty
  BY DEF Hosts, Empty
<1>5. hs.host # NoValue /\ hs.host \in Line /\ hs.host.name = "host"
      /\ hs.host.value = h /\ hs.host.gap = 2
  <2>1. hs.host \in Entries
    BY DEF Entries
  <2>. QED  BY <2>1, EntriesAre DEF Spaced
<1>6. /\ m \in Seq(Line) /\ All(m, HostNames, {Text(hs.host)})
      /\ At(m, HostNames) = {1} /\ At(m, {"host"}) = {1}
  <2>1. "host" \in HostNames /\ "length" \notin HostNames
    BY DEF HostNames
  <2>2. m \in Seq(Line)
    BY MapLinesAre
  <2>3. At(m, HostNames) = {1} /\ At(m, {"host"}) = {1}
    BY <1>5, <2>1, MapLinesAre
  <2>4. All(m, HostNames, {Text(hs.host)}) <=>
          /\ hs.host # NoValue /\ "host" \in HostNames => Text(hs.host) \in {Text(hs.host)}
          /\ hs.length # NoValue /\ "length" \in HostNames => <<1, hs.length>> \in {Text(hs.host)}
    BY MapLinesAre
  <2>. QED  BY <2>1, <2>2, <2>3, <2>4
<1>. HIDE DEF a, m, s, i, r
<1>7. /\ s \in Seq(Line) /\ Len(m) \in Nat
      /\ Len(s) = Len(a) + Len(m)
      /\ \A k \in 1 .. Len(a) + Len(m) : s[k] = IF k <= Len(a) THEN a[k] ELSE m[k - Len(a)]
  BY <1>1, <1>6, ConcatProperties, LenProperties DEF s
<1>8. \A k \in 1 .. Len(a) : k \in 1 .. Len(s) /\ s[k] = a[k]
  BY <1>1, <1>7
<1>9. /\ 1 \in 1 .. Len(m) /\ m[1].name \in HostNames
      /\ \A k \in 1 .. Len(m) : m[k].name \in HostNames => k = 1
  <2>1. At(m, HostNames) = {k \in 1 .. Len(m) : m[k].name \in HostNames}
    BY <1>6, AtIs
  <2>. QED  BY <1>6, <2>1
<1>10. Text(m[1]) = Text(hs.host) /\ m[1] \in Line
  BY <1>6, <1>9, AtIs DEF All
<1>11. /\ P \in 1 .. Len(s) /\ s[P] = m[1] /\ s[P].value = h /\ s[P].gap = 2
       /\ s[P].name \in HostNames
  <2>1. P \in 1 .. Len(a) + Len(m) /\ ~(P <= Len(a)) /\ P - Len(a) = 1
    BY <1>1, <1>7, <1>9
  <2>2. s[P] = m[1]
    BY <1>7, <2>1
  <2>. QED  BY <1>5, <1>7, <1>9, <1>10, <2>1, <2>2 DEF Text
<1>12. \A k \in 1 .. Len(s) : s[k].name \in HostNames => k \in 1 .. Len(a) \/ k = P
  <2>1. ASSUME NEW k \in 1 .. Len(s), s[k].name \in HostNames, ~(k \in 1 .. Len(a))
        PROVE  k = P
    <3>1. k - Len(a) \in 1 .. Len(m) /\ s[k] = m[k - Len(a)]
      BY <1>1, <1>7, <2>1
    <3>. QED  BY <1>1, <1>7, <1>9, <2>1, <3>1
  <2>. QED  BY <2>1
<1>13. \A names : At(m, names) = {1} => At(s, names) = At(a, names) \cup {P}
  <2>1. ASSUME NEW names, At(m, names) = {1}
        PROVE  At(s, names) = At(a, names) \cup {P}
    <3>1. At(s, names) = At(a, names) \cup {Len(a) + k : k \in At(m, names)}
      BY <1>1, <1>6, ConcatLines DEF s
    <3>. QED  BY <2>1, <3>1
  <2>. QED  BY <2>1
<1>14. AllMatched(s, n)
  <2>1. ASSUME NEW k \in 1 .. Len(s), s[k].name \in HostNames PROVE Matched(s[k], n)
    <3>1. CASE k \in 1 .. Len(a)
      <4>1. AllMatched(a, n)
        BY DEF a
      <4>. QED  BY <1>8, <2>1, <3>1, <4>1 DEF AllMatched
    <3>2. CASE k = P
      BY <1>11, <3>2 DEF Matched
    <3>. QED  BY <1>12, <2>1, <3>1, <3>2
  <2>. QED  BY <2>1 DEF AllMatched
<1>15. /\ i \in 1 .. Len(s) /\ i # 0 /\ s[i].name \in HostNames /\ s[i] \in Line
       /\ \A k \in 1 .. Len(s) : s[k].name \in HostNames => i <= k
  <2>1. Has(s, HostNames)
    BY <1>11 DEF Has
  <2>2. /\ i \in 0 .. Len(s) /\ Len(s) \in Nat
        /\ i # 0 => s[i] \in Line /\ s[i].name \in HostNames
    BY <1>7, HostAtFinds DEF i
  <2>3. /\ i # 0
        /\ \A k \in 1 .. Len(s) : s[k].name \in HostNames => i <= k
    BY <1>7, <1>14, <2>1, HostAtFirst DEF i
  <2>. QED  BY <2>2, <2>3
<1>16. \A k \in 1 .. Len(s) : s[k].name \in HostNames => Text(s[k]) = Text(s[i]) \/ s[k].value = h
  <2>1. ASSUME NEW k \in 1 .. Len(s), s[k].name \in HostNames, k \in 1 .. Len(a)
        PROVE  Text(s[k]) = Text(s[i])
    <3>1. i <= k /\ i \in 1 .. Len(a)
      BY <1>1, <1>15, <2>1
    <3>2. s[i] = a[i] /\ s[k] = a[k]
      BY <1>8, <2>1, <3>1
    <3>. QED  BY <1>2, <1>15, <2>1, <3>1, <3>2 DEF All
  <2>. QED  BY <1>11, <1>12, <2>1
<1>17. Lone(s)
  <2>1. ASSUME NEW k \in 1 .. Len(s), s[k] \in Unvalued
        PROVE  k \in 1 .. Len(a) /\ a[k] \in Unvalued
    <3>1. s[k].name \in HostNames /\ s[k].value = Empty
      BY <2>1 DEF Unvalued, Named
    <3>2. k \in 1 .. Len(a)
      BY <1>4, <1>11, <1>12, <3>1
    <3>. QED  BY <1>8, <2>1, <3>2
  <2>2. ASSUME NEW k \in 1 .. Len(s), s[k] \in Unvalued
        PROVE  /\ k < Len(s) /\ s[k + 1].name \notin HostNames
               /\ \A j \in 1 .. Len(s) : s[j] \in Unvalued => j = k
    <3>1. k \in 1 .. Len(a) /\ a[k] \in Unvalued
      BY <2>1, <2>2
    <3>2. /\ k < Len(a) /\ a[k + 1].name \notin HostNames
          /\ \A j \in 1 .. Len(a) : a[j] \in Unvalued => j = k
      BY <1>3, <3>1 DEF Lone
    <3>3. k + 1 \in 1 .. Len(a) /\ k < Len(s)
      BY <1>1, <1>7, <3>1, <3>2
    <3>4. s[k + 1] = a[k + 1]
      BY <1>8, <3>3
    <3>. QED  BY <2>1, <3>2, <3>3, <3>4
  <2>. QED  BY <2>2 DEF Lone
<1>18. /\ All(r, HostNames, Saying(h))
       /\ s[i].value # Empty => \A names : At(r, names) = At(s, names)
       /\ s[i].value = Empty => i < Len(s) /\ Swallowed(r, s, i, h)
  BY <1>4, <1>7, <1>15, <1>16, <1>17, SetHostSets DEF i, r
<1>19. OneMore(r, At(a, {"host"}))
  <2>1. At(a, {"host"}) = {k \in 1 .. Len(a) : a[k].name \in {"host"}}
    BY <1>1, AtIs
  <2>2. At(s, {"host"}) = At(a, {"host"}) \cup {P} /\ P \notin 1 .. Len(a)
    BY <1>1, <1>6, <1>13
  <2>3. CASE s[i].value # Empty
    BY <1>18, <2>1, <2>2, <2>3 DEF OneMore
  <2>4. CASE s[i].value = Empty
    <3>1. i \in 1 .. Len(a)
      BY <1>4, <1>11, <1>12, <1>15, <2>4
    <3>2. /\ i < Len(a) /\ At(a, HostNames) = {i}
      <4>1. a[i].name \in HostNames /\ a[i].value = Empty
        BY <1>8, <1>15, <2>4, <3>1
      <4>. QED  BY <1>1, <1>2, <3>1, <4>1, UnvaluedAlone
    <3>3. At(a, {"host"}) \subseteq {i}
      <4>1. At(a, HostNames) = {k \in 1 .. Len(a) : a[k].name \in HostNames}
        BY <1>1, AtIs
      <4>. QED  BY <2>1, <3>2, <4>1 DEF HostNames
    <3>4. At(r, {"host"}) = {k \in At(s, {"host"}) : k <= i}
                            \cup {k - 1 : k \in {l \in At(s, {"host"}) : l > i + 1}}
      <4>1. Swallowed(r, s, i, h) /\ i < Len(s)
        BY <1>18, <2>4
      <4>. QED  BY <1>7, <1>15, <4>1, SwallowedAt
    <3>5. P > i + 1 /\ ~(P <= i) /\ P - 1 = Len(a)
      BY <1>1, <3>1, <3>2
    <3>6. {k \in At(s, {"host"}) : k <= i} = At(a, {"host"})
      BY <1>1, <2>2, <3>1, <3>3, <3>5
    <3>7. {l \in At(s, {"host"}) : l > i + 1} = {P}
      BY <1>1, <2>2, <3>1, <3>3, <3>5
    <3>8. At(r, {"host"}) = At(a, {"host"}) \cup {Len(a)}
      BY <3>4, <3>5, <3>6, <3>7
    <3>9. Len(a) \notin At(a, {"host"})
      BY <1>1, <3>1, <3>2, <3>3
    <3>. QED  BY <3>8, <3>9 DEF OneMore
  <2>. QED  BY <2>3, <2>4
<1>. QED  BY <1>15, <1>18, <1>19 DEF i, r, s, a, m

\* In the pipeline the head stands alone, and must have a Host.
LEMMA HostedPipeline ==
  ASSUME NEW raw \in Raws, NEW h \in Hosts, Has(raw.head, {"host"}),
         Cardinality(Texts(raw.head, HostNames)) <= 1
  PROVE  LET r == SetHost(raw.head, 0, h)
         IN  All(r, HostNames, Saying(h)) /\ At(r, {"host"}) = At(raw.head, {"host"})
<1> DEFINE s == raw.head
           i == HostAt(s, 0)
           r == SetHost(s, 0, h)
<1>1. s \in Seq(Line) /\ RawHead(s) /\ Len(s) \in Nat
  BY RawTypes, LenProperties
<1>2. PICK x : All(s, HostNames, {x})
  BY <1>1, OneText
<1>3. Lone(s)
  BY <1>1, <1>2, LoneHead
<1>4. h \in Nat /\ h # Empty
  BY DEF Hosts, Empty
<1>5. i \in 1 .. Len(s) /\ i # 0 /\ s[i].name \in HostNames /\ s[i] \in Line
  <2>1. Has(s, HostNames)
    BY DEF Has, HostNames
  <2>. QED  BY <1>1, <2>1, AnyMatched, HostAtFirst, HostAtFinds
<1>6. \A k \in 1 .. Len(s) : s[k].name \in HostNames => Text(s[k]) = Text(s[i]) \/ s[k].value = h
  BY <1>2, <1>5 DEF All
<1>7. Has(s, {"host"}) /\ At(s, {"host"}) # {}
  BY <1>1, AtIs
<1>. HIDE DEF s, i, r
<1>8. /\ All(r, HostNames, Saying(h))
      /\ s[i].value # Empty => \A names : At(r, names) = At(s, names)
      /\ s[i].value = Empty => i < Len(s) /\ Swallowed(r, s, i, h)
  BY <1>1, <1>3, <1>4, <1>5, <1>6, SetHostSets DEF i, r
<1>9. ASSUME s[i].value = Empty PROVE At(r, {"host"}) = At(s, {"host"})
  <2>1. At(s, HostNames) = {i}
    BY <1>1, <1>2, <1>5, <1>9, UnvaluedAlone
  <2>2. At(s, {"host"}) = {i}
    <3>1. /\ At(s, HostNames) = {k \in 1 .. Len(s) : s[k].name \in HostNames}
          /\ At(s, {"host"}) = {k \in 1 .. Len(s) : s[k].name \in {"host"}}
      BY <1>1, AtIs
    <3>. QED  BY <1>7, <2>1, <3>1 DEF HostNames
  <2>3. At(r, {"host"}) = {k \in At(s, {"host"}) : k <= i}
                          \cup {k - 1 : k \in {l \in At(s, {"host"}) : l > i + 1}}
    BY <1>1, <1>5, <1>8, <1>9, SwallowedAt
  <2>4. {k \in At(s, {"host"}) : k <= i} = {i} /\ {l \in At(s, {"host"}) : l > i + 1} = {}
    BY <1>1, <1>5, <2>2
  <2>. QED  BY <2>2, <2>3, <2>4
<1>. QED  BY <1>8, <1>9 DEF r, s

-------------------------------------------------------------------------------
(* What toRequest and ToRequest make of a request: the lines before the    *)
(* last blank line, and what they say of the length and of the host.       *)

\* The preconditions of Framed and HostSet, for raw bytes.
ToldOnce(raw, hs) ==
  \E x : /\ x[1] > 0 /\ All(raw.head, {"length"}, {x})
         /\ (hs.length # NoValue => <<1, hs.length>> = x)
GivenOnce(raw, n) ==
  AllMatched(raw.head, n) /\ Cardinality(Texts(raw.head, HostNames)) <= 1

\* The lines t have a header, with this value; and a Host more than the raw bytes.
Says(t, name, v)     == Has(t, {name}) /\ All(t, {name}, Saying(v))
SaysHost(t, raw, h) == All(t, {"host"}, Saying(h)) /\ OneMore(t, At(raw.head, {"host"}))

\* What is true of every line with a host is true of every Host.
LEMMA HostOf ==
  ASSUME NEW s, NEW T, All(s, HostNames, T)
  PROVE  All(s, {"host"}, T)
  BY DEF All, HostNames

\* One text is one value.
LEMMA OneSays ==
  ASSUME NEW s, NEW names, NEW n \in Nat, NEW v, All(s, names, {<<n, v>>})
  PROVE  All(s, names, Saying(v))
  BY DEF All, Saying

\* What FromRaw makes: t, ended by a blank line.  It tells the length of the body, or
\* the host, under the preconditions of Framed and HostSet.
RawMade(t, out, raw, hs, h, opts) ==
  /\ out.lines = t \o <<Blank>>
  /\ out.body = Size(raw)
  /\ raw.split => ~Has(t, {"blank"})
  /\ opts.length /\ Size(raw) > 0 /\ ToldOnce(raw, hs)
       => Says(t, "length", Size(raw))
  /\ opts.host /\ hs.host = Spaced(h) /\ GivenOnce(raw, 1) => SaysHost(t, raw, h)

\* The branch of raw: both searches see all lines, so that they find each header
\* that is written with white space.
LEMMA FromRawIs ==
  ASSUME NEW raw \in Raws, WellFormed(raw), NEW hs \in Maps, NEW h \in Hosts, NEW opts \in Opts
  PROVE  \E t \in Seq(Line) : RawMade(t, FromRaw(raw, hs, h, opts), raw, hs, h, opts)
<1> DEFINE n      == Size(raw)
           m      == MapLines(hs)
           head   == raw.head \o m
           hosted == IF opts.host THEN SetHost(head, 1, h) ELSE head
           found  == opts.length /\ LengthAt(hosted) # 0
           body   == Size(raw) > 0
           c1     == opts.host /\ HostAt(head, 1) = 0
           c2     == ~found /\ body
           a      == IF opts.length /\ body THEN SetLength(hosted, n) ELSE hosted
           b      == If(c1, Host(h))
           c      == If(c2, Length(n))
           t      == (a \o b) \o c
<1>1. /\ FromRaw(raw, hs, h, opts).lines = t \o <<Blank>>
      /\ FromRaw(raw, hs, h, opts).body = Size(raw)
  BY DEF FromRaw, LengthOf
<1>2. /\ raw.head \in Seq(Line) /\ n \in Nat /\ h \in Nat
      /\ opts.host \in BOOLEAN /\ opts.length \in BOOLEAN /\ raw.split \in BOOLEAN
      /\ (raw.split => ~Has(raw.head, {"blank"}))
  BY RawTypes DEF Hosts, Opts
<1>3. /\ m \in Seq(Line) /\ ~Has(m, {"blank"})
      /\ \A T : All(m, {"length"}, T) <=> (hs.length # NoValue => <<1, hs.length>> \in T)
  BY MapLinesAre
<1>4. opts.host /\ hs.host = Spaced(h) /\ GivenOnce(raw, 1)
        => All(hosted, HostNames, Saying(h)) /\ OneMore(hosted, At(raw.head, {"host"})) /\ ~c1
  BY HostedHead DEF GivenOnce
<1>. HIDE DEF m
<1>5. /\ head \in Seq(Line)
      /\ raw.split => ~Has(head, {"blank"})
      /\ \A x : /\ All(raw.head, {"length"}, {x})
                /\ (hs.length # NoValue => <<1, hs.length>> = x)
                => All(head, {"length"}, {x})
  <2>1. head \in Seq(Line) /\ (raw.split => ~Has(head, {"blank"}))
    BY <1>2, <1>3, ConcatLines
  <2>2. ASSUME NEW x, All(raw.head, {"length"}, {x}), hs.length # NoValue => <<1, hs.length>> = x
        PROVE  All(head, {"length"}, {x})
    <3>1. All(m, {"length"}, {x})
      BY <1>3, <2>2
    <3>. QED  BY <1>2, <1>3, <2>2, <3>1, ConcatLines
  <2>. QED  BY <2>1, <2>2
<1>. HIDE DEF head
<1>6. /\ hosted \in Seq(Line)
      /\ raw.split => ~Has(hosted, {"blank"})
      /\ \A x : All(head, {"length"}, {x}) => All(hosted, {"length"}, {x})
  <2>1. {"blank"} \cap HostNames = {} /\ {"length"} \cap HostNames = {}
    BY DEF HostNames
  <2>2. CASE opts.host
    <3>1. hosted = SetHost(head, 1, h)
      BY <2>2
    <3>. HIDE DEF hosted
    <3>. QED  BY <1>2, <1>5, <2>1, <3>1, SetHostKeeps
  <2>3. CASE ~opts.host
    BY <1>5, <2>3
  <2>. QED  BY <2>2, <2>3
<1>7. \A x : x[1] > 0 /\ All(hosted, {"length"}, {x})
               => (LengthAt(hosted) # 0 <=> Has(hosted, {"length"}))
  BY <1>6, LengthAtFinds
<1>. HIDE DEF hosted
<1>8. /\ a \in Seq(Line)
      /\ \A names : (Has(a, names) <=> Has(hosted, names)) /\ At(a, names) = At(hosted, names)
      /\ \A T : All(hosted, {"host"}, T) => All(a, {"host"}, T)
      /\ \A x : opts.length /\ body /\ x[1] > 0 /\ All(hosted, {"length"}, {x})
                  => All(a, {"length"}, {<<1, n>>})
  <2>1. "length" \notin {"host"}
    OBVIOUS
  <2>2. CASE opts.length /\ body
    <3>1. a = SetLength(hosted, n)
      BY <2>2
    <3>. HIDE DEF a, n
    <3>. QED  BY <1>2, <1>6, <2>1, <3>1, SetLengthSets
  <2>3. CASE ~(opts.length /\ body)
    BY <1>6, <2>3
  <2>. QED  BY <2>2, <2>3
<1>9. c1 \in BOOLEAN /\ c2 \in BOOLEAN
  BY <1>2
<1>10. opts.length /\ body => (c2 <=> LengthAt(hosted) = 0)
  OBVIOUS
<1>. HIDE DEF c1, c2, a, n
<1>11. /\ b \in Seq(Line)
       /\ \A names : Has(b, names) <=> c1 /\ "host" \in names
       /\ \A names, T : All(b, names, T) <=> (c1 /\ "host" \in names => <<1, h>> \in T)
  BY <1>2, <1>9, IfHost
<1>12. /\ c \in Seq(Line)
       /\ \A names : Has(c, names) <=> c2 /\ "length" \in names
       /\ \A names, T : All(c, names, T) <=> (c2 /\ "length" \in names => <<1, n>> \in T)
  BY <1>2, <1>9, IfLength
<1>. HIDE DEF b, c
<1>13. /\ a \o b \in Seq(Line)
       /\ \A names : Has(a \o b, names) <=> Has(a, names) \/ Has(b, names)
       /\ \A names, T : All(a \o b, names, T) <=> All(a, names, T) /\ All(b, names, T)
       /\ \A names : ~Has(b, names) => At(a \o b, names) = At(a, names)
  BY <1>8, <1>11, ConcatLines
<1>14. /\ t \in Seq(Line)
       /\ \A names : Has(t, names) <=> Has(a, names) \/ Has(b, names) \/ Has(c, names)
       /\ \A names, T : All(t, names, T) <=>
            All(a, names, T) /\ All(b, names, T) /\ All(c, names, T)
       /\ \A names : ~Has(b, names) /\ ~Has(c, names) => At(t, names) = At(a, names)
  BY <1>12, <1>13, ConcatLines
<1>. HIDE DEF t
<1>15. raw.split => ~Has(t, {"blank"})
  BY <1>6, <1>8, <1>11, <1>12, <1>14
<1>16. ASSUME opts.length, body, ToldOnce(raw, hs) PROVE Says(t, "length", n)
  <2>1. PICK x : /\ x[1] > 0 /\ All(raw.head, {"length"}, {x})
                 /\ (hs.length # NoValue => <<1, hs.length>> = x)
    BY <1>16 DEF ToldOnce
  <2>2. All(hosted, {"length"}, {x})
    BY <1>5, <1>6, <2>1
  <2>3. All(a, {"length"}, {<<1, n>>}) /\ (c2 <=> ~Has(a, {"length"}))
    BY <1>7, <1>8, <1>10, <1>16, <2>1, <2>2
  <2>4. All(t, {"length"}, {<<1, n>>}) /\ Has(t, {"length"})
    BY <1>11, <1>12, <1>14, <2>3
  <2>. QED  BY <2>4, OneSays DEF Says
<1>17. ASSUME opts.host, hs.host = Spaced(h), GivenOnce(raw, 1) PROVE SaysHost(t, raw, h)
  <2>1. All(hosted, {"host"}, Saying(h)) /\ OneMore(hosted, At(raw.head, {"host"})) /\ ~c1
    BY <1>4, <1>17, HostOf
  <2>2. ~Has(b, {"host"}) /\ ~Has(c, {"host"})
    BY <1>11, <1>12, <2>1
  <2>3. At(t, {"host"}) = At(hosted, {"host"})
    BY <1>8, <1>14, <2>2
  <2>4. All(t, {"host"}, Saying(h))
    BY <1>8, <1>11, <1>12, <1>14, <2>1
  <2>. QED  BY <2>1, <2>3, <2>4 DEF SaysHost, OneMore
<1>. QED  BY <1>1, <1>14, <1>15, <1>16, <1>17 DEF n, RawMade

\* What is found in the first part is found first in the whole.
LEMMA FirstOfConcat ==
  ASSUME NEW s \in Seq(Line), NEW t \in Seq(Line), Has(s, HostNames)
  PROVE  /\ HostAt(s, 0) \in 1 .. Len(s) /\ s[HostAt(s, 0)].name \in HostNames
         /\ HostAt(s \o t, 0) = HostAt(s, 0)
         /\ (s \o t)[HostAt(s, 0)] = s[HostAt(s, 0)]
<1> DEFINE u == s \o t
           i == HostAt(s, 0)
           j == HostAt(u, 0)
<1>1. /\ u \in Seq(Line) /\ Len(s) \in Nat /\ Len(u) = Len(s) + Len(t) /\ Len(t) \in Nat
      /\ \A k \in 1 .. Len(s) + Len(t) : u[k] = IF k <= Len(s) THEN s[k] ELSE t[k - Len(s)]
  BY ConcatProperties, LenProperties
<1>. HIDE DEF u
<1>2. \A k \in 1 .. Len(s) : k \in 1 .. Len(u) /\ u[k] = s[k]
  BY <1>1
<1>3. /\ i \in 0 .. Len(s) /\ (i # 0 => s[i].name \in HostNames)
      /\ j \in 0 .. Len(u) /\ (j # 0 => u[j].name \in HostNames)
  BY <1>1, HostAtFinds
<1>4. /\ i = 0 <=> ~Has(s, HostNames)
      /\ \A k \in 1 .. Len(s) : s[k].name \in HostNames => i <= k
  BY AnyMatched, HostAtFirst
<1>5. /\ j = 0 <=> ~Has(u, HostNames)
      /\ \A k \in 1 .. Len(u) : u[k].name \in HostNames => j <= k
  BY <1>1, AnyMatched, HostAtFirst
<1>. HIDE DEF i, j
<1>6. i \in 1 .. Len(s) /\ s[i].name \in HostNames
  BY <1>1, <1>3, <1>4
<1>7. j <= i /\ j # 0
  BY <1>2, <1>5, <1>6 DEF Has
<1>8. j \in 1 .. Len(s)
  BY <1>1, <1>3, <1>6, <1>7
<1>9. i <= j
  BY <1>2, <1>3, <1>4, <1>7, <1>8
<1>10. i = j
  BY <1>1, <1>6, <1>7, <1>8, <1>9
<1>. QED  BY <1>2, <1>6, <1>10 DEF i, j, u

\* A head whose hosts all have a value.
AllValued(s) == \A i \in 1 .. Len(s) : s[i].name \in HostNames => s[i].value # Empty

\* What FromCustom makes.
CustomMade(t, out, raw, hs, h, opts) ==
  /\ out.lines = t \o <<Blank>>
  /\ out.body = Size(raw)
  /\ raw.split => ~Has(t, {"blank"})
  /\ opts.length /\ Size(raw) > 0 /\ hs.length = NoValue /\ ToldOnce(raw, hs)
       /\ AllValued(raw.head)
       => Says(t, "length", Size(raw))
  /\ opts.host /\ hs.host = Spaced(h) /\ GivenOnce(raw, 0)
       /\ Has(raw.head, HostNames) /\ AllValued(raw.head)
       => SaysHost(t, raw, h)

\* A Host without a value apart, the search in the head alone finds the same.
LEMMA FromCustomIs ==
  ASSUME NEW raw \in Raws, WellFormed(raw), NEW hs \in Maps, NEW h \in Hosts, NEW opts \in Opts
  PROVE  \E t \in Seq(Line) : CustomMade(t, FromCustom(raw, hs, h, opts), raw, hs, h, opts)
<1> DEFINE n      == Size(raw)
           m      == MapLines(hs)
           head   == raw.head \o m
           i      == HostAt(raw.head, 0)
           spans  == i # 0 /\ raw.head[i].value = Empty
           set    == opts.host /\ i # 0 /\ ~(spans /\ raw.sep = "lf")
           hosted == IF set THEN SetHost(head, 0, h) ELSE head
           j      == LengthAt(raw.head)
           body   == Size(raw) > 0
           swap   == opts.length /\ j # 0 /\ body
           c1     == opts.host /\ i = 0
           c2     == ~(opts.length /\ j # 0) /\ body
           a      == IF swap THEN ReplaceText(hosted, raw.head[j], n) ELSE hosted
           b      == If(c1, Host(WithF(h)))
           c      == If(c2, Length(n))
           t      == (a \o b) \o c
<1>1. /\ FromCustom(raw, hs, h, opts).lines = t \o <<Blank>>
      /\ FromCustom(raw, hs, h, opts).body = Size(raw)
  BY DEF FromCustom, LengthOf
<1>2. /\ raw.head \in Seq(Line) /\ n \in Nat /\ h \in Nat /\ WithF(h) \in Nat
      /\ opts.host \in BOOLEAN /\ opts.length \in BOOLEAN /\ raw.split \in BOOLEAN
      /\ (raw.split => ~Has(raw.head, {"blank"}))
  BY RawTypes DEF Hosts, Opts, WithF
<1>3. /\ m \in Seq(Line) /\ ~Has(m, {"blank"})
      /\ hs.length = NoValue => ~Has(m, {"length"}) /\ \A T : All(m, {"length"}, T)
  <2>1. m \in Seq(Line) /\ ~Has(m, {"blank"})
    <3>1. m \in Seq(Line)
      BY MapLinesAre
    <3>2. Has(m, {"blank"}) <=> \/ hs.host # NoValue /\ "host" \in {"blank"}
                                \/ hs.length # NoValue /\ "length" \in {"blank"}
      BY MapLinesAre
    <3>. QED  BY <3>1, <3>2
  <2>2. ASSUME hs.length = NoValue PROVE ~Has(m, {"length"})
    BY <2>2, MapLinesAre
  <2>3. ASSUME hs.length = NoValue, NEW T PROVE All(m, {"length"}, T)
    BY <2>3, MapLinesAre
  <2>. QED  BY <2>1, <2>2, <2>3
<1>4. hs.host = Spaced(h) /\ GivenOnce(raw, 0)
        => /\ All(SetHost(head, 0, h), HostNames, Saying(h))
           /\ OneMore(SetHost(head, 0, h), At(raw.head, {"host"}))
  BY HostedHead DEF GivenOnce
<1>. HIDE DEF m
<1>5. /\ head \in Seq(Line)
      /\ raw.split => ~Has(head, {"blank"})
      /\ hs.length = NoValue => /\ Has(head, {"length"}) <=> Has(raw.head, {"length"})
                                /\ \A T : All(raw.head, {"length"}, T) => All(head, {"length"}, T)
  BY <1>2, <1>3, ConcatLines
<1>6. /\ i # 0 <=> Has(raw.head, HostNames)
      /\ i # 0 => /\ HostAt(head, 0) = i /\ head[i] = raw.head[i]
                  /\ i \in 1 .. Len(raw.head) /\ raw.head[i].name \in HostNames
  <2>1. i # 0 <=> Has(raw.head, HostNames)
    BY <1>2, AnyMatched, HostAtFirst
  <2>. QED  BY <1>2, <1>3, <2>1, FirstOfConcat
<1>. HIDE DEF head, i
<1>7. AllValued(raw.head) /\ i # 0 => raw.head[i].value # Empty
  BY <1>6 DEF AllValued
<1>8. /\ hosted \in Seq(Line)
      /\ raw.split => ~Has(hosted, {"blank"})
  <2>1. {"blank"} \cap HostNames = {}
    BY DEF HostNames
  <2>2. CASE set
    <3>1. hosted = SetHost(head, 0, h)
      BY <2>2
    <3>. HIDE DEF hosted
    <3>. QED  BY <1>2, <1>5, <2>1, <3>1, SetHostKeeps
  <2>3. CASE ~set
    BY <1>5, <2>3
  <2>. QED  BY <2>2, <2>3
<1>9. ASSUME AllValued(raw.head)
      PROVE  /\ Has(hosted, {"length"}) <=> Has(head, {"length"})
             /\ \A T : All(head, {"length"}, T) => All(hosted, {"length"}, T)
  <2>1. {"length"} \cap HostNames = {}
    BY DEF HostNames
  <2>2. CASE set
    <3>1. hosted = SetHost(head, 0, h)
      BY <2>2
    <3>2. HostAt(head, 0) # 0 /\ head[HostAt(head, 0)].value # Empty
      BY <1>6, <1>7, <1>9, <2>2
    <3>. HIDE DEF hosted
    <3>. QED  BY <1>2, <1>5, <2>1, <3>1, <3>2, SetHostReplaces
  <2>3. CASE ~set
    BY <2>3
  <2>. QED  BY <2>2, <2>3
<1>10. /\ ~Has(raw.head, {"length"}) => j = 0
       /\ j # 0 => /\ j \in 1 .. Len(raw.head)
                   /\ raw.head[j].name = "length" /\ raw.head[j] \in Line
       /\ \A x : x[1] > 0 /\ All(raw.head, {"length"}, {x}) => (j # 0 <=> Has(raw.head, {"length"}))
  BY <1>2, LengthAtFinds
<1>11. \A x : j # 0 /\ All(raw.head, {"length"}, {x}) => Text(raw.head[j]) = x
  BY <1>10 DEF All
<1>12. opts.host /\ Has(raw.head, HostNames) /\ AllValued(raw.head)
         => i # 0 /\ hosted = SetHost(head, 0, h)
  BY <1>6, <1>7
<1>. HIDE DEF hosted, j
<1>13. /\ a \in Seq(Line)
       /\ \A names : (Has(a, names) <=> Has(hosted, names)) /\ At(a, names) = At(hosted, names)
       /\ \A T : All(hosted, {"host"}, T) => All(a, {"host"}, T)
       /\ swap /\ All(hosted, {"length"}, {Text(raw.head[j])}) => All(a, {"length"}, {<<1, n>>})
  <2>1. {"host"} \cap {"length"} = {}
    OBVIOUS
  <2>2. CASE swap
    <3>. DEFINE f == raw.head[j]
    <3>1. a = ReplaceText(hosted, f, n)
      BY <2>2
    <3>2. f \in Line /\ f.name = "length"
      BY <1>10, <2>2
    <3>. HIDE DEF a, n, f
    <3>3. /\ a \in Seq(Line)
          /\ \A names : (Has(a, names) <=> Has(hosted, names)) /\ At(a, names) = At(hosted, names)
          /\ \A names, T : names \cap {"length"} = {} /\ All(hosted, names, T) => All(a, names, T)
          /\ All(hosted, {"length"}, {Text(f)}) => All(a, {"length"}, {<<1, n>>})
      BY <1>2, <1>8, <3>1, <3>2, ReplaceTextSets
    <3>. QED  BY <2>1, <3>3 DEF f
  <2>3. CASE ~swap
    BY <1>8, <2>3
  <2>. QED  BY <2>2, <2>3
<1>14. c1 \in BOOLEAN /\ c2 \in BOOLEAN /\ (c1 => i = 0)
  BY <1>2
<1>15. opts.length /\ body => (c2 <=> j = 0) /\ (swap <=> j # 0)
  BY <1>2
<1>. HIDE DEF c1, c2, swap, a, n
<1>16. /\ b \in Seq(Line)
       /\ \A names : Has(b, names) <=> c1 /\ "host" \in names
       /\ \A names, T : All(b, names, T) <=> (c1 /\ "host" \in names => <<1, WithF(h)>> \in T)
  BY <1>2, <1>14, IfHost
<1>17. /\ c \in Seq(Line)
       /\ \A names : Has(c, names) <=> c2 /\ "length" \in names
       /\ \A names, T : All(c, names, T) <=> (c2 /\ "length" \in names => <<1, n>> \in T)
  BY <1>2, <1>14, IfLength
<1>. HIDE DEF b, c
<1>18. /\ a \o b \in Seq(Line)
       /\ \A names : Has(a \o b, names) <=> Has(a, names) \/ Has(b, names)
       /\ \A names, T : All(a \o b, names, T) <=> All(a, names, T) /\ All(b, names, T)
       /\ \A names : ~Has(b, names) => At(a \o b, names) = At(a, names)
  BY <1>13, <1>16, ConcatLines
<1>19. /\ t \in Seq(Line)
       /\ \A names : Has(t, names) <=> Has(a, names) \/ Has(b, names) \/ Has(c, names)
       /\ \A names, T : All(t, names, T) <=>
            All(a, names, T) /\ All(b, names, T) /\ All(c, names, T)
       /\ \A names : ~Has(b, names) /\ ~Has(c, names) => At(t, names) = At(a, names)
  BY <1>17, <1>18, ConcatLines
<1>. HIDE DEF t
<1>20. raw.split => ~Has(t, {"blank"})
  BY <1>8, <1>13, <1>16, <1>17, <1>19
<1>21. ASSUME opts.length, body, hs.length = NoValue, ToldOnce(raw, hs), AllValued(raw.head)
       PROVE  Says(t, "length", n)
  <2>1. PICK x : x[1] > 0 /\ All(raw.head, {"length"}, {x})
    BY <1>21 DEF ToldOnce
  <2>2. All(hosted, {"length"}, {x}) /\ (Has(hosted, {"length"}) <=> j # 0)
    BY <1>5, <1>9, <1>10, <1>21, <2>1
  <2>3. All(a, {"length"}, {<<1, n>>}) /\ (Has(a, {"length"}) <=> j # 0)
    <3>1. CASE j = 0
      BY <1>13, <2>2, <3>1 DEF Has, All
    <3>2. CASE j # 0
      <4>1. Text(raw.head[j]) = x
        BY <1>11, <2>1, <3>2
      <4>. QED  BY <1>13, <1>15, <1>21, <2>2, <3>2, <4>1
    <3>. QED  BY <3>1, <3>2
  <2>4. All(t, {"length"}, {<<1, n>>}) /\ Has(t, {"length"})
    BY <1>15, <1>16, <1>17, <1>19, <1>21, <2>3
  <2>. QED  BY <2>4, OneSays DEF Says
<1>22. ASSUME opts.host, hs.host = Spaced(h), GivenOnce(raw, 0), Has(raw.head, HostNames),
              AllValued(raw.head)
       PROVE  SaysHost(t, raw, h)
  <2>1. i # 0 /\ All(hosted, {"host"}, Saying(h)) /\ OneMore(hosted, At(raw.head, {"host"}))
    BY <1>4, <1>12, <1>22, HostOf
  <2>2. ~Has(b, {"host"}) /\ ~Has(c, {"host"})
    BY <1>14, <1>16, <1>17, <2>1
  <2>3. At(t, {"host"}) = At(hosted, {"host"})
    BY <1>13, <1>19, <2>2
  <2>4. All(t, {"host"}, Saying(h))
    BY <1>13, <1>14, <1>16, <1>17, <1>19, <2>1
  <2>. QED  BY <2>1, <2>3, <2>4 DEF SaysHost, OneMore
<1>. QED  BY <1>1, <1>19, <1>20, <1>21, <1>22 DEF n, CustomMade

\* What FromParts makes.
PartsMade(t, out, hs, known, size, opts) ==
  /\ out.lines = t \o <<Blank>>
  /\ out.body = size
  /\ ~Has(t, {"blank"})
  /\ opts.length /\ known /\ hs.length = NoValue => Says(t, "length", size)
  /\ \A h \in Hosts : hs.host = Spaced(h) =>
       All(t, {"host"}, Saying(h)) /\ At(t, {"host"}) = {1}

\* Without raw bytes the lines are those of the map and, if it is known, the length.
LEMMA FromPartsIs ==
  ASSUME NEW hs \in Maps, NEW known \in BOOLEAN, NEW size \in Nat, NEW opts \in Opts
  PROVE  \E t \in Seq(Line) : PartsMade(t, FromParts(hs, known, size, opts), hs, known, size, opts)
<1> DEFINE m  == MapLines(hs)
           c1 == opts.length /\ known
           c  == If(c1, Length(size))
           t  == m \o c
<1>1. /\ FromParts(hs, known, size, opts).lines = t \o <<Blank>>
      /\ FromParts(hs, known, size, opts).body = size
  BY DEF FromParts
<1>2. /\ m \in Seq(Line)
      /\ \A names : Has(m, names) <=> \/ hs.host # NoValue /\ "host" \in names
                                      \/ hs.length # NoValue /\ "length" \in names
      /\ \A names, T : All(m, names, T) <=>
           /\ hs.host # NoValue /\ "host" \in names => Text(hs.host) \in T
           /\ hs.length # NoValue /\ "length" \in names => <<1, hs.length>> \in T
      /\ hs.host # NoValue => At(m, {"host"}) = {1}
  BY MapLinesAre
<1>3. c1 \in BOOLEAN
  BY DEF Opts
<1>. HIDE DEF m, c1
<1>4. /\ c \in Seq(Line)
      /\ \A names : Has(c, names) <=> c1 /\ "length" \in names
      /\ \A names, T : All(c, names, T) <=> (c1 /\ "length" \in names => <<1, size>> \in T)
  BY <1>3, IfLength
<1>. HIDE DEF c
<1>5. /\ t \in Seq(Line)
      /\ \A names : Has(t, names) <=> Has(m, names) \/ Has(c, names)
      /\ \A names, T : All(t, names, T) <=> All(m, names, T) /\ All(c, names, T)
      /\ \A names : ~Has(c, names) => At(t, names) = At(m, names)
  BY <1>2, <1>4, ConcatLines
<1>. HIDE DEF t
<1>6. ~Has(t, {"blank"})
  BY <1>2, <1>4, <1>5
<1>7. ASSUME c1, hs.length = NoValue PROVE Says(t, "length", size)
  <2>1. Has(t, {"length"}) /\ All(t, {"length"}, {<<1, size>>})
    BY <1>2, <1>4, <1>5, <1>7
  <2>. QED  BY <2>1, OneSays DEF Says
<1>8. ASSUME NEW h \in Hosts, hs.host = Spaced(h)
      PROVE  All(t, {"host"}, Saying(h)) /\ At(t, {"host"}) = {1}
  <2>1. hs.host # NoValue /\ Text(hs.host) = <<2, h>>
    <3>1. hs.host \in Entries /\ h \in Nat
      BY <1>8 DEF Entries, Hosts
    <3>. QED  BY <1>8, <3>1, EntriesAre, LinesAre
  <2>2. Text(hs.host) \in Saying(h)
    BY <2>1 DEF Saying
  <2>. QED  BY <1>2, <1>4, <1>5, <2>1, <2>2
<1>. QED  BY <1>1, <1>5, <1>6, <1>7, <1>8 DEF c1, PartsMade

\* What FromPipelineRaw makes of a request that it rewrites.
PipelineMade(t, out, raw, h, opts) ==
  /\ out.lines = t \o <<Blank>>
  /\ out.body = PipelineBody(raw)
  /\ raw.split => ~Has(t, {"blank"})
  /\ \A x : opts.length /\ x[1] > 0 /\ All(raw.head, {"length"}, {x})
       => Says(t, "length", Size(raw))
  /\ opts.host /\ Has(raw.head, {"host"}) /\ Cardinality(Texts(raw.head, HostNames)) <= 1
       => All(t, {"host"}, Saying(h)) /\ At(t, {"host"}) = At(raw.head, {"host"})

\* ToRequest adds what it did not find, and counts the body without the CRLF that
\* it writes at its end.
LEMMA FromPipelineRawIs ==
  ASSUME NEW raw \in Raws, WellFormed(raw), NEW h \in Hosts, NEW opts \in Opts, opts # NoOpts
  PROVE  \E t \in Seq(Line) : PipelineMade(t, FromPipelineRaw(raw, h, opts), raw, h, opts)
<1> DEFINE n      == Size(raw)
           hosted == IF opts.host THEN SetHost(raw.head, 0, h) ELSE raw.head
           c1     == ~(opts.host /\ HostAt(raw.head, 0) # 0)
           c2     == ~(opts.length /\ LengthAt(hosted) # 0)
           a      == IF opts.length THEN SetLength(hosted, n) ELSE hosted
           b      == If(c1, Host(WithF(h)))
           c      == If(c2, Length(n))
           t      == (a \o b) \o c
<1>1. /\ FromPipelineRaw(raw, h, opts).lines = t \o <<Blank>>
      /\ FromPipelineRaw(raw, h, opts).body = PipelineBody(raw)
  BY DEF FromPipelineRaw, LengthOf
<1>2. /\ raw.head \in Seq(Line) /\ n \in Nat /\ h \in Nat /\ WithF(h) \in Nat
      /\ opts.host \in BOOLEAN /\ opts.length \in BOOLEAN /\ raw.split \in BOOLEAN
      /\ (raw.split => ~Has(raw.head, {"blank"}))
  BY RawTypes DEF Hosts, Opts, WithF
<1>3. opts.host /\ Has(raw.head, {"host"}) /\ Cardinality(Texts(raw.head, HostNames)) <= 1
        => All(hosted, HostNames, Saying(h)) /\ At(hosted, {"host"}) = At(raw.head, {"host"})
  BY HostedPipeline
<1>4. Has(raw.head, {"host"}) => HostAt(raw.head, 0) # 0
  BY <1>2, AnyMatched, HostAtFirst DEF Has, HostNames
<1>5. /\ hosted \in Seq(Line)
      /\ raw.split => ~Has(hosted, {"blank"})
      /\ \A T : All(raw.head, {"length"}, T) => All(hosted, {"length"}, T)
  <2>1. {"blank"} \cap HostNames = {} /\ {"length"} \cap HostNames = {}
    BY DEF HostNames
  <2>2. CASE opts.host
    <3>1. hosted = SetHost(raw.head, 0, h)
      BY <2>2
    <3>. HIDE DEF hosted
    <3>. QED  BY <1>2, <2>1, <3>1, SetHostKeeps
  <2>3. CASE ~opts.host
    BY <1>2, <2>3
  <2>. QED  BY <2>2, <2>3
<1>6. \A x : x[1] > 0 /\ All(hosted, {"length"}, {x})
               => (LengthAt(hosted) # 0 <=> Has(hosted, {"length"}))
  BY <1>5, LengthAtFinds
<1>. HIDE DEF hosted
<1>7. /\ a \in Seq(Line)
      /\ \A names : (Has(a, names) <=> Has(hosted, names)) /\ At(a, names) = At(hosted, names)
      /\ \A T : All(hosted, {"host"}, T) => All(a, {"host"}, T)
      /\ \A x : opts.length /\ x[1] > 0 /\ All(hosted, {"length"}, {x})
                  => All(a, {"length"}, {<<1, n>>})
  <2>1. "length" \notin {"host"}
    OBVIOUS
  <2>2. CASE opts.length
    <3>1. a = SetLength(hosted, n)
      BY <2>2
    <3>. HIDE DEF a, n
    <3>. QED  BY <1>2, <1>5, <2>1, <3>1, SetLengthSets
  <2>3. CASE ~opts.length
    BY <1>5, <2>3
  <2>. QED  BY <2>2, <2>3
<1>8. c1 \in BOOLEAN /\ c2 \in BOOLEAN
  OBVIOUS
<1>9. /\ opts.length => (c2 <=> LengthAt(hosted) = 0)
      /\ opts.host /\ Has(raw.head, {"host"}) => ~c1
  BY <1>4
<1>. HIDE DEF c1, c2, a, n
<1>10. /\ b \in Seq(Line)
       /\ \A names : Has(b, names) <=> c1 /\ "host" \in names
       /\ \A names, T : All(b, names, T) <=> (c1 /\ "host" \in names => <<1, WithF(h)>> \in T)
  BY <1>2, <1>8, IfHost
<1>11. /\ c \in Seq(Line)
       /\ \A names : Has(c, names) <=> c2 /\ "length" \in names
       /\ \A names, T : All(c, names, T) <=> (c2 /\ "length" \in names => <<1, n>> \in T)
  BY <1>2, <1>8, IfLength
<1>. HIDE DEF b, c
<1>12. /\ a \o b \in Seq(Line)
       /\ \A names : Has(a \o b, names) <=> Has(a, names) \/ Has(b, names)
       /\ \A names, T : All(a \o b, names, T) <=> All(a, names, T) /\ All(b, names, T)
       /\ \A names : ~Has(b, names) => At(a \o b, names) = At(a, names)
  BY <1>7, <1>10, ConcatLines
<1>13. /\ t \in Seq(Line)
       /\ \A names : Has(t, names) <=> Has(a, names) \/ Has(b, names) \/ Has(c, names)
       /\ \A names, T : All(t, names, T) <=>
            All(a, names, T) /\ All(b, names, T) /\ All(c, names, T)
       /\ \A names : ~Has(b, names) /\ ~Has(c, names) => At(t, names) = At(a, names)
  BY <1>11, <1>12, ConcatLines
<1>. HIDE DEF t
<1>14. raw.split => ~Has(t, {"blank"})
  BY <1>5, <1>7, <1>10, <1>11, <1>13
<1>15. ASSUME NEW x, opts.length, x[1] > 0, All(raw.head, {"length"}, {x})
       PROVE  Says(t, "length", n)
  <2>1. All(hosted, {"length"}, {x})
    BY <1>5, <1>15
  <2>2. All(a, {"length"}, {<<1, n>>}) /\ (c2 <=> ~Has(a, {"length"}))
    BY <1>6, <1>7, <1>9, <1>15, <2>1
  <2>3. All(t, {"length"}, {<<1, n>>}) /\ Has(t, {"length"})
    BY <1>10, <1>11, <1>13, <2>2
  <2>. QED  BY <1>2, <2>3, OneSays DEF Says
<1>16. ASSUME opts.host, Has(raw.head, {"host"}), Cardinality(Texts(raw.head, HostNames)) <= 1
       PROVE  All(t, {"host"}, Saying(h)) /\ At(t, {"host"}) = At(raw.head, {"host"})
  <2>1. All(hosted, {"host"}, Saying(h)) /\ At(hosted, {"host"}) = At(raw.head, {"host"}) /\ ~c1
    BY <1>3, <1>9, <1>16, HostOf
  <2>2. ~Has(b, {"host"}) /\ ~Has(c, {"host"})
    BY <1>10, <1>11, <2>1
  <2>3. At(t, {"host"}) = At(hosted, {"host"})
    BY <1>7, <1>13, <2>2
  <2>4. All(t, {"host"}, Saying(h))
    BY <1>7, <1>10, <1>11, <1>13, <2>1
  <2>. QED  BY <2>1, <2>3, <2>4
<1>. QED  BY <1>1, <1>13, <1>14, <1>15, <1>16 DEF n, PipelineMade

\* What is sent as it is, or without raw bytes, is made of lines.
LEMMA PipelineLines ==
  /\ \A raw \in Raws, h \in Hosts :
       LET out == FromPipelineRaw(raw, h, NoOpts)
       IN  out.lines \in Seq(Line) /\ out.body \in Nat
  /\ \A hs \in Maps, auto, known \in BOOLEAN, size \in Nat :
       LET out == FromPipelineParts(hs, auto, known, size)
       IN  out.lines \in Seq(Line) /\ out.body \in Nat
<1>1. ASSUME NEW raw \in Raws, NEW h \in Hosts
      PROVE  LET out == FromPipelineRaw(raw, h, NoOpts)
             IN  out.lines \in Seq(Line) /\ out.body \in Nat
  <2>. DEFINE last == If(raw.split, Blank)
  <2>1. raw.head \in Seq(Line) /\ last \in Seq(Line) /\ Size(raw) \in Nat
    BY RawTypes, LinesAre, IfLine
  <2>2. FromPipelineRaw(raw, h, NoOpts) = [lines |-> raw.head \o last, body |-> Size(raw)]
    BY DEF FromPipelineRaw
  <2>. HIDE DEF last
  <2>. QED  BY <2>1, <2>2, ConcatProperties
<1>2. ASSUME NEW hs \in Maps, NEW auto \in BOOLEAN, NEW known \in BOOLEAN, NEW size \in Nat
      PROVE  LET out == FromPipelineParts(hs, auto, known, size)
             IN  out.lines \in Seq(Line) /\ out.body \in Nat
  <2>. DEFINE last == IF auto /\ known THEN <<Length(size)>> ELSE <<Blank>>
  <2>1. last \in Seq(Line)
    BY LinesAre
  <2>2. MapLines(hs) \in Seq(Line)
    BY MapLinesAre
  <2>3. FromPipelineParts(hs, auto, known, size) = [lines |-> MapLines(hs) \o last, body |-> size]
    BY DEF FromPipelineParts
  <2>. HIDE DEF last
  <2>. QED  BY <2>1, <2>2, <2>3, ConcatProperties
<1>. QED  BY <1>1, <1>2

-------------------------------------------------------------------------------
(* The calls.                                                              *)

\* All Content-Lengths of raw have one text, with white space, and so has S.
Agree(raw, S) == \E x : x[1] > 0 /\ All(raw.head, {"length"}, {x}) /\ S \subseteq {x}

\* If all texts of a set that holds those of the head are one, with white space, then
\* the head has one.
LEMMA OneGapped ==
  ASSUME NEW raw \in Raws, NEW S, IsFiniteSet(S), Cardinality(S) <= 1, Gapped(S),
         Texts(raw.head, {"length"}) \subseteq S
  PROVE  Agree(raw, S)
<1>1. \A a, b \in S : a = b
  BY AtMostOne
<1>2. raw.head \in Seq(Line)
  BY RawTypes
<1>3. \A i \in 1 .. Len(raw.head) : raw.head[i].name \in {"length"} => Text(raw.head[i]) \in S
  BY <1>2, AtIs DEF Texts
<1>4. CASE S = {}
  <2>. DEFINE x == <<1, 0>>
  <2>1. x[1] > 0 /\ All(raw.head, {"length"}, {x})
    BY <1>3, <1>4 DEF All
  <2>. QED  BY <1>4, <2>1 DEF Agree
<1>5. CASE S # {}
  <2>1. PICK x : x \in S
    BY <1>5
  <2>2. x[1] > 0
    BY <2>1 DEF Gapped
  <2>3. All(raw.head, {"length"}, {x})
    BY <1>1, <1>3, <2>1 DEF All
  <2>4. S \subseteq {x}
    BY <1>1, <2>1
  <2>. QED  BY <2>2, <2>3, <2>4 DEF Agree
<1>. QED  BY <1>4, <1>5

\* Told has one element at most: the raw bytes and the map tell one length.
LEMMA ToldIsOnce ==
  ASSUME NEW raw \in Raws, NEW hs \in Maps, NEW S,
         S = Texts(raw.head, {"length"}) \cup {Text(Length(n)) : n \in {hs.length} \ {NoValue}},
         Cardinality(S) <= 1, Gapped(S)
  PROVE  ToldOnce(raw, hs)
<1> DEFINE given == Texts(raw.head, {"length"})
           kept  == {Text(Length(n)) : n \in {hs.length} \ {NoValue}}
<1>1. raw.head \in Seq(Line)
  BY RawTypes
<1>2. IsFiniteSet(given)
  BY <1>1, TextsFinite
<1>3. IsFiniteSet(kept)
  <2>1. kept \subseteq {Text(Length(hs.length))}
    OBVIOUS
  <2>. QED  BY <2>1, FS_Singleton, FS_Subset
<1>4. IsFiniteSet(S)
  BY <1>2, <1>3, FS_Union
<1>5. PICK x : x[1] > 0 /\ All(raw.head, {"length"}, {x}) /\ S \subseteq {x}
  <2>1. Texts(raw.head, {"length"}) \subseteq S
    OBVIOUS
  <2>2. Agree(raw, S)
    BY <1>4, <2>1, OneGapped
  <2>. QED  BY <2>2 DEF Agree
<1>6. hs.length # NoValue => <<1, hs.length>> = x
  <2>1. ASSUME hs.length # NoValue PROVE <<1, hs.length>> = x
    <3>1. Text(Length(hs.length)) \in S
      BY <2>1
    <3>2. hs.length \in Nat
      BY <2>1 DEF Maps
    <3>. QED  BY <1>5, <3>1, <3>2, LinesAre
  <2>. QED  BY <2>1
<1>. QED  BY <1>5, <1>6 DEF ToldOnce

\* One host at most, with white space before its value, can be found by each search,
\* and without white space by those of n = 0.
LEMMA GivenIsOnce ==
  ASSUME NEW raw \in Raws, Cardinality(Texts(raw.head, HostNames)) <= 1
  PROVE  /\ GivenOnce(raw, 0)
         /\ Gapped(Valued(Texts(raw.head, HostNames))) => GivenOnce(raw, 1)
<1> DEFINE S == Texts(raw.head, HostNames)
<1>1. raw.head \in Seq(Line)
  BY RawTypes
<1>2. \A i \in 1 .. Len(raw.head) : raw.head[i] \in Line
        /\ (raw.head[i].name \in HostNames => Text(raw.head[i]) \in S)
  BY <1>1, AtIs DEF Texts
<1>3. GivenOnce(raw, 0)
  BY <1>1, AnyMatched DEF GivenOnce
<1>. HIDE DEF S
<1>4. ASSUME Gapped(Valued(S)) PROVE AllMatched(raw.head, 1)
  <2>1. ASSUME NEW i \in 1 .. Len(raw.head), raw.head[i].name \in HostNames,
               raw.head[i].value # Empty
        PROVE  raw.head[i].gap >= 1
    <3>1. Text(raw.head[i]) \in Valued(S)
      BY <1>2, <2>1 DEF Valued, Text
    <3>2. raw.head[i].gap > 0 /\ raw.head[i].gap \in Nat
      BY <1>2, <1>4, <3>1 DEF Gapped, Text, Line
    <3>. QED  BY <3>2
  <2>. QED  BY <2>1 DEF AllMatched, Matched
<1>. QED  BY <1>3, <1>4 DEF GivenOnce, S

\* If no text is empty, each host has a value.
LEMMA ValuedTexts ==
  ASSUME NEW raw \in Raws, \A x \in Texts(raw.head, HostNames) : x[2] # Empty
  PROVE  AllValued(raw.head)
<1>1. raw.head \in Seq(Line)
  BY RawTypes
<1>2. \A i \in 1 .. Len(raw.head) : raw.head[i].name \in HostNames
        => Text(raw.head[i]) \in Texts(raw.head, HostNames)
  BY <1>1, AtIs DEF Texts
<1>. QED  BY <1>2 DEF AllValued, Text

\* If there is a text, there is a host.
LEMMA TextsThere ==
  ASSUME NEW raw \in Raws, Cardinality(Texts(raw.head, HostNames)) = 1
  PROVE  Has(raw.head, HostNames)
<1>1. raw.head \in Seq(Line)
  BY RawTypes
<1>2. Texts(raw.head, HostNames) # {}
  BY FS_EmptySet
<1>. QED  BY <1>1, <1>2, AtIs DEF Texts

\* One more is one more.
LEMMA OneMoreIs ==
  ASSUME NEW t, NEW given, OneMore(t, given)
  PROVE  given \subseteq At(t, {"host"}) /\ Cardinality(At(t, {"host"}) \ given) = 1
<1>1. PICK k : k \notin given /\ At(t, {"host"}) = given \cup {k}
  BY DEF OneMore
<1>2. At(t, {"host"}) \ given = {k}
  BY <1>1
<1>. QED  BY <1>1, <1>2, FS_Singleton

\* toRequest with raw bytes: all three hold of what is written.
LEMMA RawStep ==
  ASSUME TypeOK, NEW h \in Hosts, NEW opts \in Opts, NEW hs \in Maps, headers' = hs,
         hs.length = headers.length, opts.host => hs.host = Spaced(h),
         NEW raw \in Raws, WellFormed(raw),
         Written("raw", h, opts, raw, Size(raw), FromRaw(raw, hs, h, opts))
  PROVE  TypeOK' /\ Framed' /\ HostSet'
<1> DEFINE out == FromRaw(raw, hs, h, opts)
           u   == message'.lines
<1>1. PICK t \in Seq(Line) : RawMade(t, out, raw, hs, h, opts)
  BY FromRawIs
<1>2. /\ message'.via = "raw" /\ message'.host = h /\ message'.opts = opts
      /\ message'.raw = raw /\ message'.size = Size(raw) /\ message'.before = headers
      /\ u = t \o <<Blank>> /\ message'.body = Size(raw)
  BY <1>1 DEF Written, RawMade
<1>3. u \in Seq(Line) /\ Size(raw) \in Nat
  BY <1>2, RawTypes, Closed
<1>. HIDE DEF u
<1>4. ASSUME raw.split PROVE ReadsBack(t, u)
  <2>1. ~Has(t, {"blank"})
    BY <1>1, <1>4 DEF RawMade
  <2>. QED  BY <1>2, <2>1, ReadBack
<1>5. TypeOK'
  BY <1>2, <1>3 DEF TypeOK, Maps, u
<1>6. Framed'
  <2>1. ASSUME opts.length, raw.split, Size(raw) > 0, Cardinality(Told') <= 1, Gapped(Told)'
        PROVE  Aligned'
    <3>1. ToldOnce(raw, hs)
      BY <1>2, <2>1, ToldIsOnce DEF Told, GivesLength, Gapped
    <3>2. Says(t, "length", Size(raw))
      BY <1>1, <2>1, <3>1 DEF RawMade
    <3>3. At(t, {"length"}) # {}
      BY <3>2, AtIs DEF Says
    <3>. QED  BY <1>2, <2>1, <3>2, <3>3, <1>4 DEF Says, Aligned, Tells, AllSay, HeadEnd, Seen, ReadsBack, u
  <2>. QED  BY <1>2, <2>1 DEF Framed
<1>7. HostSet'
  <2>1. ASSUME opts.host, raw.split, Cardinality(GivesHost') <= 1, Gapped(Valued(GivesHost))'
        PROVE  HostIn(1)'
    <3>1. GivenOnce(raw, 1)
      BY <1>2, <2>1, GivenIsOnce DEF GivesHost, Gapped, Valued
    <3>2. SaysHost(t, raw, h)
      BY <1>1, <2>1, <3>1 DEF RawMade
    <3>3. At(raw.head, {"host"}) \subseteq At(t, {"host"})
          /\ Cardinality(At(t, {"host"}) \ At(raw.head, {"host"})) = 1
      BY <3>2, OneMoreIs DEF SaysHost
    <3>. QED  BY <1>2, <1>4, <2>1, <3>2, <3>3 DEF SaysHost, HostIn, AllSay, HeadEnd, Seen, ReadsBack, u
  <2>. QED  BY <1>2, <2>1 DEF HostSet
<1>. QED  BY <1>5, <1>6, <1>7

\* toRequest with CustomRawBytes.
LEMMA CustomStep ==
  ASSUME TypeOK, NEW h \in Hosts, NEW opts \in Opts, NEW hs \in Maps, headers' = hs,
         hs.length = headers.length, opts.host => hs.host = Spaced(h),
         NEW raw \in Raws, WellFormed(raw),
         Written("custom", h, opts, raw, Size(raw), FromCustom(raw, hs, h, opts))
  PROVE  TypeOK' /\ Framed' /\ HostSet'
<1> DEFINE out == FromCustom(raw, hs, h, opts)
           u   == message'.lines
<1>1. PICK t \in Seq(Line) : CustomMade(t, out, raw, hs, h, opts)
  BY FromCustomIs
<1>2. /\ message'.via = "custom" /\ message'.host = h /\ message'.opts = opts
      /\ message'.raw = raw /\ message'.size = Size(raw) /\ message'.before = headers
      /\ u = t \o <<Blank>> /\ message'.body = Size(raw)
  BY <1>1 DEF Written, CustomMade
<1>3. u \in Seq(Line) /\ Size(raw) \in Nat
  BY <1>2, RawTypes, Closed
<1>. HIDE DEF u
<1>4. ASSUME raw.split PROVE ReadsBack(t, u)
  <2>1. ~Has(t, {"blank"})
    BY <1>1, <1>4 DEF CustomMade
  <2>. QED  BY <1>2, <2>1, ReadBack
<1>5. TypeOK'
  BY <1>2, <1>3 DEF TypeOK, Maps, u
<1>6. Framed'
  <2>1. ASSUME opts.length, raw.split, Size(raw) > 0, GivesHost' = Valued(GivesHost)',
               headers.length = NoValue,
               Cardinality(Told') <= 1, Gapped(Told)'
        PROVE  Aligned'
    <3>1. ToldOnce(raw, hs)
      BY <1>2, <2>1, ToldIsOnce DEF Told, GivesLength, Gapped
    <3>4. AllValued(raw.head)
      BY <1>2, <2>1, ValuedTexts DEF GivesHost, Valued
    <3>2. Says(t, "length", Size(raw))
      BY <1>1, <2>1, <3>1, <3>4 DEF CustomMade
    <3>3. At(t, {"length"}) # {}
      BY <3>2, AtIs DEF Says
    <3>. QED  BY <1>2, <2>1, <3>2, <3>3, <1>4 DEF Says, Aligned, Tells, AllSay, HeadEnd, Seen, ReadsBack, u
  <2>. QED  BY <1>2, <2>1 DEF Framed
<1>7. HostSet'
  <2>1. ASSUME opts.host, raw.split, Cardinality(GivesHost') = 1, GivesHost' = Valued(GivesHost)'
        PROVE  HostIn(1)'
    <3>1. GivenOnce(raw, 0)
      BY <1>2, <2>1, GivenIsOnce DEF GivesHost
    <3>4. AllValued(raw.head)
      BY <1>2, <2>1, ValuedTexts DEF GivesHost, Valued
    <3>5. Has(raw.head, HostNames)
      BY <1>2, <2>1, TextsThere DEF GivesHost
    <3>2. SaysHost(t, raw, h)
      BY <1>1, <2>1, <3>1, <3>4, <3>5 DEF CustomMade
    <3>3. At(raw.head, {"host"}) \subseteq At(t, {"host"})
          /\ Cardinality(At(t, {"host"}) \ At(raw.head, {"host"})) = 1
      BY <3>2, OneMoreIs DEF SaysHost
    <3>. QED  BY <1>2, <1>4, <2>1, <3>2, <3>3 DEF SaysHost, HostIn, AllSay, HeadEnd, Seen, ReadsBack, u
  <2>. QED  BY <1>2, <2>1 DEF HostSet
<1>. QED  BY <1>5, <1>6, <1>7

\* WriteRequest without raw bytes, in a call or in a dump.
LEMMA PartsStep ==
  ASSUME TypeOK, NEW h \in Hosts, NEW opts \in Opts, NEW hs \in Maps, headers' = hs,
         NEW known \in BOOLEAN, NEW size \in {0, 3}, NEW via,
         \/ /\ via = IF known THEN "parts" ELSE "stream"
            /\ hs.length = headers.length /\ (opts.host => hs.host = Spaced(h))
         \/ via = "dump",
         Written(via, h, opts, NoRaw, size, FromParts(hs, known, size, opts))
  PROVE  TypeOK' /\ Framed' /\ HostSet'
<1> DEFINE out == FromParts(hs, known, size, opts)
           u   == message'.lines
<1>1. PICK t \in Seq(Line) : PartsMade(t, out, hs, known, size, opts)
  BY FromPartsIs
<1>2. /\ message'.via = via /\ message'.host = h /\ message'.opts = opts /\ message'.raw = NoRaw
      /\ message'.before = headers /\ u = t \o <<Blank>> /\ message'.body = size
  BY <1>1 DEF Written, PartsMade
<1>3. u \in Seq(Line)
  BY <1>2, Closed
<1>. HIDE DEF u
<1>4. ReadsBack(t, u)
  <2>1. ~Has(t, {"blank"})
    BY <1>1 DEF PartsMade
  <2>. QED  BY <1>2, <2>1, ReadBack
<1>5. via \in {"parts", "stream", "dump"} /\ (via = "parts" => known)
  OBVIOUS
<1>6. TypeOK'
  BY <1>2, <1>3, <1>5 DEF TypeOK, Maps, u
<1>7. Framed'
  <2>1. ASSUME opts.length, via = "parts", headers.length = NoValue
        PROVE  Aligned'
    <3>1. Says(t, "length", size)
      BY <1>1, <1>5, <2>1 DEF PartsMade
    <3>2. At(t, {"length"}) # {}
      BY <3>1, AtIs DEF Says
    <3>. QED  BY <1>2, <1>4, <3>1, <3>2 DEF Says, Aligned, Tells, AllSay, HeadEnd, Seen, ReadsBack, u
  <2>. QED  BY <1>2, <1>5, <2>1 DEF Framed
<1>8. HostSet'
  <2>1. ASSUME opts.host, via \in {"parts", "stream"}
        PROVE  HostIn(1)'
    <3>1. All(t, {"host"}, Saying(h)) /\ At(t, {"host"}) = {1}
      BY <1>1, <2>1 DEF PartsMade
    <3>2. At(NoRaw.head, {"host"}) = {}
      BY NoLine DEF NoRaw
    <3>3. {1} \ {} = {1} /\ Cardinality({1}) = 1
      BY FS_Singleton
    <3>. QED  BY <1>2, <1>4, <3>1, <3>2, <3>3 DEF HostIn, AllSay, HeadEnd, Seen, ReadsBack, u
  <2>. QED  BY <1>2, <1>5, <2>1 DEF HostSet
<1>. QED  BY <1>6, <1>7, <1>8

\* A raw request of the pipeline that ToRequest rewrites.
LEMMA PipelineRawStep ==
  ASSUME TypeOK, UNCHANGED headers, NEW h \in Hosts, NEW opts \in Opts, opts # NoOpts,
         NEW raw \in Raws, WellFormed(raw),
         Written("pipeline", h, opts, raw, Size(raw), FromPipelineRaw(raw, h, opts))
  PROVE  TypeOK' /\ Framed' /\ HostSet'
<1> DEFINE out == FromPipelineRaw(raw, h, opts)
           u   == message'.lines
<1>1. PICK t \in Seq(Line) : PipelineMade(t, out, raw, h, opts)
  BY FromPipelineRawIs
<1>2. /\ message'.via = "pipeline" /\ message'.host = h /\ message'.opts = opts
      /\ message'.raw = raw /\ message'.size = Size(raw) /\ message'.before = headers
      /\ u = t \o <<Blank>> /\ message'.body = PipelineBody(raw)
  BY <1>1 DEF Written, PipelineMade
<1>3. /\ u \in Seq(Line) /\ PipelineBody(raw) \in Nat
      /\ raw.split /\ raw.sep = "crlf" => PipelineBody(raw) = Size(raw) + 2
  BY <1>2, RawTypes, Closed
<1>. HIDE DEF u
<1>4. ASSUME raw.split PROVE ReadsBack(t, u)
  <2>1. ~Has(t, {"blank"})
    BY <1>1, <1>4 DEF PipelineMade
  <2>. QED  BY <1>2, <2>1, ReadBack
<1>5. TypeOK'
  BY <1>2, <1>3 DEF TypeOK, u
<1>6. Framed'
  <2>1. ASSUME opts.length, raw.split, raw.sep = "crlf", Cardinality(GivesLength') <= 1,
               Gapped(GivesLength)'
        PROVE  /\ HeadEnd' = Len(message'.lines)
               /\ Tells(Size(raw))' /\ PipelineBody(raw) = Size(raw) + 2
    <3>1. PICK x : x[1] > 0 /\ All(raw.head, {"length"}, {x})
      <4>1. raw.head \in Seq(Line)
        BY RawTypes
      <4>2. IsFiniteSet(Texts(raw.head, {"length"}))
        BY <4>1, TextsFinite
      <4>3. Cardinality(Texts(raw.head, {"length"})) <= 1 /\ Gapped(Texts(raw.head, {"length"}))
        BY <1>2, <2>1 DEF GivesLength, Gapped
      <4>. QED  BY <4>2, <4>3, OneGapped DEF Agree
    <3>2. Says(t, "length", Size(raw))
      BY <1>1, <2>1, <3>1 DEF PipelineMade
    <3>3. At(t, {"length"}) # {}
      BY <3>2, AtIs DEF Says
    <3>. QED  BY <1>2, <1>3, <2>1, <3>2, <3>3, <1>4 DEF Says, Aligned, Tells, AllSay, HeadEnd, Seen, ReadsBack, u
  <2>. QED  BY <1>2, <2>1 DEF Framed
<1>7. HostSet'
  <2>1. ASSUME opts.host, raw.split, Cardinality(GivesHost') = 1,
               At(raw.head, {"host"}) # {}
        PROVE  HostIn(0)'
    <3>1. Has(raw.head, {"host"})
      BY <2>1, RawTypes, AtIs
    <3>2. All(t, {"host"}, Saying(h)) /\ At(t, {"host"}) = At(raw.head, {"host"})
      BY <1>1, <1>2, <2>1, <3>1 DEF PipelineMade, GivesHost
    <3>3. At(t, {"host"}) \ At(raw.head, {"host"}) = {} /\ Cardinality({}) = 0
      BY <3>2, FS_EmptySet
    <3>. QED  BY <1>2, <1>4, <2>1, <3>2, <3>3 DEF HostIn, AllSay, HeadEnd, Seen, ReadsBack, u
  <2>. QED  BY <1>2, <2>1 DEF HostSet
<1>. QED  BY <1>5, <1>6, <1>7

\* The other calls of the pipeline: a request that panics, one that is sent as it
\* is, and one without raw bytes, of which neither property says anything.
LEMMA OtherStep ==
  ASSUME TypeOK, UNCHANGED headers, NEW h \in Hosts, NEW opts \in Opts, NEW raw, NEW size,
         NEW via, NEW out,
         via \in {"panic", "pipelineparts"} \/ (via = "pipeline" /\ opts = NoOpts),
         out.lines \in Seq(Line), out.body \in Nat,
         Written(via, h, opts, raw, size, out)
  PROVE  TypeOK' /\ Framed' /\ HostSet'
<1>1. /\ message'.via = via /\ message'.opts = opts
      /\ message'.lines = out.lines /\ message'.body = out.body
  BY DEF Written
<1>2. via = "pipeline" => ~opts.length /\ ~opts.host
  BY DEF NoOpts
<1>3. TypeOK'
  BY <1>1 DEF TypeOK
<1>4. Framed'
  BY <1>1, <1>2 DEF Framed
<1>5. HostSet'
  BY <1>1, <1>2 DEF HostSet
<1>. QED  BY <1>3, <1>4, <1>5

-------------------------------------------------------------------------------
(* The theorems.                                                           *)

RewriteInv == TypeOK /\ Framed /\ HostSet

\* Before the first call the properties say nothing.
LEMMA RewriteInit == Init => RewriteInv
<1> SUFFICES ASSUME Init PROVE RewriteInv
  OBVIOUS
<1>1. message = NoMessage /\ ~message.opts.length /\ ~message.opts.host
  BY DEF Init, NoMessage, NoOpts
<1>2. message.via = "none" /\ message.lines = <<>> /\ message.body = 0
  BY <1>1 DEF NoMessage
<1>3. <<>> \in Seq(Line)
  BY NoLine
<1>4. TypeOK
  BY <1>1, <1>2, <1>3 DEF Init, TypeOK, Entries
<1>. QED  BY <1>1, <1>4 DEF RewriteInv, Framed, HostSet

\* Every call keeps the three.
LEMMA DoStep == RewriteInv /\ Do => RewriteInv'
<1> SUFFICES ASSUME RewriteInv, Do PROVE RewriteInv'
  OBVIOUS
<1>1. TypeOK
  BY DEF RewriteInv
<1>2. PICK h \in Hosts, opts \in Opts :
        LET hs == IF opts.host THEN [headers EXCEPT !.host = HostEntry(headers, h)]
                               ELSE headers
        IN  /\ headers' = hs
            /\ \/ \E raw \in Raws :
                    /\ WellFormed(raw)
                    /\ \/ Written("raw", h, opts, raw, Size(raw), FromRaw(raw, hs, h, opts))
                       \/ Written("custom", h, opts, raw, Size(raw), FromCustom(raw, hs, h, opts))
               \/ \E known \in BOOLEAN, size \in {0, 3} :
                    Written(IF known THEN "parts" ELSE "stream", h, opts, NoRaw, size,
                            FromParts(hs, known, size, opts))
  BY DEF Do
<1> DEFINE hs == IF opts.host THEN [headers EXCEPT !.host = HostEntry(headers, h)] ELSE headers
<1>3. hs \in Maps /\ hs.length = headers.length /\ (opts.host => hs.host = Spaced(h))
  BY <1>1 DEF TypeOK, Maps, Entries, HostEntry, Opts
<1>4. headers' = hs
  BY <1>2
<1>. HIDE DEF hs
<1>5. ASSUME NEW raw \in Raws, WellFormed(raw),
             Written("raw", h, opts, raw, Size(raw), FromRaw(raw, hs, h, opts))
      PROVE  RewriteInv'
  BY <1>1, <1>3, <1>4, <1>5, RawStep DEF RewriteInv
<1>6. ASSUME NEW raw \in Raws, WellFormed(raw),
             Written("custom", h, opts, raw, Size(raw), FromCustom(raw, hs, h, opts))
      PROVE  RewriteInv'
  BY <1>1, <1>3, <1>4, <1>6, CustomStep DEF RewriteInv
<1>7. ASSUME NEW known \in BOOLEAN, NEW size \in {0, 3},
             Written(IF known THEN "parts" ELSE "stream", h, opts, NoRaw, size,
                     FromParts(hs, known, size, opts))
      PROVE  RewriteInv'
  BY <1>1, <1>3, <1>4, <1>7, PartsStep DEF RewriteInv
<1>. QED  BY <1>2, <1>5, <1>6, <1>7 DEF hs

\* A dump, which leaves the Host in the map.
LEMMA DumpStep == RewriteInv /\ Dump => RewriteInv'
<1> SUFFICES ASSUME RewriteInv, Dump PROVE RewriteInv'
  OBVIOUS
<1>1. TypeOK
  BY DEF RewriteInv
<1>2. PICK h \in Hosts, opts \in Opts, size \in {0, 3} :
        LET hs == IF headers.host = NoValue THEN [headers EXCEPT !.host = Host(h)] ELSE headers
        IN  /\ headers' = hs
            /\ Written("dump", h, opts, NoRaw, size, FromParts(hs, FALSE, size, opts))
  BY DEF Dump
<1> DEFINE hs == IF headers.host = NoValue THEN [headers EXCEPT !.host = Host(h)] ELSE headers
<1>3. hs \in Maps
  BY <1>1 DEF TypeOK, Maps, Entries
<1>4. headers' = hs /\ Written("dump", h, opts, NoRaw, size, FromParts(hs, FALSE, size, opts))
  BY <1>2
<1>. HIDE DEF hs
<1>. QED  BY <1>1, <1>3, <1>4, PartsStep DEF RewriteInv

\* A call of the pipeline.
LEMMA PipelineDoStep == RewriteInv /\ PipelineDo => RewriteInv'
<1> SUFFICES ASSUME RewriteInv, PipelineDo PROVE RewriteInv'
  OBVIOUS
<1>1. TypeOK /\ UNCHANGED headers
  BY DEF RewriteInv, PipelineDo
<1>2. PICK h \in Hosts, opts \in Opts :
        \/ \E raw \in Raws :
             /\ WellFormed(raw)
             /\ IF Panics(raw, opts)
                THEN Written("panic", h, opts, raw, Size(raw), NoMessage)
                ELSE Written("pipeline", h, opts, raw, Size(raw), FromPipelineRaw(raw, h, opts))
        \/ \E auto, known \in BOOLEAN, size \in {0, 3} :
             Written("pipelineparts", h, opts, NoRaw, size,
                     FromPipelineParts(headers, auto, known, size))
  BY DEF PipelineDo
<1>3. ASSUME NEW raw \in Raws, WellFormed(raw),
             Written("panic", h, opts, raw, Size(raw), NoMessage)
      PROVE  RewriteInv'
  <2>1. NoMessage.lines \in Seq(Line) /\ NoMessage.body \in Nat
    BY NoLine DEF NoMessage
  <2>. QED  BY <1>1, <1>3, <2>1, OtherStep DEF RewriteInv
<1>4. ASSUME NEW raw \in Raws, WellFormed(raw),
             Written("pipeline", h, opts, raw, Size(raw), FromPipelineRaw(raw, h, opts))
      PROVE  RewriteInv'
  <2>1. CASE opts = NoOpts
    <3>. DEFINE out == FromPipelineRaw(raw, h, NoOpts)
    <3>1. out.lines \in Seq(Line) /\ out.body \in Nat
      BY PipelineLines
    <3>2. Written("pipeline", h, opts, raw, Size(raw), out)
      BY <1>4, <2>1
    <3>. HIDE DEF out
    <3>. QED  BY <1>1, <2>1, <3>1, <3>2, OtherStep DEF RewriteInv
  <2>2. CASE opts # NoOpts
    BY <1>1, <1>4, <2>2, PipelineRawStep DEF RewriteInv
  <2>. QED  BY <2>1, <2>2
<1>5. ASSUME NEW auto \in BOOLEAN, NEW known \in BOOLEAN, NEW size \in {0, 3},
             Written("pipelineparts", h, opts, NoRaw, size,
                     FromPipelineParts(headers, auto, known, size))
      PROVE  RewriteInv'
  <2>. DEFINE out == FromPipelineParts(headers, auto, known, size)
  <2>1. headers \in Maps
    BY <1>1 DEF TypeOK, Maps
  <2>2. out.lines \in Seq(Line) /\ out.body \in Nat
    BY <2>1, PipelineLines
  <2>. HIDE DEF out
  <2>. QED  BY <1>1, <1>5, <2>2, OtherStep DEF RewriteInv, out
<1>. QED  BY <1>2, <1>3, <1>4, <1>5

\* The three hold together, and so does each.
LEMMA RewriteInvariant == Spec => []RewriteInv
<1>1. RewriteInv /\ UNCHANGED vars => RewriteInv'
  BY DEF RewriteInv, vars, TypeOK, Framed, HostSet, HostIn, Aligned, Tells, AllSay, HeadEnd, Seen,
         Told, GivesLength, GivesHost
<1>2. RewriteInv /\ [Next]_vars => RewriteInv'
  BY <1>1, DoStep, DumpStep, PipelineDoStep DEF Next
<1>. QED  BY <1>2, RewriteInit, PTL DEF Spec

\* What is written is a sequence of lines with a body of known length, and a call
\* that sets the host leaves it in the caller's map.
THEOREM TypeCorrect == Spec => []TypeOK
<1>1. RewriteInv => TypeOK
  BY DEF RewriteInv
<1>. QED  BY <1>1, RewriteInvariant, PTL

\* With AutomaticContentLength the body that the server reads is the one that was
\* given, if the raw bytes and the map tell one length at most, with white space
\* after the colon, and the rest of Framed's preconditions: whatever other lines
\* stand there, in any order, and whatever the searches for the two headers replace
\* or lose.
THEOREM FramedAlways == Spec => []Framed
<1>1. RewriteInv => Framed
  BY DEF RewriteInv
<1>. QED  BY <1>1, RewriteInvariant, PTL

\* With AutomaticHostHeader every Host the server reads says the host of the URL, and
\* there is one of them more than the raw bytes had (as many, in the pipeline), if the
\* raw bytes name one host at most, with white space after the colon, or exactly one
\* where HostSet says so: wherever it stood, also with no value, in the map or after
\* X-Forwarded-Host.  Without those preconditions it would be HostNamed or
\* HostOnce, which the code does not keep.
THEOREM HostSetAlways == Spec => []HostSet
<1>1. RewriteInv => HostSet
  BY DEF RewriteInv
<1>. QED  BY <1>1, RewriteInvariant, PTL

===============================================================================
