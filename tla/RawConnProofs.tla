----------------------------- MODULE RawConnProofs -----------------------------
(***************************************************************************)
(* Proofs about RawConn, for any number of requests, any limit on the      *)
(* redirects and any mixture of requests: its types, and, as long as the   *)
(* server sends no 1xx response, that a call gets the response to its own  *)
(* request, that the reader of a body takes nothing else from the          *)
(* connection, and what a call leaves there for the next one.              *)
(***************************************************************************)
EXTENDS RawConn, SequenceTheorems, TLAPS

USE RawAssumption

\* All that was sent and not read, in order.
Left == input \o out

\* A call stops at its first error, and follows a redirect only when it may; the
\* redirected request finds the connection closed.
Limits == /\ call.err # "none" => call.pc = "idle"
          /\ call.pc = "drain" => call.current <= MaxRedirects
          /\ call.pc = "write" /\ ~closed => sent < MaxWrites

\* Nothing more comes from a server that closed.
Ending == eof => wire = <<>> /\ out = <<>>

\* Whoever closes the connection does so at the end of a response.
ClosedAfter == call.err = "none" /\ closed => call.pc \in {"idle", "write"}

InUse == call.err = "none" /\ ~closed

\* Lines that end chunked bodies, and nothing else.
Clean(s) == \A i \in 1 .. Len(s) : s[i].part \in {"cr", "lf"}

\* What follows position i of s is the rest of the response r, or the beginning
\* of the rest when the server closed.
Remainder(s, i, r) ==
  \A j \in i + 1 .. Len(s) :
    /\ s[j].req = r.req
    /\ j = i + 1 => s[j].part = "body"
    /\ j # i + 1 => s[j].part \in {"cr", "lf"} /\ r.kind = "chunked"
    /\ r.kind \notin {"empty", "bare"}

\* A response can begin at position i of s.
Begins(s, i) ==
  /\ s[i].req = call.req /\ s[i].kind # "interim"
  /\ s[i].kind # "malformed" => Remainder(s, i, s[i])

\* The server has at most the request of the call to answer.
Asked == InUse /\ wire # <<>> => call.pc = "read" /\ wire = <<call.req>>

\* Where the calls of the connection find it, and where they leave it.
Between == InUse /\ (call.pc \in {"idle", "write"} \/ wire # <<>>) => Clean(Left)

Coming == call.err = "none" /\ call.pc = "read" =>
            \A i \in 1 .. Len(Left) : Left[i].part = "head" => Begins(Left, i)

Reading == call.pc \in {"head", "drain", "answered"} =>
             /\ call.resp.req = call.req /\ call.resp.kind # "interim"
             /\ Remainder(Left, 0, call.resp)

Typed   == TypeOK /\ Limits
Matched == Ending /\ ClosedAfter /\ Asked /\ Between /\ Coming /\ Reading

-------------------------------------------------------------------------------
(* The types.                                                              *)

LEMMA PartsType ==
  ASSUME NEW kind \in ResponseKinds
  PROVE  /\ Len(Parts(kind)) \in 1 .. 4 /\ Parts(kind)[1] = "head"
         /\ \A i \in 1 .. Len(Parts(kind)) :
              /\ Parts(kind)[i] \in {"head", "body", "rest", "cr", "lf"}
              /\ i # 1 => Parts(kind)[i] # "head"
<1>1. CASE kind \in {"length", "redirect", "close", "badgzip"}
  <2>1. Parts(kind) = <<"head", "body">>
    BY <1>1 DEF Parts
  <2>. QED  BY <2>1
<1>2. CASE kind = "chunked"
  <2>1. Parts(kind) = <<"head", "body", "cr", "lf">>
    BY <1>2 DEF Parts
  <2>. QED  BY <2>1
<1>3. CASE kind = "malformed"
  <2>1. Parts(kind) = <<"head", "rest">>
    BY <1>3 DEF Parts
  <2>. QED  BY <2>1
<1>4. CASE kind \in {"empty", "bare", "interim"}
  <2>1. Parts(kind) = <<"head">>
    BY <1>4 DEF Parts
  <2>. QED  BY <2>1
<1>. QED  BY <1>1, <1>2, <1>3, <1>4 DEF ResponseKinds

LEMMA PiecesType ==
  ASSUME NEW req \in Writes, NEW kind \in ResponseKinds
  PROVE  /\ Pieces(req, kind) \in Seq(Piece)
         /\ Len(Pieces(req, kind)) = Len(Parts(kind))
         /\ \A i \in 1 .. Len(Parts(kind)) : 
              Pieces(req, kind)[i] = [req |-> req, kind |-> kind, part |-> Parts(kind)[i]]
<1>1. Len(Parts(kind)) \in Nat
  BY PartsType
<1>2. \A i \in 1 .. Len(Parts(kind)) :
        [req |-> req, kind |-> kind, part |-> Parts(kind)[i]] \in Piece
  BY PartsType DEF Piece
<1>. QED  BY <1>1, <1>2 DEF Pieces

LEMMA StreamType ==
  ASSUME NEW req \in Writes, NEW kind \in Responses
  PROVE  Stream(req, kind) \in Seq(Piece)
<1>1. kind \in ResponseKinds /\ "length" \in ResponseKinds
  BY DEF ResponseKinds
<1>2. Pieces(req, kind) \in Seq(Piece) /\ Pieces(req, "length") \in Seq(Piece)
  BY <1>1, PiecesType
<1>3. Pieces(req, kind) \o Pieces(req, "length") \in Seq(Piece)
  BY <1>2, ConcatProperties
<1>. QED  BY <1>2, <1>3 DEF Stream

LinkT == /\ wire \in Seq(Writes) /\ out \in Seq(Piece) /\ input \in Seq(Piece)
         /\ eof \in BOOLEAN
CallT == call \in [pc : {"idle", "write", "read", "head", "drain", "answered"},
                   kind : RequestKinds, force : BOOLEAN, follow : BOOLEAN,
                   current : 0 .. (MaxRedirects + 1), req : Writes, resp : Piece,
                   err : Errors]
FlagsT == /\ phase \in {"requestline", "header", "body"}
          /\ expired \in BOOLEAN /\ closed \in BOOLEAN /\ sent \in Writes

LEMMA TypeParts == /\ TypeOK <=> FlagsT /\ LinkT /\ CallT
                   /\ TypeOK' <=> FlagsT' /\ LinkT' /\ CallT'
  BY DEF TypeOK, FlagsT, LinkT, CallT

LEMMA TailType == ASSUME NEW S, NEW s \in Seq(S), s # <<>>
                  PROVE  Head(s) \in S /\ Tail(s) \in Seq(S)
  OBVIOUS

LEMMA InitTyped == Init => Typed
<1>. SUFFICES ASSUME Init PROVE Typed
  OBVIOUS
<1>1. /\ <<>> \in Seq(Writes) /\ <<>> \in Seq(Piece) /\ 0 \in Writes
      /\ 0 \in 0 .. (MaxRedirects + 1)
  BY DEF Writes
<1>2. None \in Piece
  BY <1>1 DEF None, Piece, ResponseKinds
<1>3. call \in [pc : {"idle", "write", "read", "head", "drain", "answered"},
               kind : RequestKinds, force : BOOLEAN, follow : BOOLEAN,
               current : 0 .. (MaxRedirects + 1), req : Writes, resp : Piece,
               err : Errors]
  BY <1>1, <1>2 DEF Init, RequestKinds, Errors
<1>. QED  BY <1>1, <1>3 DEF Init, Typed, TypeOK, Limits

LEMMA FailTyped ==
  ASSUME Typed, NEW e \in Errors, Fail(e)
  PROVE  CallT' /\ Limits'
<1>1. call' = [call EXCEPT !.pc = "idle", !.err = e] /\ CallT
  BY TypeParts DEF Fail, Typed
<1>2. CallT' /\ call'.pc = "idle"
  BY <1>1 DEF CallT
<1>. QED  BY <1>2 DEF Limits

LEMMA GotoTyped ==
  ASSUME Typed, NEW pc \in {"idle", "drain", "answered"}, Goto(pc), call.pc # "idle",
         pc = "drain" => call.current <= MaxRedirects
  PROVE  CallT' /\ Limits'
<1>1. call' = [call EXCEPT !.pc = pc] /\ CallT
  BY TypeParts DEF Goto, Typed
<1>2. CallT' /\ call'.pc = pc /\ call'.err = call.err /\ call'.current = call.current
  BY <1>1 DEF CallT
<1>. QED  BY <1>2 DEF Limits, Typed

LEMMA NextTyped == Typed /\ [Next]_vars => Typed'
<1>. SUFFICES ASSUME Typed, [Next]_vars PROVE Typed'
  OBVIOUS
<1>t. FlagsT /\ LinkT /\ CallT /\ Limits
  BY TypeParts DEF Typed
<1>s. FlagsT' /\ LinkT' /\ CallT' /\ Limits' => Typed'
  BY TypeParts DEF Typed
<1>h. input # <<>> => Head(input) \in Piece /\ Tail(input) \in Seq(Piece)
  BY <1>t, TailType DEF LinkT
<1>1. ASSUME NEW kind \in Requests, Do(kind) PROVE Typed'
  <2>1. PICK force \in BOOLEAN, follow \in BOOLEAN :
          call' = [call EXCEPT !.pc = "write", !.kind = kind, !.force = force,
                               !.follow = follow, !.current = 0, !.err = "none"]
    BY <1>1 DEF Do
  <2>2. CallT' /\ call'.pc = "write" /\ call'.err = "none"
    <3>1. kind \in RequestKinds /\ 0 \in 0 .. (MaxRedirects + 1) /\ "none" \in Errors
      BY DEF Errors
    <3>. QED  BY <1>t, <2>1, <3>1 DEF CallT
  <2>3. sent < MaxWrites /\ UNCHANGED <<phase, wire, out, input, eof, expired, closed, sent>>
    BY <1>1 DEF Do, link
  <2>. QED  BY <1>s, <1>t, <2>2, <2>3 DEF FlagsT, LinkT, Limits
<1>2. CASE Request
  <2>1. CASE Refuse
    <3>1. CallT' /\ Limits'
      BY <2>1, FailTyped DEF Refuse, Errors
    <3>. QED  BY <1>s, <1>t, <2>1, <3>1 DEF Refuse, link, FlagsT, LinkT
  <2>2. CASE WriteFails
    <3>1. CallT' /\ Limits'
      BY <2>2, FailTyped DEF WriteFails, Errors
    <3>2. phase' \in {"requestline", "header", "body"}
      <4>1. call.kind \in {"raw", "nobody", "body"}
        BY <1>t DEF CallT, RequestKinds
      <4>. QED  BY <1>t, <2>2, <4>1 DEF WriteFails, FlagsT
    <3>. QED  BY <1>s, <1>t, <2>2, <3>1, <3>2 DEF WriteFails, link, FlagsT, LinkT
  <2>3. CASE Written
    <3>1. sent + 1 \in Writes
      BY <1>t, <2>3 DEF Written, Limits, FlagsT, Writes
    <3>2. call' = [call EXCEPT !.pc = "read", !.req = sent + 1]
      BY <2>3 DEF Written
    <3>3. CallT' /\ call'.pc = "read" /\ call'.err = call.err
      BY <1>t, <3>1, <3>2 DEF CallT
    <3>4. wire' \in Seq(Writes)
      <4>1. <<sent + 1>> \in Seq(Writes)
        BY <3>1
      <4>2. wire \o <<sent + 1>> \in Seq(Writes)
        BY <1>t, <4>1, ConcatProperties DEF LinkT
      <4>3. wire' = IF eof THEN wire ELSE wire \o <<sent + 1>>
        BY <2>3 DEF Written, RequestsWritten
      <4>. QED  BY <1>t, <4>2, <4>3 DEF LinkT
    <3>5. phase' \in {"requestline", "header", "body"}
      <4>1. call.kind \in {"raw", "nobody", "body"}
        BY <1>t DEF CallT, RequestKinds
      <4>. QED  BY <1>t, <2>3, <4>1 DEF Written, AfterWrite, FlagsT
    <3>6. call.err = "none"
      BY <1>t, <2>3 DEF Written, Limits
    <3>7. Limits'
      BY <3>3, <3>6 DEF Limits
    <3>. QED  BY <1>s, <1>t, <2>3, <3>1, <3>3, <3>4, <3>5, <3>7 DEF Written, FlagsT, LinkT
  <2>. QED  BY <1>2, <2>1, <2>2, <2>3 DEF Request
<1>3. CASE Response
  <2>1. CASE ReadFails
    <3>1. CallT' /\ Limits'
      BY <2>1, FailTyped DEF ReadFails, Errors
    <3>. QED  BY <1>s, <1>t, <2>1, <3>1 DEF ReadFails, link, FlagsT, LinkT
  <2>2. CASE ReadHead
    <3>1. CASE Head(input).kind = "malformed"
      <4>1. CallT' /\ Limits'
        BY <2>2, <3>1, FailTyped DEF ReadHead, Errors
      <4>. QED  BY <1>s, <1>t, <1>h, <2>2, <4>1 DEF ReadHead, FlagsT, LinkT
    <3>2. CASE Head(input).kind # "malformed"
      <4>1. call' = [call EXCEPT !.pc = "head", !.resp = Head(input)] /\ input # <<>>
        BY <2>2, <3>2 DEF ReadHead
      <4>2. CallT' /\ call'.pc = "head" /\ call'.err = call.err
        BY <1>t, <1>h, <4>1 DEF CallT
      <4>3. call.err = "none"
        BY <1>t, <2>2 DEF ReadHead, Limits
      <4>4. Limits'
        BY <4>2, <4>3 DEF Limits
      <4>. QED  BY <1>s, <1>t, <1>h, <2>2, <4>2, <4>4 DEF ReadHead, FlagsT, LinkT
    <3>. QED  BY <3>1, <3>2
  <2>3. CASE NoStatus
    <3>1. CallT' /\ Limits'
      BY <2>3, FailTyped DEF NoStatus, Errors
    <3>. QED  BY <1>s, <1>t, <1>h, <2>3, <3>1 DEF NoStatus, FlagsT, LinkT
  <2>4. CASE BadGzip
    <3>1. CallT' /\ Limits'
      BY <2>4, FailTyped DEF BadGzip, Errors
    <3>. QED  BY <1>s, <1>t, <1>h, <2>4, <3>1 DEF BadGzip, FlagsT, LinkT
  <2>5. CASE Decide
    <3>1. CallT' /\ Limits'
      BY <2>5, GotoTyped DEF Decide, Follows
    <3>. QED  BY <1>s, <1>t, <2>5, <3>1 DEF Decide, link, FlagsT, LinkT
  <2>. QED  BY <1>3, <2>1, <2>2, <2>3, <2>4, <2>5 DEF Response
<1>4. CASE Body
  <2>e. BodyEnds \/ BodyGoesOn \/ BodyFails => input' \in Seq(Piece)
    <3>1. BodyEnds \/ BodyGoesOn \/ BodyFails
            => input' = input \/ (input # <<>> /\ input' = Tail(input))
      BY DEF BodyEnds, BodyGoesOn, BodyFails, Limited
    <3>. QED  BY <1>t, <1>h, <3>1 DEF LinkT
  <2>1. CASE Redirect
    <3>1. CASE Fail("url")
      <4>1. CallT' /\ Limits'
        BY <3>1, FailTyped DEF Errors
      <4>. QED  BY <1>s, <1>t, <2>1, <2>e, <4>1 DEF Redirect, ClosedByFollowing, FlagsT, LinkT
    <3>2. CASE call' = [call EXCEPT !.pc = "write", !.current = @ + 1]
      <4>1. call.current \in 0 .. MaxRedirects
        BY <1>t, <2>1 DEF Redirect, Limits, CallT
      <4>2. CallT' /\ call'.pc = "write" /\ call'.err = call.err
        <5>1. call.current + 1 \in 0 .. (MaxRedirects + 1)
          BY <4>1
        <5>2. call' = [call EXCEPT !.pc = "write", !.current = call.current + 1]
          BY <3>2
        <5>. QED  BY <1>t, <5>1, <5>2 DEF CallT
      <4>3. Limits'
        BY <1>t, <2>1, <4>2 DEF Limits, Redirect, ClosedByFollowing
      <4>. QED  BY <1>s, <1>t, <2>1, <2>e, <4>2, <4>3 DEF Redirect, ClosedByFollowing, FlagsT, LinkT
    <3>. QED  BY <2>1, <3>1, <3>2 DEF Redirect
  <2>2. CASE BodyRead
    <3>1. CallT' /\ Limits'
      BY <2>2, GotoTyped DEF BodyRead
    <3>. QED  BY <1>s, <1>t, <2>2, <2>e, <3>1 DEF BodyRead, FlagsT, LinkT
  <2>3. CASE BodyPiece
    BY <1>s, <1>t, <2>3, <2>e DEF BodyPiece, FlagsT, LinkT, CallT, Limits
  <2>4. CASE BodyError
    <3>1. CallT' /\ Limits'
      BY <2>4, FailTyped DEF BodyError, Errors
    <3>. QED  BY <1>s, <1>t, <2>4, <2>e, <3>1 DEF BodyError, FlagsT, LinkT
  <2>. QED  BY <1>4, <2>1, <2>2, <2>3, <2>4 DEF Body
<1>5. CASE LeaveBody
  <2>1. CallT' /\ Limits'
    BY <1>5, GotoTyped DEF LeaveBody
  <2>. QED  BY <1>s, <1>t, <1>5, <2>1 DEF LeaveBody, link, FlagsT, LinkT
<1>6. CASE CloseBody
  <2>1. CallT' /\ Limits'
    BY <1>6, GotoTyped DEF CloseBody
  <2>. QED  BY <1>s, <1>t, <1>6, <2>1 DEF CloseBody, link, FlagsT, LinkT
<1>7. CASE Network
  <2>1. CASE Answer
    <3>1. Head(wire) \in Writes /\ Tail(wire) \in Seq(Writes)
      BY <1>t, <2>1, TailType DEF Answer, LinkT
    <3>2. PICK kind \in Responses : out' = Stream(Head(wire), kind)
      BY <2>1 DEF Answer
    <3>3. out' \in Seq(Piece)
      BY <3>1, <3>2, StreamType
    <3>. QED  BY <1>s, <1>t, <2>1, <3>1, <3>3 DEF Answer, FlagsT, LinkT, CallT, Limits
  <2>2. CASE Deliver
    <3>1. Head(out) \in Piece /\ Tail(out) \in Seq(Piece)
      BY <1>t, <2>2, TailType DEF Deliver, LinkT
    <3>2. Append(input, Head(out)) \in Seq(Piece)
      BY <1>t, <3>1 DEF LinkT
    <3>. QED  BY <1>s, <1>t, <2>2, <3>1, <3>2 DEF Deliver, FlagsT, LinkT, CallT, Limits
  <2>3. CASE ServerCloses
    <3>1. wire' \in Seq(Writes) /\ out' \in Seq(Piece)
      BY <2>3, EmptySeq DEF ServerCloses
    <3>. QED  BY <1>s, <1>t, <2>3, <3>1 DEF ServerCloses, FlagsT, LinkT, CallT, Limits
  <2>4. CASE Expire
    BY <1>s, <1>t, <2>4 DEF Expire, link, FlagsT, LinkT, CallT, Limits
  <2>. QED  BY <1>7, <2>1, <2>2, <2>3, <2>4 DEF Network
<1>8. CASE UNCHANGED vars
  BY <1>s, <1>t, <1>8 DEF vars, link, FlagsT, LinkT, CallT, Limits
<1>. QED  BY <1>1, <1>2, <1>3, <1>4, <1>5, <1>6, <1>7, <1>8 DEF Next

LEMMA TypedAlways == Spec => []Typed
  BY InitTyped, NextTyped, PTL DEF Spec

\* The connection and its call stay in the states that TypeOK lists, with any
\* kinds of response: no more redirects are followed than MaxRedirects allows, and
\* nothing is written but the requests of the caller.
THEOREM TypeCorrect == Spec => []TypeOK
<1>1. Typed => TypeOK
  BY DEF Typed
<1>. QED  BY <1>1, TypedAlways, PTL

-------------------------------------------------------------------------------
(* What is left to read.                                                   *)

\* t is s without its first element; t is the beginning of s.
WithoutFirst(s, t) == /\ Len(s) \in Nat \ {0} /\ Len(t) = Len(s) - 1
                      /\ \A i \in 1 .. Len(t) : t[i] = s[i + 1]
BeginningOf(s, t)  == /\ Len(s) \in Nat /\ Len(t) \in 0 .. Len(s)
                      /\ \A i \in 1 .. Len(t) : t[i] = s[i]

LEMMA AppendMoves ==
  ASSUME NEW S, NEW a \in Seq(S), NEW b \in Seq(S), b # <<>>
  PROVE  Append(a, Head(b)) \o Tail(b) = a \o b
<1>1. /\ Head(b) \in S /\ Tail(b) \in Seq(S) /\ Len(b) \in Nat \ {0} /\ Len(a) \in Nat
      /\ Len(Tail(b)) = Len(b) - 1 /\ Head(b) = b[1]
      /\ \A i \in 1 .. Len(b) - 1 : Tail(b)[i] = b[i + 1]
  OBVIOUS
<1>2. /\ Append(a, Head(b)) \in Seq(S) /\ Len(Append(a, Head(b))) = Len(a) + 1
      /\ \A i \in 1 .. Len(a) + 1 :
           Append(a, Head(b))[i] = IF i <= Len(a) THEN a[i] ELSE b[1]
  BY <1>1
<1>3. /\ a \o b \in Seq(S) /\ Len(a \o b) = Len(a) + Len(b)
      /\ \A i \in 1 .. Len(a) + Len(b) :
           (a \o b)[i] = IF i <= Len(a) THEN a[i] ELSE b[i - Len(a)]
  BY ConcatProperties
<1>4. /\ Append(a, Head(b)) \o Tail(b) \in Seq(S)
      /\ Len(Append(a, Head(b)) \o Tail(b)) = Len(a) + Len(b)
      /\ \A i \in 1 .. Len(a) + Len(b) :
           (Append(a, Head(b)) \o Tail(b))[i]
             = IF i <= Len(a) + 1 THEN Append(a, Head(b))[i]
                                  ELSE Tail(b)[i - (Len(a) + 1)]
  <2>1. Len(Append(a, Head(b))) + Len(Tail(b)) = Len(a) + Len(b)
    BY <1>1, <1>2
  <2>. QED  BY <1>1, <1>2, <2>1, ConcatProperties
<1>5. ASSUME NEW i \in 1 .. Len(a) + Len(b)
      PROVE  (Append(a, Head(b)) \o Tail(b))[i] = (a \o b)[i]
  <2>1. CASE i <= Len(a) + 1
    BY <1>1, <1>2, <1>3, <1>4, <2>1
  <2>2. CASE ~(i <= Len(a) + 1)
    <3>1. i - (Len(a) + 1) \in 1 .. Len(b) - 1 /\ i - (Len(a) + 1) + 1 = i - Len(a)
      BY <1>1, <2>2
    <3>2. Tail(b)[i - (Len(a) + 1)] = b[i - Len(a)]
      BY <1>1, <3>1
    <3>. QED  BY <1>1, <1>3, <1>4, <2>2, <3>2
  <2>. QED  BY <2>1, <2>2
<1>. QED  BY <1>3, <1>4, <1>5, SeqEqual

LEMMA TailTakes ==
  ASSUME NEW S, NEW a \in Seq(S), NEW b \in Seq(S), a # <<>>
  PROVE  WithoutFirst(a \o b, Tail(a) \o b) /\ Head(a) = (a \o b)[1]
<1>1. /\ Tail(a) \in Seq(S) /\ Len(a) \in Nat \ {0} /\ Len(b) \in Nat
      /\ Len(Tail(a)) = Len(a) - 1 /\ Head(a) = a[1]
      /\ \A i \in 1 .. Len(a) - 1 : Tail(a)[i] = a[i + 1]
  OBVIOUS
<1>2. /\ Len(a \o b) = Len(a) + Len(b)
      /\ \A i \in 1 .. Len(a) + Len(b) :
           (a \o b)[i] = IF i <= Len(a) THEN a[i] ELSE b[i - Len(a)]
  BY ConcatProperties
<1>3. /\ Len(Tail(a) \o b) = Len(a) - 1 + Len(b)
      /\ \A i \in 1 .. Len(a) - 1 + Len(b) :
           (Tail(a) \o b)[i] = IF i <= Len(a) - 1 THEN Tail(a)[i] ELSE b[i - (Len(a) - 1)]
  BY <1>1, ConcatProperties
<1>4. ASSUME NEW i \in 1 .. Len(a) - 1 + Len(b)
      PROVE  (Tail(a) \o b)[i] = (a \o b)[i + 1]
  <2>1. i + 1 \in 1 .. Len(a) + Len(b) /\ i + 1 - Len(a) = i - (Len(a) - 1)
    BY <1>1
  <2>2. CASE i <= Len(a) - 1
    BY <1>1, <1>2, <1>3, <2>1, <2>2
  <2>3. CASE ~(i <= Len(a) - 1)
    <3>1. (a \o b)[i + 1] = b[i + 1 - Len(a)]
      BY <1>1, <1>2, <2>1, <2>3
    <3>. QED  BY <1>3, <2>1, <2>3, <3>1
  <2>. QED  BY <2>2, <2>3
<1>5. (a \o b)[1] = a[1]
  BY <1>1, <1>2
<1>. QED  BY <1>1, <1>2, <1>3, <1>4, <1>5 DEF WithoutFirst

LEMMA CleanKept ==
  /\ \A s, t : Clean(s) /\ WithoutFirst(s, t) => Clean(t)
  /\ \A s, t : Clean(s) /\ BeginningOf(s, t) => Clean(t)
<1>1. ASSUME NEW s, NEW t, Clean(s), WithoutFirst(s, t) PROVE Clean(t)
  BY <1>1 DEF Clean, WithoutFirst
<1>2. ASSUME NEW s, NEW t, Clean(s), BeginningOf(s, t) PROVE Clean(t)
  BY <1>2 DEF Clean, BeginningOf
<1>. QED  BY <1>1, <1>2

LEMMA RemainderKept ==
  /\ \A s, t, r : Remainder(s, 1, r) /\ WithoutFirst(s, t) => Remainder(t, 0, r)
  /\ \A s, t, r : \A i \in Nat :
       Remainder(s, i, r) /\ BeginningOf(s, t) => Remainder(t, i, r)
<1>1. ASSUME NEW s, NEW t, NEW r, Remainder(s, 1, r), WithoutFirst(s, t)
      PROVE  Remainder(t, 0, r)
  <2>. SUFFICES ASSUME NEW j \in 0 + 1 .. Len(t)
                PROVE  /\ t[j].req = r.req
                       /\ j = 0 + 1 => t[j].part = "body"
                       /\ j # 0 + 1 => t[j].part \in {"cr", "lf"} /\ r.kind = "chunked"
                       /\ r.kind \notin {"empty", "bare"}
    BY DEF Remainder
  <2>1. j + 1 \in 1 + 1 .. Len(s) /\ t[j] = s[j + 1] /\ (j = 1 <=> j + 1 = 1 + 1)
    BY <1>1 DEF WithoutFirst
  <2>. QED  BY <1>1, <2>1 DEF Remainder
<1>2. ASSUME NEW s, NEW t, NEW r, NEW i \in Nat, Remainder(s, i, r), BeginningOf(s, t)
      PROVE  Remainder(t, i, r)
  BY <1>2 DEF Remainder, BeginningOf
<1>. QED  BY <1>1, <1>2

\* The rest of a response that is not chunked is at most its body, and the rest
\* of one that is chunked is clean behind the body.
LEMMA RemainderEnds ==
  ASSUME NEW s \in Seq(Piece), NEW r, Remainder(s, 0, r)
  PROVE  /\ r.kind \in {"empty", "bare"} => Len(s) = 0
         /\ \A t : WithoutFirst(s, t) => Clean(t)
         /\ \A t : WithoutFirst(s, t) /\ r.kind # "chunked" => Len(t) = 0
         /\ Len(s) # 0 => s[1].req = r.req /\ s[1].part = "body"
<1>1. Len(s) \in Nat
  OBVIOUS
<1>2. r.kind \in {"empty", "bare"} => Len(s) = 0
  BY <1>1 DEF Remainder
<1>3. ASSUME NEW t, WithoutFirst(s, t) PROVE Clean(t)
  <2>. SUFFICES ASSUME NEW i \in 1 .. Len(t) PROVE t[i].part \in {"cr", "lf"}
    BY DEF Clean
  <2>1. i + 1 \in 0 + 1 .. Len(s) /\ i + 1 # 0 + 1 /\ t[i] = s[i + 1]
    BY <1>3 DEF WithoutFirst
  <2>. QED  BY <2>1 DEF Remainder
<1>4. ASSUME NEW t, WithoutFirst(s, t), r.kind # "chunked" PROVE Len(t) = 0
  <2>1. SUFFICES ASSUME Len(t) # 0 PROVE FALSE
    OBVIOUS
  <2>2. 2 \in 0 + 1 .. Len(s) /\ 2 # 0 + 1
    BY <1>1, <1>4, <2>1 DEF WithoutFirst
  <2>. QED  BY <1>4, <2>2 DEF Remainder
<1>5. Len(s) # 0 => s[1].req = r.req /\ s[1].part = "body"
  BY <1>1 DEF Remainder
<1>. QED  BY <1>2, <1>3, <1>4, <1>5

LEMMA LeftType ==
  ASSUME LinkT
  PROVE  /\ Left \in Seq(Piece) /\ Len(Left) = Len(input) + Len(out)
         /\ Len(input) \in Nat /\ Len(out) \in Nat
         /\ \A i \in 1 .. Len(input) + Len(out) :
              Left[i] = IF i <= Len(input) THEN input[i] ELSE out[i - Len(input)]
  BY ConcatProperties DEF LinkT, Left

LEMMA LeftRead ==
  ASSUME LinkT, input # <<>>
  PROVE  /\ Len(Left) # 0 /\ Head(input) = Left[1] /\ 1 \in 1 .. Len(Left)
         /\ input' = Tail(input) /\ out' = out => WithoutFirst(Left, Left')
<1>1. input \in Seq(Piece) /\ out \in Seq(Piece)
  BY DEF LinkT
<1>2. WithoutFirst(Left, Tail(input) \o out) /\ Head(input) = Left[1]
  BY <1>1, TailTakes DEF Left
<1>3. input' = Tail(input) /\ out' = out => Left' = Tail(input) \o out
  BY DEF Left
<1>4. Len(Left) # 0 /\ 1 \in 1 .. Len(Left)
  BY <1>2 DEF WithoutFirst
<1>. QED  BY <1>2, <1>3, <1>4

LEMMA LeftEmpty ==
  ASSUME LinkT, input = <<>>, out = <<>>
  PROVE  Len(Left) = 0
<1>1. Len(<<>>) = 0
  BY EmptySeq
<1>. QED  BY <1>1, LeftType

-------------------------------------------------------------------------------
(* The response to the request.                                            *)

LEMMA InitMatched == Init => Matched
<1>. SUFFICES ASSUME Init PROVE Matched
  OBVIOUS
<1>1. input = <<>> /\ out = <<>> /\ wire = <<>> /\ call.pc = "idle" /\ call.err = "none"
      /\ ~closed /\ ~eof
  BY DEF Init
<1>2. LinkT
  BY InitTyped, TypeParts DEF Typed
<1>3. Len(Left) = 0
  BY <1>1, <1>2, LeftEmpty
<1>. QED  BY <1>1, <1>3 DEF Matched, Ending, ClosedAfter, Asked, Between, Clean, Coming,
                           Reading, InUse

\* A call that fails leaves nothing to relate.
LEMMA FailMatched ==
  ASSUME Typed, Matched, NEW e \in Errors \ {"none"}, Fail(e), Ending'
  PROVE  Matched'
<1>1. call' = [call EXCEPT !.pc = "idle", !.err = e] /\ CallT
  BY TypeParts DEF Fail, Typed
<1>2. call'.pc = "idle" /\ call'.err # "none"
  BY <1>1 DEF CallT
<1>. QED  BY <1>2 DEF Matched, ClosedAfter, Asked, Between, Coming, Reading, InUse

LEMMA EndingKept == Ending /\ UNCHANGED <<wire, out, eof>> => Ending'
  BY DEF Ending

\* What a call that got its response finds.
LEMMA AnsweredClean ==
  ASSUME Typed, Matched, call.pc \in {"head", "drain", "answered"}
  PROVE  call.err = "none" /\ ~closed /\ wire = <<>>
  BY DEF Typed, Limits, Matched, ClosedAfter, Asked, InUse

LEMMA RequestMatched ==
  ASSUME Typed, Matched,
         Refuse \/ Written \/ WriteFails \/ (\E kind \in Requests : Do(kind))
  PROVE  Matched'
<1>t. LinkT /\ CallT /\ FlagsT
  BY TypeParts DEF Typed
<1>1. ASSUME NEW kind \in Requests, Do(kind) PROVE Matched'
  <2>1. PICK force \in BOOLEAN, follow \in BOOLEAN :
          call' = [call EXCEPT !.pc = "write", !.kind = kind, !.force = force,
                               !.follow = follow, !.current = 0, !.err = "none"]
    BY <1>1 DEF Do
  <2>2. call'.pc = "write" /\ call'.err = "none"
    BY <1>t, <2>1 DEF CallT
  <2>3. call.pc = "idle" /\ call.err = "none"
        /\ UNCHANGED <<wire, out, input, eof, closed>>
    BY <1>1 DEF Do, link
  <2>4. Left' = Left
    BY <2>3 DEF Left
  <2>5. Ending' /\ ClosedAfter' /\ Coming' /\ Reading'
    BY <2>2, <2>3, EndingKept DEF Matched, ClosedAfter, Coming, Reading
  <2>6. Asked' /\ Between'
    BY <2>2, <2>3, <2>4 DEF Matched, Asked, Between, InUse
  <2>. QED  BY <2>5, <2>6 DEF Matched
<1>2. CASE Refuse
  <2>1. Ending'
    BY <1>2, EndingKept DEF Refuse, link, Matched
  <2>. QED  BY <1>2, <2>1, FailMatched DEF Refuse, Errors
<1>3. CASE WriteFails
  <2>1. Ending'
    BY <1>3, EndingKept DEF WriteFails, link, Matched
  <2>. QED  BY <1>3, <2>1, FailMatched DEF WriteFails, Errors
<1>4. CASE Written
  <2>1. call' = [call EXCEPT !.pc = "read", !.req = sent + 1] /\ call.pc = "write" /\ ~closed
        /\ UNCHANGED <<out, input, eof, closed>>
        /\ wire' = IF eof THEN wire ELSE wire \o <<sent + 1>>
    BY <1>4 DEF Written, RequestsWritten
  <2>2. sent + 1 \in Writes
    BY <1>t, <2>1 DEF Typed, Limits, FlagsT, Writes
  <2>3. call'.pc = "read" /\ call'.req = sent + 1 /\ call'.err = call.err
    BY <1>t, <2>1, <2>2 DEF CallT
  <2>4. InUse /\ wire = <<>> /\ Clean(Left)
    BY <2>1 DEF Typed, Limits, InUse, Matched, Asked, Between
  <2>5. wire' = IF eof THEN <<>> ELSE <<sent + 1>>
    <3>1. <<sent + 1>> \in Seq(Writes)
      BY <2>2
    <3>2. <<>> \o <<sent + 1>> = <<sent + 1>>
      BY <3>1, ConcatEmptySeq
    <3>. QED  BY <2>1, <2>4, <3>2
  <2>6. Left' = Left /\ ~closed'
    BY <2>1 DEF Left
  <2>7. Ending' /\ ClosedAfter' /\ Reading'
    BY <2>1, <2>3, <2>5, <2>6 DEF Matched, Ending, ClosedAfter, Reading
  <2>8. Asked' /\ Between'
    BY <2>3, <2>4, <2>5, <2>6 DEF Asked, Between
  <2>9. Coming'
    BY <2>4, <2>6 DEF Coming, Clean
  <2>. QED  BY <2>7, <2>8, <2>9 DEF Matched
<1>. QED  BY <1>1, <1>2, <1>3, <1>4

LEMMA ResponseMatched ==
  ASSUME Typed, Matched, Response
  PROVE  Matched'
<1>t. LinkT /\ CallT
  BY TypeParts DEF Typed
<1>1. CASE ReadFails
  <2>1. Ending'
    BY <1>1, EndingKept DEF ReadFails, link, Matched
  <2>. QED  BY <1>1, <2>1, FailMatched DEF ReadFails, Errors
<1>2. CASE NoStatus
  <2>1. Ending'
    BY <1>2, EndingKept DEF NoStatus, Matched
  <2>. QED  BY <1>2, <2>1, FailMatched DEF NoStatus, Errors
<1>3. CASE BadGzip
  <2>1. Ending'
    BY <1>3, EndingKept DEF BadGzip, Matched
  <2>. QED  BY <1>3, <2>1, FailMatched DEF BadGzip, Errors
<1>4. CASE Decide
  <2>1. PICK pc \in {"drain", "answered"} : call' = [call EXCEPT !.pc = pc]
    BY <1>4 DEF Decide, Goto
  <2>2. call'.pc = pc /\ call'.err = call.err /\ call'.req = call.req /\ call'.resp = call.resp
    BY <1>t, <2>1 DEF CallT
  <2>3. call.pc = "head" /\ UNCHANGED <<wire, out, input, eof, closed>>
    BY <1>4 DEF Decide, link
  <2>4. Left' = Left /\ wire = <<>> /\ ~closed
    BY <2>3, AnsweredClean DEF Left
  <2>5. Ending' /\ ClosedAfter' /\ Asked' /\ Between' /\ Coming'
    BY <2>1, <2>2, <2>3, <2>4, EndingKept
       DEF Matched, ClosedAfter, Asked, Between, Coming
  <2>6. Reading'
    BY <2>2, <2>3, <2>4 DEF Matched, Reading
  <2>. QED  BY <2>5, <2>6 DEF Matched
<1>5. CASE ReadHead
  <2>1. /\ call.pc = "read" /\ input # <<>> /\ Head(input).part = "head"
        /\ input' = Tail(input) /\ UNCHANGED <<wire, out, eof, closed>>
    BY <1>5 DEF ReadHead
  <2>2. Ending'
    BY <2>1, EndingKept DEF Matched
  <2>3. CASE Head(input).kind = "malformed"
    BY <1>5, <2>2, <2>3, FailMatched DEF ReadHead, Errors
  <2>4. CASE Head(input).kind # "malformed"
    <3>1. call' = [call EXCEPT !.pc = "head", !.resp = Head(input)]
      BY <1>5, <2>4 DEF ReadHead
    <3>2. call'.pc = "head" /\ call'.resp = Head(input) /\ call'.req = call.req
          /\ call'.err = call.err
      BY <1>t, <3>1 DEF CallT
    <3>3. call.err = "none" /\ ~closed
      BY <2>1 DEF Typed, Limits, Matched, ClosedAfter
    <3>4. Head(input) = Left[1] /\ 1 \in 1 .. Len(Left) /\ WithoutFirst(Left, Left')
      BY <1>t, <2>1, LeftRead
    <3>5. Begins(Left, 1)
      BY <2>1, <3>3, <3>4 DEF Matched, Coming
    <3>6. wire = <<>>
      BY <2>1, <3>3, <3>4 DEF Matched, Between, InUse, Clean
    <3>7. Remainder(Left', 0, Head(input))
      BY <2>4, <3>4, <3>5, RemainderKept DEF Begins
    <3>8. Reading'
      BY <3>2, <3>4, <3>5, <3>7 DEF Reading, Begins
    <3>9. ClosedAfter' /\ Asked' /\ Between' /\ Coming'
      BY <2>1, <3>2, <3>3, <3>6 DEF ClosedAfter, Asked, Between, Coming
    <3>. QED  BY <2>2, <3>8, <3>9 DEF Matched
  <2>. QED  BY <2>3, <2>4
<1>. QED  BY <1>1, <1>2, <1>3, <1>4, <1>5 DEF Response

\* Whoever has read a body to its end leaves the connection clean.
LEMMA BodyEndsClean ==
  ASSUME Typed, Matched, call.pc \in {"drain", "answered"}, BodyEnds, UNCHANGED out
  PROVE  Clean(Left')
<1>t. LinkT /\ Left \in Seq(Piece)
  BY TypeParts, LeftType DEF Typed
<1>1. call.err = "none" /\ ~closed /\ Remainder(Left, 0, call.resp)
  BY AnsweredClean DEF Matched, Reading
<1>2. CASE Ended /\ input' = input
  <2>1. input = <<>> /\ out = <<>>
    BY <1>1, <1>2 DEF Ended, Matched, Ending
  <2>2. Len(Left) = 0 /\ Left' = Left
    BY <1>t, <1>2, <2>1, LeftEmpty DEF Left
  <2>. QED  BY <2>2 DEF Clean
<1>3. CASE input # <<>> /\ input' = Tail(input)
  BY <1>t, <1>1, <1>3, LeftRead, RemainderEnds
<1>4. CASE call.resp.kind = "empty" /\ input' = input
  <2>1. Left' = Left /\ Len(Left) = 0
    BY <1>t, <1>1, <1>4, RemainderEnds DEF Left
  <2>. QED  BY <2>1 DEF Clean
<1>. QED  BY <1>2, <1>3, <1>4 DEF BodyEnds, Limited

LEMMA BodyMatched ==
  ASSUME Typed, Matched, Body \/ LeaveBody \/ CloseBody
  PROVE  Matched'
<1>t. LinkT /\ CallT /\ Left \in Seq(Piece)
  BY TypeParts, LeftType DEF Typed
<1>1. /\ call.pc \in {"drain", "answered"} /\ call.err = "none" /\ ~closed /\ wire = <<>>
      /\ Remainder(Left, 0, call.resp) /\ call.resp.kind # "interim"
      /\ UNCHANGED <<wire, out, eof>>
  <2>1. call.pc \in {"drain", "answered"} /\ UNCHANGED <<wire, out, eof>>
    BY DEF Body, Redirect, BodyRead, BodyPiece, BodyError, LeaveBody, CloseBody, link
  <2>. QED  BY <2>1, AnsweredClean DEF Matched, Reading
<1>2. Ending'
  BY <1>1, EndingKept DEF Matched
<1>3. CASE Redirect
  <2>1. CASE Fail("url")
    BY <1>2, <2>1, FailMatched DEF Errors
  <2>2. CASE call' = [call EXCEPT !.pc = "write", !.current = @ + 1]
    <3>1. call'.pc = "write" /\ closed'
      BY <1>t, <1>3, <2>2 DEF CallT, Redirect, ClosedByFollowing
    <3>. QED  BY <1>2, <3>1 DEF Matched, ClosedAfter, Asked, Between, Coming, Reading, InUse
  <2>. QED  BY <1>3, <2>1, <2>2 DEF Redirect
<1>4. ASSUME Goto("idle"), closed' \/ Clean(Left') PROVE Matched'
  <2>1. call' = [call EXCEPT !.pc = "idle"]
    BY <1>4 DEF Goto
  <2>2. call'.pc = "idle"
    BY <1>t, <2>1 DEF CallT
  <2>3. ClosedAfter' /\ Asked' /\ Between' /\ Coming' /\ Reading'
    BY <1>1, <1>4, <2>2 DEF ClosedAfter, Asked, Between, Coming, Reading, InUse
  <2>. QED  BY <1>2, <2>3 DEF Matched
<1>5. CASE BodyRead
  <2>1. Clean(Left')
    BY <1>1, <1>5, BodyEndsClean DEF BodyRead
  <2>. QED  BY <1>4, <1>5, <2>1 DEF BodyRead
<1>6. CASE BodyPiece
  <2>1. input # <<>> /\ input' = Tail(input) /\ UNCHANGED <<closed, call>>
    BY <1>6 DEF BodyPiece, BodyGoesOn
  <2>2. call.resp.kind # "chunked"
    BY <1>6 DEF BodyPiece, BodyGoesOn, Framing
  <2>3. Len(Left') = 0
    BY <1>t, <1>1, <2>1, <2>2, LeftRead, RemainderEnds
  <2>4. Remainder(Left', 0, call.resp)
    BY <2>3 DEF Remainder
  <2>5. Reading'
    BY <2>1, <2>4 DEF Matched, Reading
  <2>6. ClosedAfter' /\ Asked' /\ Between' /\ Coming'
    BY <1>1, <2>1 DEF Matched, ClosedAfter, Asked, Between, Coming
  <2>. QED  BY <1>2, <2>5, <2>6 DEF Matched
<1>7. CASE BodyError
  BY <1>2, <1>7, FailMatched DEF BodyError, Errors
<1>8. CASE LeaveBody
  <2>1. call.resp.kind \in {"empty", "bare"} /\ Left' = Left
    BY <1>1, <1>8 DEF LeaveBody, link, Left
  <2>2. Len(Left) = 0
    BY <1>t, <1>1, <2>1, RemainderEnds
  <2>3. Clean(Left')
    BY <2>1, <2>2 DEF Clean
  <2>. QED  BY <1>4, <1>8, <2>3 DEF LeaveBody
<1>9. CASE CloseBody
  BY <1>4, <1>9 DEF CloseBody
<1>. QED  BY <1>3, <1>5, <1>6, <1>7, <1>8, <1>9 DEF Body

LEMMA PartsBody ==
  ASSUME NEW kind \in ResponseKinds \ {"malformed"}
  PROVE  \A i \in 2 .. Len(Parts(kind)) :
           /\ i = 2 => Parts(kind)[i] = "body"
           /\ i # 2 => Parts(kind)[i] \in {"cr", "lf"} /\ kind = "chunked"
           /\ kind \notin {"empty", "bare"}
<1>1. CASE kind \in {"length", "redirect", "close", "badgzip"}
  <2>1. Parts(kind) = <<"head", "body">>
    BY <1>1 DEF Parts
  <2>. QED  BY <1>1, <2>1
<1>2. CASE kind = "chunked"
  <2>1. Parts(kind) = <<"head", "body", "cr", "lf">>
    BY <1>2 DEF Parts
  <2>. QED  BY <1>2, <2>1
<1>3. CASE kind \in {"empty", "bare", "interim"}
  <2>1. Parts(kind) = <<"head">>
    BY <1>3 DEF Parts
  <2>. QED  BY <2>1
<1>. QED  BY <1>1, <1>2, <1>3 DEF ResponseKinds

\* The response to the request req begins where the clean part ends.
IsStream(b, req, kind) ==
  /\ b \in Seq(Piece) /\ Len(b) = Len(Parts(kind)) /\ Len(b) \in 1 .. 4
  /\ \A k \in 1 .. Len(b) : /\ b[k].req = req /\ b[k].kind = kind
                            /\ b[k].part = Parts(kind)[k]

LEMMA StreamParts ==
  ASSUME NEW req \in Writes, NEW kind \in ResponseKinds \ {"interim"}
  PROVE  IsStream(Stream(req, kind), req, kind)
<1>1. Stream(req, kind) = Pieces(req, kind)
  BY DEF Stream
<1>2. Len(Parts(kind)) \in 1 .. 4
  BY PartsType
<1>3. /\ Pieces(req, kind) \in Seq(Piece) /\ Len(Pieces(req, kind)) = Len(Parts(kind))
      /\ \A k \in 1 .. Len(Parts(kind)) :
           /\ Pieces(req, kind)[k].req = req /\ Pieces(req, kind)[k].kind = kind
           /\ Pieces(req, kind)[k].part = Parts(kind)[k]
  <2>1. kind \in ResponseKinds
    OBVIOUS
  <2>2. ASSUME NEW k \in 1 .. Len(Parts(kind))
        PROVE  Pieces(req, kind)[k] = [req |-> req, kind |-> kind, part |-> Parts(kind)[k]]
    BY <2>1, PiecesType
  <2>3. ASSUME NEW k \in 1 .. Len(Parts(kind))
        PROVE  /\ Pieces(req, kind)[k].req = req /\ Pieces(req, kind)[k].kind = kind
               /\ Pieces(req, kind)[k].part = Parts(kind)[k]
    <3>1. Pieces(req, kind)[k] = [req |-> req, kind |-> kind, part |-> Parts(kind)[k]]
      BY <2>2
    <3>. QED  BY <3>1
  <2>4. Pieces(req, kind) \in Seq(Piece) /\ Len(Pieces(req, kind)) = Len(Parts(kind))
    BY <2>1, PiecesType
  <2>. QED  BY <2>3, <2>4
<1>. QED  BY <1>1, <1>2, <1>3 DEF IsStream

LEMMA StreamBegins ==
  ASSUME NEW a \in Seq(Piece), Clean(a), NEW kind \in ResponseKinds \ {"interim"},
         NEW b \in Seq(Piece), IsStream(b, call.req, kind),
         NEW i \in 1 .. Len(a \o b), (a \o b)[i].part = "head"
  PROVE  Begins(a \o b, i)
<1>. DEFINE s == a \o b
<1>1. b \in Seq(Piece) /\ Len(b) = Len(Parts(kind)) /\ Len(b) \in 1 .. 4
  BY DEF IsStream
<1>2. \A k \in 1 .. Len(b) : /\ b[k].req = call.req /\ b[k].kind = kind
                             /\ b[k].part = Parts(kind)[k]
  BY DEF IsStream
<1>3. /\ Len(s) = Len(a) + Len(b) /\ Len(a) \in Nat
      /\ \A j \in 1 .. Len(a) + Len(b) : s[j] = IF j <= Len(a) THEN a[j] ELSE b[j - Len(a)]
  BY ConcatProperties
<1>. HIDE DEF s
<1>4. s[i].part = "head" /\ i \in 1 .. Len(s)
  BY DEF s
<1>5. i = Len(a) + 1
  <2>1. ~(i <= Len(a))
    BY <1>3, <1>4 DEF Clean
  <2>2. i - Len(a) \in 1 .. Len(b) /\ s[i] = b[i - Len(a)]
    BY <1>1, <1>3, <1>4, <2>1
  <2>3. Parts(kind)[i - Len(a)] = "head"
    BY <1>2, <1>4, <2>2
  <2>4. i - Len(a) = 1
    BY <1>1, <2>2, <2>3, PartsType
  <2>. QED  BY <1>3, <2>4
<1>6. s[i] = b[1] /\ b[1].req = call.req /\ b[1].kind = kind
  BY <1>1, <1>2, <1>3, <1>5
<1>7. ASSUME kind # "malformed" PROVE Remainder(s, i, b[1])
  <2>. SUFFICES ASSUME NEW j \in i + 1 .. Len(s)
                PROVE  /\ s[j].req = b[1].req
                       /\ j = i + 1 => s[j].part = "body"
                       /\ j # i + 1 => s[j].part \in {"cr", "lf"} /\ b[1].kind = "chunked"
                       /\ b[1].kind \notin {"empty", "bare"}
    BY DEF Remainder
  <2>1. /\ j - Len(a) \in 2 .. Len(b) /\ s[j] = b[j - Len(a)]
        /\ j = i + 1 <=> j - Len(a) = 2
    BY <1>1, <1>3, <1>5
  <2>2. s[j].req = call.req /\ s[j].part = Parts(kind)[j - Len(a)]
    BY <1>1, <1>2, <2>1
  <2>3. j - Len(a) \in 2 .. Len(Parts(kind))
    BY <1>1, <2>1
  <2>. QED  BY <1>6, <1>7, <2>1, <2>2, <2>3, PartsBody
<1>8. Begins(s, i)
  BY <1>6, <1>7 DEF Begins
<1>. QED  BY <1>8 DEF s

LEMMA NetworkMatched ==
  ASSUME "interim" \notin Responses, Typed, Matched, Network
  PROVE  Matched'
<1>t. LinkT /\ CallT /\ Left \in Seq(Piece)
  BY TypeParts, LeftType DEF Typed
<1>k. UNCHANGED <<closed, call>>
  BY DEF Network, Answer, Deliver, ServerCloses, Expire
<1>c. ClosedAfter'
  BY <1>k DEF Matched, ClosedAfter
<1>1. CASE Answer
  <2>1. wire # <<>> /\ out = <<>> /\ ~eof /\ wire' = Tail(wire) /\ UNCHANGED <<input, eof>>
    BY <1>1 DEF Answer
  <2>2. PICK kind \in Responses : out' = Stream(Head(wire), kind)
    BY <1>1 DEF Answer
  <2>3. Ending'
    BY <2>1 DEF Ending
  <2>4. CASE ~InUse
    <3>1. Asked' /\ Between' /\ Coming' /\ Reading'
      BY <1>k, <2>4, AnsweredClean DEF Asked, Between, Coming, Reading, InUse, Matched, ClosedAfter
    <3>. QED  BY <1>c, <2>3, <3>1 DEF Matched
  <2>5. CASE InUse
    <3>1. call.pc = "read" /\ wire = <<call.req>> /\ Clean(Left) /\ call.req \in Writes
      BY <1>t, <2>1, <2>5 DEF Matched, Asked, Between, CallT
    <3>2. Head(wire) = call.req /\ wire' = <<>>
      BY <2>1, <3>1
    <3>3. Left = input
      BY <1>t, <2>1, ConcatEmptySeq DEF LinkT, Left
    <3>4. Left' = input \o Stream(call.req, kind)
      BY <2>1, <2>2, <3>2 DEF Left
    <3>5. kind \in ResponseKinds \ {"interim"} /\ input \in Seq(Piece) /\ Clean(input)
      BY <1>t, <3>1, <3>3 DEF LinkT
    <3>6. ASSUME NEW i \in 1 .. Len(Left'), Left'[i].part = "head"
          PROVE  Begins(Left', i)
      <4>1. /\ IsStream(Stream(call.req, kind), call.req, kind)
            /\ Stream(call.req, kind) \in Seq(Piece)
        BY <3>1, <3>5, StreamParts DEF IsStream
      <4>. QED  BY <3>4, <3>5, <3>6, <4>1, StreamBegins
    <3>7. Coming'
      BY <1>k, <3>6 DEF Coming, Begins
    <3>8. Asked' /\ Between' /\ Reading'
      BY <1>k, <3>1, <3>2 DEF Asked, Between, Reading
    <3>. QED  BY <1>c, <2>3, <3>7, <3>8 DEF Matched
  <2>. QED  BY <2>4, <2>5
<1>2. CASE Deliver
  <2>1. /\ out # <<>> /\ input' = Append(input, Head(out)) /\ out' = Tail(out)
        /\ UNCHANGED <<wire, eof>>
    BY <1>2 DEF Deliver
  <2>2. Left' = Left
    BY <1>t, <2>1, AppendMoves DEF LinkT, Left
  <2>3. Ending' /\ Asked' /\ Between' /\ Reading'
    BY <1>k, <2>1, <2>2 DEF Matched, Ending, Asked, Between, Reading, InUse
  <2>4. Coming'
    BY <1>k, <2>2 DEF Matched, Coming, Begins
  <2>. QED  BY <1>c, <2>3, <2>4 DEF Matched
<1>3. CASE ServerCloses
  <2>1. input' = input /\ out' = <<>> /\ wire' = <<>>
    BY <1>3 DEF ServerCloses
  <2>2. Left' = input
    BY <1>t, <2>1, ConcatEmptySeq DEF LinkT, Left
  <2>3. BeginningOf(Left, Left')
    BY <1>t, <2>2, LeftType DEF BeginningOf
  <2>4. Ending' /\ Asked'
    BY <2>1 DEF Ending, Asked
  <2>5. Between'
    BY <1>k, <2>1, <2>3, CleanKept DEF Matched, Between, InUse
  <2>6. Reading'
    BY <1>k, <2>3, RemainderKept DEF Matched, Reading
  <2>7. ASSUME NEW i \in 1 .. Len(Left'), Left'[i].part = "head",
               call.err = "none", call.pc = "read"
        PROVE  Begins(Left', i)
    <3>1. i \in 1 .. Len(Left) /\ Left'[i] = Left[i] /\ i \in Nat
      BY <2>3 DEF BeginningOf
    <3>2. Begins(Left, i)
      BY <2>7, <3>1 DEF Matched, Coming
    <3>3. Remainder(Left, i, Left[i]) => Remainder(Left', i, Left[i])
      BY <2>3, <3>1, RemainderKept
    <3>. QED  BY <3>1, <3>2, <3>3 DEF Begins
  <2>8. Coming'
    BY <1>k, <2>7 DEF Coming, Begins
  <2>. QED  BY <1>c, <2>4, <2>5, <2>6, <2>8 DEF Matched
<1>4. CASE Expire
  BY <1>k, <1>4 DEF Expire, link, Matched, Ending, ClosedAfter, Asked, Between, Coming,
                   Reading, InUse, Begins, Left
<1>. QED  BY <1>1, <1>2, <1>3, <1>4 DEF Network

LEMMA MatchedAlways ==
  ASSUME "interim" \notin Responses
  PROVE  Spec => [](Typed /\ Matched)
<1>1. Init => Typed /\ Matched
  BY InitTyped, InitMatched
<1>2. Typed /\ Matched /\ [Next]_vars => Typed' /\ Matched'
  <2>. SUFFICES ASSUME Typed, Matched, [Next]_vars PROVE Matched'
    BY NextTyped
  <2>1. CASE UNCHANGED vars
    BY <2>1 DEF vars, link, Matched, Ending, ClosedAfter, Asked, Between, Coming,
                Reading, InUse, Begins, Left
  <2>2. CASE Next
    BY <2>2, RequestMatched, ResponseMatched, BodyMatched, NetworkMatched
       DEF Next, Request
  <2>. QED  BY <2>1, <2>2
<1>. QED  BY <1>1, <1>2, PTL DEF Spec

\* Without 1xx responses, do returns the response to the request that it wrote,
\* and follows the redirect of no other, for any number of requests on the
\* connection, whenever the server closes it and the deadline passes.
THEOREM ResponseForRequestAlways ==
  ASSUME "interim" \notin Responses
  PROVE  Spec => []ResponseForRequest
<1>1. Matched => ResponseForRequest
  BY DEF Matched, Reading, ResponseForRequest
<1>. QED  BY <1>1, MatchedAlways, PTL

\* Without 1xx responses, a call that returned and whose body was read to its
\* end, or left where it is empty, leaves only the end of a chunked body on an
\* open connection, and the server owes it nothing.
THEOREM AtStatusLineAlways ==
  ASSUME "interim" \notin Responses
  PROVE  Spec => []AtStatusLine
<1>1. Typed /\ Matched => AtStatusLine
  <2>. SUFFICES ASSUME Typed, Matched, call.pc = "idle", InUse
                PROVE  wire = <<>> /\ \A p \in ToSet(out \o input) : p.part \in {"cr", "lf"}
    BY DEF AtStatusLine, InUse
  <2>1. wire = <<>> /\ Clean(Left)
    BY DEF Matched, Asked, Between
  <2>2. LinkT
    BY TypeParts DEF Typed
  <2>3. \A i \in 1 .. Len(input) : input[i].part \in {"cr", "lf"}
    BY <2>1, <2>2, LeftType DEF Clean
  <2>4. ASSUME NEW i \in 1 .. Len(out) PROVE out[i].part \in {"cr", "lf"}
    <3>1. /\ Len(input) + i \in 1 .. Len(Left) /\ ~(Len(input) + i <= Len(input))
          /\ Len(input) + i - Len(input) = i
      BY <2>2, LeftType
    <3>2. Left[Len(input) + i] = out[i]
      BY <2>2, <3>1, LeftType
    <3>. QED  BY <2>1, <3>1, <3>2 DEF Clean
  <2>5. /\ DOMAIN (out \o input) = 1 .. Len(out) + Len(input)
        /\ \A i \in 1 .. Len(out) + Len(input) :
             (out \o input)[i] = IF i <= Len(out) THEN out[i] ELSE input[i - Len(out)]
    BY <2>2, ConcatProperties, LenProperties DEF LinkT
  <2>6. ASSUME NEW i \in 1 .. Len(out) + Len(input)
        PROVE  (out \o input)[i].part \in {"cr", "lf"}
    <3>1. CASE i <= Len(out)
      BY <2>2, <2>4, <2>5, <3>1, LeftType
    <3>2. CASE ~(i <= Len(out))
      <4>1. i - Len(out) \in 1 .. Len(input)
        BY <2>2, <3>2, LeftType
      <4>. QED  BY <2>3, <2>5, <3>2, <4>1
    <3>. QED  BY <3>1, <3>2
  <2>. QED  BY <2>1, <2>5, <2>6 DEF ToSet
<1>. QED  BY <1>1, MatchedAlways, PTL

\* Without 1xx responses, no step that reads the body of a response, be it to
\* follow a redirect or for the caller, takes a piece of another response or of
\* the framing from the connection.
THEOREM OwnBodyAlways ==
  ASSUME "interim" \notin Responses
  PROVE  Spec => OwnBody
<1>1. Typed /\ Matched => [(Body /\ input' # input) => Own(Head(input))]_vars
  <2>. SUFFICES ASSUME Typed, Matched, Body, input' # input PROVE Own(Head(input))
    OBVIOUS
  <2>1. call.pc \in {"drain", "answered"} /\ input # <<>>
    BY DEF Body, Redirect, BodyRead, BodyPiece, BodyError, BodyEnds, BodyGoesOn, BodyFails
  <2>2. LinkT /\ Left \in Seq(Piece) /\ Remainder(Left, 0, call.resp)
    BY <2>1, TypeParts, LeftType DEF Typed, Matched, Reading
  <2>3. Head(input) = Left[1] /\ Len(Left) # 0
    BY <2>1, <2>2, LeftRead
  <2>. QED  BY <2>2, <2>3, RemainderEnds DEF Own
<1>. QED  BY <1>1, MatchedAlways, PTL DEF OwnBody

===============================================================================
