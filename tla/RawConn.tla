------------------------------- MODULE RawConn -------------------------------
(***************************************************************************)
(* One raw connection and its caller: do of client.go with the redirects   *)
(* it follows, WriteRequest and ReadResponse of client/client.go, the      *)
(* phases of client/writer.go, and the body the caller reads.              *)
(*                                                                         *)
(* A connection has one caller, who reads the body of each response to its *)
(* end or closes it before the next call, and stops at the first error.    *)
(* The server (external) answers in order.  A response is a sequence of    *)
(* pieces; how many bytes a piece has is left out.                         *)
(***************************************************************************)
EXTENDS Naturals, Sequences, SequencesExt

CONSTANTS
  Requests,      \* kinds of request, among RequestKinds
  Responses,     \* kinds of response, among ResponseKinds
  HasDeadline,   \* Options.Timeout > 0
  MaxRedirects,  \* Options.MaxRedirects
  MaxWrites      \* bound on the requests of the caller

\* RawBytes, no Body, a Body.
RequestKinds  == {"raw", "nobody", "body"}
\* Content-Length; Content-Length: 0; chunked; ended by EOF; a Content-Length
\* without a body (to HEAD, 204, 304); a redirect; a 1xx response before the
\* final one; a bad header line; a gzip body that is none.
ResponseKinds == {"length", "empty", "chunked", "close", "bare", "redirect",
                  "interim", "malformed", "badgzip"}

ASSUME RawAssumption == /\ Requests \subseteq RequestKinds
                        /\ Responses \subseteq ResponseKinds
                        /\ HasDeadline \in BOOLEAN
                        /\ MaxRedirects \in Nat /\ MaxWrites \in Nat

VARIABLES
  phase,    \* writer.phase
  wire,     \* requests the server has not answered
  out,      \* pieces of responses the server is sending
  input,    \* pieces that arrived and were not read
  eof,      \* the server closed the connection
  expired,  \* the deadline of the connection passed
  closed,   \* the client closed the connection
  sent,     \* number of requests written
  call      \* the call of do and what the caller does with its result

link == <<wire, out, input, eof>>
vars == <<phase, link, expired, closed, sent, call>>

\* No request that follows a redirect is written: see RedirectReachesServer.
Writes == 0 .. MaxWrites
Piece  == [req : Writes, kind : ResponseKinds,
           part : {"head", "body", "rest", "cr", "lf"}]
None   == [req |-> 0, kind |-> "empty", part |-> "head"]
Errors == {"none", "phase", "write", "read", "status", "header", "gzip", "body",
           "url"}

TypeOK ==
  /\ phase \in {"requestline", "header", "body"}
  /\ wire \in Seq(Writes) /\ out \in Seq(Piece) /\ input \in Seq(Piece)
  /\ eof \in BOOLEAN /\ expired \in BOOLEAN /\ closed \in BOOLEAN
  /\ sent \in Writes
  /\ call \in [pc : {"idle", "write", "read", "head", "drain", "answered"},
               kind : RequestKinds, force : BOOLEAN, follow : BOOLEAN,
               current : 0 .. (MaxRedirects + 1), req : Writes, resp : Piece,
               err : Errors]

Init ==
  /\ phase = "requestline"
  /\ wire = <<>> /\ out = <<>> /\ input = <<>>
  /\ eof = FALSE /\ expired = FALSE /\ closed = FALSE
  /\ sent = 0
  /\ call = [pc |-> "idle", kind |-> "raw", force |-> FALSE, follow |-> FALSE,
             current |-> 0, req |-> 0, resp |-> None, err |-> "none"]

Goto(pc) == call' = [call EXCEPT !.pc = pc]
Fail(e)  == call' = [call EXCEPT !.pc = "idle", !.err = e]

-------------------------------------------------------------------------------
(* The server and the network.                                             *)

Parts(kind) ==
  CASE kind \in {"length", "redirect", "close", "badgzip"} -> <<"head", "body">>
    [] kind = "chunked"   -> <<"head", "body", "cr", "lf">>
    [] kind = "malformed" -> <<"head", "rest">>
    [] OTHER              -> <<"head">>

Pieces(req, kind) ==
  [i \in 1 .. Len(Parts(kind)) |-> [req |-> req, kind |-> kind,
                                    part |-> Parts(kind)[i]]]

Stream(req, kind) ==
  IF kind = "interim" THEN Pieces(req, kind) \o Pieces(req, "length")
                      ELSE Pieces(req, kind)

Answer == /\ wire # <<>> /\ out = <<>> /\ ~eof
          /\ \E kind \in Responses : out' = Stream(Head(wire), kind)
          /\ wire' = Tail(wire)
          /\ UNCHANGED <<phase, input, eof, expired, closed, sent, call>>

Deliver == /\ out # <<>>
           /\ input' = Append(input, Head(out)) /\ out' = Tail(out)
           /\ UNCHANGED <<phase, wire, eof, expired, closed, sent, call>>

ServerCloses == /\ ~eof /\ eof' = TRUE
                /\ wire' = <<>> /\ out' = <<>>
                /\ UNCHANGED <<phase, input, expired, closed, sent, call>>

\* Mutant: the deadline is never set.
DeadlineNever == FALSE

Deadline == HasDeadline

\* CreateConnection sets one deadline for all that is done on the connection.
Expire == /\ Deadline /\ ~expired /\ expired' = TRUE
          /\ UNCHANGED <<phase, link, closed, sent, call>>

-------------------------------------------------------------------------------
(* do: the request.                                                        *)

Do(kind) ==
  /\ call.pc = "idle" /\ sent < MaxWrites
  /\ call.err = "none"
  /\ \E force, follow \in BOOLEAN :
       call' = [call EXCEPT !.pc = "write", !.kind = kind, !.force = force,
                            !.follow = follow, !.current = 0, !.err = "none"]
  /\ UNCHANGED <<phase, link, expired, closed, sent>>

Raw == call.kind = "raw"

\* WriteRequestLine outside of its phase; raw bytes have none.
Refuse == /\ call.pc = "write" /\ ~Raw /\ phase # "requestline"
          /\ Fail("phase")
          /\ UNCHANGED <<phase, link, expired, closed, sent>>

\* StartBody leaves the phase at body, WriteBody sets it to requestline.
AfterWrite == CASE call.kind = "raw"    -> phase
                [] call.kind = "nobody" -> "body"
                [] call.kind = "body"   -> "requestline"

\* Mutant: no return after the raw bytes.
RequestsTwice == IF Raw THEN <<sent + 1, sent + 1>> ELSE <<sent + 1>>

RequestsWritten == <<sent + 1>>

\* A server that closed may still take the bytes.
Written ==
  /\ call.pc = "write" /\ (IF Raw THEN phase # "header" ELSE phase = "requestline")
  /\ ~closed /\ ~expired
  /\ phase' = AfterWrite
  /\ wire' = IF eof THEN wire ELSE wire \o RequestsWritten
  /\ sent' = sent + 1
  /\ call' = [call EXCEPT !.pc = "read", !.req = sent + 1]
  /\ UNCHANGED <<out, input, eof, expired, closed>>

\* The phases that an error in the headers, in StartBody or in WriteBody
\* leaves behind; in the phase of the headers Writer is a failed bufio.Writer.
WriteFails ==
  /\ call.pc = "write" /\ (Raw \/ phase = "requestline")
  /\ closed \/ expired \/ eof \/ phase = "header"
  /\ phase' \in CASE call.kind = "raw"    -> {phase}
                  [] call.kind = "nobody" -> {"header", "body"}
                  [] call.kind = "body"   -> {"header", "body", "requestline"}
  /\ Fail("write")
  /\ UNCHANGED <<link, expired, closed, sent>>

-------------------------------------------------------------------------------
(* do: the response.                                                       *)

\* What was read into the bufio.Reader can still be read after the deadline.
Ended   == input = <<>> /\ (eof \/ closed)
Stalled == expired \/ Ended

ReadFails == /\ call.pc = "read" /\ Stalled
             /\ Fail("read")
             /\ UNCHANGED <<phase, link, expired, closed, sent>>

\* ReadResponse stops at a header line without a colon.
ReadHead ==
  /\ call.pc = "read" /\ input # <<>> /\ Head(input).part = "head"
  /\ IF Head(input).kind = "malformed"
       THEN Fail("header")
       ELSE call' = [call EXCEPT !.pc = "head", !.resp = Head(input)]
  /\ input' = Tail(input)
  /\ UNCHANGED <<phase, wire, out, eof, expired, closed, sent>>

\* ReadVersion stops at the first byte that is wrong.
NoStatus ==
  /\ call.pc = "read" /\ input # <<>> /\ Head(input).part # "head"
  /\ Fail("status")
  /\ \/ input' = Tail(input)
     \/ Head(input).part \in {"body", "rest"} /\ input' = input
  /\ UNCHANGED <<phase, wire, out, eof, expired, closed, sent>>

\* gzip.NewReader in toHTTPResponse.
BadGzip ==
  /\ call.pc = "head" /\ call.resp.kind = "badgzip"
  /\ \/ input # <<>> /\ input' \in {input, Tail(input)}
     \/ Stalled /\ input' = input
  /\ Fail("gzip")
  /\ UNCHANGED <<phase, wire, out, eof, expired, closed, sent>>

Follows == call.resp.kind = "redirect" /\ call.follow /\ call.current <= MaxRedirects

Decide == /\ call.pc = "head" /\ call.resp.kind # "badgzip"
          /\ Goto(IF Follows THEN "drain" ELSE "answered")
          /\ UNCHANGED <<phase, link, expired, closed, sent>>

-------------------------------------------------------------------------------
(* The body: read by do to follow a redirect, else by the caller.          *)

\* Mutant: the chunked reader is not used.
FramingPlain ==
  IF call.resp.kind \in {"length", "empty", "bare", "redirect"} /\ ~call.force
    THEN "length" ELSE "eof"

Framing ==
  IF call.resp.kind \in {"length", "empty", "bare", "redirect"} /\ ~call.force
    THEN "length" ELSE IF call.resp.kind = "chunked" THEN "chunked" ELSE "eof"

Own(p) == p.req = call.resp.req /\ p.part = "body"

\* Mutant: one byte less than the Content-Length.
LimitedLess == input

Limited == Tail(input)

\* The body has been read to its end, and input is what is left.  A
\* LimitedReader takes EOF for the end; a chunked reader stops before the
\* line that ends the body.
BodyEnds ==
  \/ /\ Framing = "length"
     /\ \/ call.resp.kind = "empty" /\ input' = input
        \/ call.resp.kind # "empty" /\ input # <<>> /\ input' = Limited
        \/ Ended /\ input' = input
  \/ /\ Framing = "chunked"
     /\ input # <<>> /\ Own(Head(input)) /\ input' = Tail(input)
  \/ /\ Framing = "eof" /\ Ended /\ input' = input

\* A piece of a body that ends with the connection, or of a longer one.
BodyGoesOn == /\ \/ Framing = "eof"
                 \/ Framing = "length" /\ call.resp.kind # "empty"
              /\ input # <<>> /\ (Framing = "length" => ~Own(Head(input)))
              /\ input' = Tail(input)

BodyFails ==
  /\ \/ expired
     \/ Framing = "chunked" /\ (Ended \/ (input # <<>> /\ ~Own(Head(input))))
  /\ input' = input

\* Mutant: the connection stays open.
ClosedByFollowingNot == closed

\* r.Body.Close closes the connection.
ClosedByFollowing == TRUE

\* The end of io.Copy: close the connection, and again with the Location.
Redirect ==
  /\ call.pc = "drain" /\ BodyEnds
  /\ closed' = ClosedByFollowing
  /\ \/ call' = [call EXCEPT !.pc = "write", !.current = @ + 1]
     \/ Fail("url")
  /\ UNCHANGED <<phase, wire, out, eof, expired, sent>>

BodyRead ==
  /\ call.pc = "answered" /\ BodyEnds
  /\ Goto("idle")
  /\ UNCHANGED <<phase, wire, out, eof, expired, closed, sent>>

BodyPiece ==
  /\ call.pc \in {"drain", "answered"} /\ BodyGoesOn
  /\ UNCHANGED <<phase, wire, out, eof, expired, closed, sent, call>>

BodyError ==
  /\ call.pc \in {"drain", "answered"} /\ BodyFails
  /\ Fail("body")
  /\ UNCHANGED <<phase, wire, out, eof, expired, closed, sent>>

\* A caller need not read the body of a response that has none.
LeaveBody ==
  /\ call.pc = "answered"
  /\ call.resp.kind \in {"empty", "bare", "interim"}
  /\ Goto("idle")
  /\ UNCHANGED <<phase, link, expired, closed, sent>>

CloseBody ==
  /\ call.pc = "answered"
  /\ closed' = TRUE
  /\ Goto("idle")
  /\ UNCHANGED <<phase, link, expired, sent>>

-------------------------------------------------------------------------------
Request  == Refuse \/ Written \/ WriteFails
Response == ReadFails \/ ReadHead \/ NoStatus \/ BadGzip \/ Decide
Body     == Redirect \/ BodyRead \/ BodyPiece \/ BodyError
Network  == Answer \/ Deliver \/ ServerCloses \/ Expire

Next == \/ \E kind \in Requests : Do(kind)
        \/ Request \/ Response \/ Body \/ LeaveBody \/ CloseBody
        \/ Network

Spec == Init /\ [][Next]_vars

\* do runs, and a deadline passes; the server need not answer.
Fairness == /\ WF_vars(Request) /\ WF_vars(Response) /\ WF_vars(Body)
            /\ WF_vars(Expire)

FairSpec == Spec /\ Fairness

-------------------------------------------------------------------------------
(* Properties.                                                             *)

\* do returns, or follows the redirect of, the response to the request it
\* wrote: nothing but the position in the stream relates the two.  The code breaks
\* it where a server sends a 1xx response.
ResponseForRequest ==
  call.pc \in {"head", "drain", "answered"} => call.resp.req = call.req

\* Whoever reads the body of a response takes nothing else from the connection:
\* no part of another response and no framing.
OwnBody ==
  [][(Body /\ input' # input) => Own(Head(input))]_vars

\* Between two calls nothing that was sent is left to be read, but for the line
\* that ends a chunked body: the next response starts at its status line.
AtStatusLine ==
  call.pc = "idle" /\ call.err = "none" /\ ~closed =>
    /\ wire = <<>>
    /\ \A p \in ToSet(out \o input) : p.part \in {"cr", "lf"}

\* A client "obeys KeepAlive conditions" (client/client.go:69): a caller that read
\* the body of every response to its end can use the connection again; a request is
\* not refused, and a status line is found where the last response ended, unless
\* someone closed the connection or its deadline passed.  The code breaks it, after
\* a request without a body and after a chunked response; ResponseForRequest and
\* AtStatusLine are what remains true.
KeepAlive == call.err \in {"phase", "status"} => expired \/ eof \/ closed

\* A redirect is followed on a connection that can still be written to.
RedirectReachesServer ==
  call.pc = "write" /\ call.current > 0 => ~closed

\* With Options.Timeout, every call of do returns, whatever the server does.
DoReturns ==
  call.pc \in {"write", "read", "head", "drain"} ~> call.pc \in {"idle", "answered"}
===============================================================================
