---------------------------- MODULE RequestRewrite ----------------------------
(***************************************************************************)
(* What a request says of its host and of its length when it reaches the   *)
(* server: toRequest (util.go) with do (client.go) and WriteRequest        *)
(* (client/client.go), DumpRequestRaw, and ToRequest and Request.Write of  *)
(* clientpipeline/request.go.  The caller's header map outlives a call.    *)
(*                                                                         *)
(* A message is a sequence of header lines, the blank line among them, and *)
(* the number of bytes that follow.  A line has a gap, the white space     *)
(* between the colon and the value, which some of the searches require.    *)
(* The request line, and other headers but one, are left out; so are two   *)
(* spellings of one name, and two values of which one is a prefix of the   *)
(* other.                                                                  *)
(***************************************************************************)
EXTENDS Naturals, FiniteSets, SequencesExt, FiniteSetsExt

CONSTANTS
  NHosts,    \* hosts of the URLs and of Host headers: 1 .. NHosts
  Heads,     \* header sections of raw requests: sequences of lines
  Bodies,    \* their bodies: the number of lines, and of the bytes in them
  Lengths,   \* Content-Length values in the caller's header map
  NoValue    \* a header that is not in the map

Hosts  == 1 .. NHosts
Empty  == 0                \* "Host:" with no value
WithF(h) == NHosts + h     \* the host h with an "f" after it

\* The code writes one space; the host that do puts into the map begins with
\* another one.
Line == [name : {"host", "xhost", "length", "other", "blank"}, gap : Nat, value : Nat]
Host(h)   == [name |-> "host", gap |-> 1, value |-> h]
Spaced(h) == [name |-> "host", gap |-> 2, value |-> h]
Length(n) == [name |-> "length", gap |-> 1, value |-> n]
Other     == [name |-> "other", gap |-> 1, value |-> 0]
Blank     == [name |-> "blank", gap |-> 0, value |-> 0]

HostNames    == {"host", "xhost"}
Named(names)  == {line \in Line : line.name \in names}
Unvalued     == {line \in Named(HostNames) : line.value = Empty}

\* In a raw request a blank line only comes last (the text ends with a separator
\* and no blank line follows), and a Host without a value, X-Forwarded-Host
\* included, is followed by another header and is the only one of its kind.
RawHead(s) ==
  \A i \in 1 .. Len(s) :
    /\ s[i] \in Named({"blank"}) => i = Len(s)
    /\ s[i] \in Unvalued =>
         /\ i < Len(s) /\ s[i + 1] \notin Named({"blank"})
         /\ \A j \in 1 .. Len(s) : s[j] \in Unvalued => j = i

ASSUME RewriteAssumption ==
  /\ NHosts \in Nat /\ Lengths \subseteq Nat /\ NoValue \notin Nat \cup Line
  /\ \A s \in Heads : s \in Seq(Line) /\ RawHead(s)
  /\ Bodies \subseteq [lines : Nat \ {0}, bytes : Nat]

\* Raw bytes: the separator of their lines, and whether a blank line ends the head.
Raws == [sep : {"lf", "crlf"}, head : Heads, split : BOOLEAN, body : Bodies]
WellFormed(raw) == raw.split => \A i \in DOMAIN raw.head : raw.head[i].name # "blank"

\* len(bufferArr[1]): the lines of the body and the separators between them.
SepSize(raw) == IF raw.sep = "lf" THEN 1 ELSE 2
Size(raw) ==
  IF raw.split THEN raw.body.bytes + SepSize(raw) * (raw.body.lines - 1) ELSE 0

VARIABLES
  headers,   \* the caller's header map: its Host, as the line written for it, and
             \*   its Content-Length, or NoValue
  message    \* the last request written

vars == <<headers, message>>

NoOpts  == [host |-> FALSE, length |-> FALSE]
Opts    == [host : BOOLEAN, length : BOOLEAN]
NoRaw   == [sep |-> "crlf", head |-> <<>>, split |-> FALSE,
            body |-> [lines |-> 1, bytes |-> 0]]

-------------------------------------------------------------------------------
(* The search and the replacement of one header.                           *)

\* The lines of these names, and the first of some lines, 0 if there is none.
At(lines, names) == {i \in DOMAIN lines : lines[i].name \in names}
FirstOf(at)      == IF at = {} THEN 0 ELSE Min(at)

\* What host:\s*(.*) with n = 0, and host:\s+(.*) with n = 1, match: also the end
\* of X-Forwarded-Host, and a Host without a value, as the white space may be the
\* end of its line.
Matched(line, n) == line.gap >= n \/ line.value = Empty
HostAt(lines, n) == FirstOf({i \in At(lines, HostNames) : Matched(lines[i], n)})

\* content-length:\s+(\d+)
LengthAt(lines) == FirstOf({i \in At(lines, {"length"}) : lines[i].gap >= 1})

\* Mutant: only the header that was found first is replaced.
SameTextOfName(found, line) == line = found

\* ReplaceAll of the text found, wherever it stands.
Text(line) == <<line.gap, line.value>>
SameText(found, line) ==
  /\ Text(line) = Text(found)
  /\ IF found.name = "length" THEN line.name = "length" ELSE line.name \in HostNames

\* "Host: %s", "Content-Length: %d"
Say(line, value) == [line EXCEPT !.gap = 1, !.value = value]

ReplaceText(lines, found, value) ==
  [i \in DOMAIN lines |-> IF SameText(found, lines[i])
                          THEN Say(lines[i], value) ELSE lines[i]]

\* For "Host:" without a value the expression goes on to the next line, which is
\* replaced with it.
Swallow(lines, i, h) == RemoveAt([lines EXCEPT ![i] = Say(@, h)], i + 1)

SetHost(lines, n, h) ==
  LET i == HostAt(lines, n) IN
  CASE i = 0 -> lines
    [] i > 0 /\ lines[i].value = Empty /\ i < Len(lines) -> Swallow(lines, i, h)
    [] OTHER -> ReplaceText(lines, lines[i], h)

SetLength(lines, n) ==
  IF LengthAt(lines) = 0 THEN lines ELSE ReplaceText(lines, lines[LengthAt(lines)], n)

If(cond, line) == IF cond THEN <<line>> ELSE <<>>

-------------------------------------------------------------------------------
(* toRequest (util.go) for raw bytes, for Options.CustomRawBytes, and for  *)
(* neither; each gives the lines and the bytes after them.                 *)

\* toHeaders: the entries of the map, whose order does not matter here.
MapLines(hs) == If(hs.host # NoValue, hs.host) \o If(hs.length # NoValue, Length(hs.length))

\* Mutant: the length is that of the body as it was split into lines.
LengthOfText(raw) == raw.body.bytes

\* The length that is written: len(bufferArr[1]).
LengthOf(raw) == Size(raw)

\* The branch of raw: both headers are sought in the head and the caller's headers.
FromRaw(raw, hs, h, opts) ==
  LET head   == raw.head \o MapLines(hs)
      hosted == IF opts.host THEN SetHost(head, 1, h) ELSE head
      found  == opts.length /\ LengthAt(hosted) # 0
      body   == Size(raw) > 0
  IN  [lines |-> (IF opts.length /\ body THEN SetLength(hosted, LengthOf(raw)) ELSE hosted)
                 \o If(opts.host /\ HostAt(head, 1) = 0, Host(h))
                 \o If(~found /\ body, Length(LengthOf(raw))) \o <<Blank>>,
       body  |-> Size(raw)]

\* The branch of CustomRawBytes: both headers are sought in the head alone, and the
\* text found, with its own separators, is replaced in the lines already written.
FromCustom(raw, hs, h, opts) ==
  LET head    == raw.head \o MapLines(hs)
      i       == HostAt(raw.head, 0)
      spans   == i # 0 /\ raw.head[i].value = Empty
      hosted  == IF opts.host /\ i # 0 /\ ~(spans /\ raw.sep = "lf")
                 THEN SetHost(head, 0, h) ELSE head
      j       == LengthAt(raw.head)
      body    == Size(raw) > 0
  IN  [lines |-> (IF opts.length /\ j # 0 /\ body
                  THEN ReplaceText(hosted, raw.head[j], LengthOf(raw)) ELSE hosted)
                 \o If(opts.host /\ i = 0, Host(WithF(h)))
                 \o If(~(opts.length /\ j # 0) /\ body, Length(LengthOf(raw))) \o <<Blank>>,
       body  |-> Size(raw)]

\* WriteRequest without raw bytes.  A body whose length is not known, or none,
\* gets no Content-Length.
FromParts(hs, known, size, opts) ==
  [lines |-> MapLines(hs) \o If(opts.length /\ known, Length(size)) \o <<Blank>>,
   body  |-> size]

-------------------------------------------------------------------------------
(* ToRequest and Request.Write (clientpipeline/request.go).                *)

\* Every line of the body is written with CRLF after it.
PipelineBody(raw) == raw.body.bytes + 2 * raw.body.lines

\* bufferArr[1] is used even if there is no blank line: ToRequest panics then.
Panics(raw, opts) == opts # NoOpts /\ ~raw.split

FromPipelineRaw(raw, h, opts) ==
  LET hosted == IF opts.host THEN SetHost(raw.head, 0, h) ELSE raw.head
  IN  IF opts = NoOpts
      THEN [lines |-> raw.head \o If(raw.split, Blank), body |-> Size(raw)]
      ELSE [lines |-> (IF opts.length THEN SetLength(hosted, LengthOf(raw)) ELSE hosted)
                      \o If(~(opts.host /\ HostAt(raw.head, 0) # 0), Host(WithF(h)))
                      \o If(~(opts.length /\ LengthAt(hosted) # 0), Length(LengthOf(raw)))
                      \o <<Blank>>,
            body  |-> PipelineBody(raw)]

\* Request.Write.  auto is FALSE in a Request of ToRequest; with it, the line of
\* Content-Length takes the CRLF that should end the head.
FromPipelineParts(hs, auto, known, size) ==
  [lines |-> MapLines(hs) \o IF auto /\ known THEN <<Length(size)>> ELSE <<Blank>>,
   body  |-> size]

-------------------------------------------------------------------------------
(* The calls.                                                              *)

NoMessage == [via |-> "none", host |-> 1, opts |-> NoOpts, raw |-> NoRaw,
              size |-> 0, before |-> [host |-> NoValue, length |-> NoValue],
              lines |-> <<>>, body |-> 0]

Entries == {Host(h) : h \in Hosts} \cup {Spaced(h) : h \in Hosts}

TypeOK ==
  /\ headers \in [host : Entries \cup {NoValue}, length : Lengths \cup {NoValue}]
  /\ message.via \in {"none", "raw", "custom", "parts", "stream", "dump",
                      "pipeline", "pipelineparts", "panic"}
  /\ message.lines \in Seq(Line) /\ message.body \in Nat
  /\ message.opts.host /\ message.via \in {"raw", "custom", "parts", "stream"} =>
       headers.host = Spaced(message.host)

Init ==
  /\ headers \in [host : {Host(h) : h \in Hosts} \cup {NoValue},
                  length : Lengths \cup {NoValue}]
  /\ message = NoMessage

\* Mutant: do leaves a Host that is in the caller's map.
HostEntryOld(hs, h) == IF hs.host = NoValue THEN Spaced(h) ELSE hs.host

\* do puts the host of the URL into the caller's map, after a space.
HostEntry(hs, h) == Spaced(h)

Written(via, h, opts, raw, size, out) ==
  message' = [via |-> via, host |-> h, opts |-> opts, raw |-> raw, size |-> size,
              before |-> headers, lines |-> out.lines, body |-> out.body]

\* Client.do: the map is changed, then the request is made from raw bytes, from
\* CustomRawBytes, or from the parts, with a body of a known or unknown length.
Do ==
  \E h \in Hosts, opts \in Opts :
    LET hs == IF opts.host THEN [headers EXCEPT !.host = HostEntry(headers, h)]
                           ELSE headers
    IN  /\ headers' = hs
        /\ \/ \E raw \in Raws :
                /\ WellFormed(raw)
                /\ \/ Written("raw", h, opts, raw, Size(raw), FromRaw(raw, hs, h, opts))
                   \/ Written("custom", h, opts, raw, Size(raw), FromCustom(raw, hs, h, opts))
           \/ \E known \in BOOLEAN, size \in {0, 3} :
                Written(IF known THEN "parts" ELSE "stream", h, opts, NoRaw, size,
                        FromParts(hs, known, size, opts))

\* DumpRequestRaw: what it returns comes from the parts, without a Content-Length of
\* its own, and the caller's map keeps the Host.  (With CustomRawBytes it returns
\* those and does nothing.)
Dump ==
  \E h \in Hosts, opts \in Opts, size \in {0, 3} :
    LET hs == IF headers.host = NoValue THEN [headers EXCEPT !.host = Host(h)] ELSE headers
    IN  /\ headers' = hs
        /\ Written("dump", h, opts, NoRaw, size, FromParts(hs, FALSE, size, opts))

\* PipelineClient.do.
PipelineDo ==
  /\ UNCHANGED headers
  /\ \E h \in Hosts, opts \in Opts :
       \/ \E raw \in Raws :
            /\ WellFormed(raw)
            /\ IF Panics(raw, opts)
               THEN Written("panic", h, opts, raw, Size(raw), NoMessage)
               ELSE Written("pipeline", h, opts, raw, Size(raw),
                            FromPipelineRaw(raw, h, opts))
       \/ \E auto, known \in BOOLEAN, size \in {0, 3} :
            Written("pipelineparts", h, opts, NoRaw, size,
                    FromPipelineParts(headers, auto, known, size))

(* One request in a behaviour, after a dump or not: the map starts as any       *)
(* former call leaves it.                                                      *)
Next == \/ message = NoMessage /\ Dump
        \/ message.via \in {"none", "dump"} /\ (Do \/ PipelineDo)

Spec == Init /\ [][Next]_vars

-------------------------------------------------------------------------------
(* Properties: the message as a server reads it.                           *)

HeadEnd    == FirstOf(At(message.lines, {"blank"}))
Seen(name) == {i \in At(message.lines, {name}) : i < HeadEnd}
AllSay(name, value) == \A i \in Seen(name) : message.lines[i].value = value

\* The server finds the end of the head, and a body as long as it was told.
Tells(size) == Seen("length") # {} /\ AllSay("length", size)
Aligned == /\ HeadEnd = Len(message.lines)
           /\ Tells(message.body) \/ (Seen("length") = {} /\ message.body = 0)

\* How the caller wrote its Content-Length in the raw bytes, and in the map too;
\* and its Host in the raw bytes.  Whether there is a gap.
Texts(lines, names) == {Text(lines[i]) : i \in At(lines, names)}
GivesLength == Texts(message.raw.head, {"length"})
Told        == GivesLength \cup {Text(Length(n)) : n \in {message.before.length} \ {NoValue}}
GivesHost   == Texts(message.raw.head, HostNames)
Gapped(texts) == \A x \in texts : x[1] > 0
Valued(texts) == {x \in texts : x[2] # Empty}

\* With AutomaticContentLength the server reads exactly the body that was given,
\* so that the next request of the connection is read where it starts
\* (client.go:28, "performs automatic calculation of request content length").
\* A raw request must have a body and a blank line, and tell at most one length,
\* always written alike, and with a space after the colon; CustomRawBytes also no
\* empty Host, and the length in its own head; a body by itself must be a
\* bytes.Buffer or strings.Reader.  ToRequest sends one CRLF more than it tells,
\* which servers skip, and for lines that end with CRLF only.
Framed ==
  message.opts.length =>
    /\ message.via = "raw" /\ message.raw.split /\ message.size > 0
         /\ Cardinality(Told) <= 1 /\ Gapped(Told) => Aligned
    /\ message.via = "custom" /\ message.raw.split /\ message.size > 0
         /\ GivesHost = Valued(GivesHost) /\ message.before.length = NoValue
         /\ Cardinality(Told) <= 1 /\ Gapped(Told) => Aligned
    /\ message.via = "parts" /\ message.before.length = NoValue => Aligned
    /\ message.via = "pipeline" /\ message.raw.sep = "crlf" /\ message.raw.split
         /\ Cardinality(GivesLength) <= 1 /\ Gapped(GivesLength) =>
         /\ HeadEnd = Len(message.lines)
         /\ Tells(message.size) /\ message.body = message.size + 2

\* The server reads the host of the URL in every Host line: those that the raw
\* bytes had, where they were, and more others.
HostIn(more) ==
  LET given == At(message.raw.head, {"host"})
  IN  /\ AllSay("host", message.host)
      /\ given \subseteq Seen("host") /\ Cardinality(Seen("host") \ given) = more

\* With AutomaticHostHeader the server reads the host of the URL, and no other
\* (client.go:23, "sets Host header for requests automatically"), in one Host line
\* more than the raw bytes had: the one of the map.  A raw request must have a
\* blank line and name at most one host, X-Forwarded-Host included, always written
\* alike, and with a space after the colon; CustomRawBytes and the raw requests of
\* the pipeline must name one already, but need no space.
HostSet ==
  message.opts.host =>
    /\ message.via \in {"parts", "stream"} => HostIn(1)
    /\ message.via = "raw" /\ message.raw.split
         /\ Cardinality(GivesHost) <= 1 /\ Gapped(Valued(GivesHost)) => HostIn(1)
    /\ message.via = "custom" /\ message.raw.split
         /\ Cardinality(GivesHost) = 1 /\ GivesHost = Valued(GivesHost) => HostIn(1)
    /\ message.via = "pipeline" /\ message.raw.split /\ Cardinality(GivesHost) = 1
         /\ At(message.raw.head, {"host"}) # {} => HostIn(0)

\* What client.go:28 says, of every raw request that tells one length at most: the
\* server reads exactly the body that was given.
LengthSet ==
  message.opts.length /\ message.via = "raw" /\ message.raw.split /\ message.size > 0
    /\ message.before.length = NoValue /\ Cardinality(GivesLength) <= 1 => Aligned

\* What client.go:23 says, of raw bytes given as an option or to the pipeline: a
\* host that the server reads is the one of the URL.
HostNamed ==
  message.opts.host /\ message.via \in {"custom", "pipeline"} /\ message.raw.split
    /\ Cardinality(GivesHost) <= 1 => AllSay("host", message.host)

\* And of a raw request: the server reads one Host.
HostOnce ==
  message.opts.host /\ message.via = "raw" /\ message.raw.split
    /\ Cardinality(At(message.raw.head, HostNames)) <= 1 => Cardinality(Seen("host")) = 1

=============================================================================
