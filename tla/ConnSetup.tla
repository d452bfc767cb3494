------------------------------ MODULE ConnSetup ------------------------------
(***************************************************************************)
(* How a connection comes to be.  Two ways of the repository:              *)
(*   - raw calls: Client.getConn, which dials directly (clientDial of      *)
(*     conn.go) or through a proxy (DialWithProxy, proxy/http.go,          *)
(*     proxy/socks5.go, TlsHandshake), on Options that all calls share;    *)
(*   - pipeline calls: dialAddr and tlsClientHandshake of                  *)
(*     clientpipeline/client.go, whose error channels go through one pool. *)
(*                                                                         *)
(* External: fastdialer, net, the socks5 package, crypto/tls, the proxy    *)
(* and the server, which answer, refuse or say nothing.  Time is left out: *)
(* a timeout that is set may fire whenever its wait has not ended.         *)
(***************************************************************************)
EXTENDS Naturals, FiniteSets

CONSTANTS RawCalls,   \* calls of Client.getConn
          PipeCalls,  \* calls of dialAddr
          Mixes       \* bound: the sets of calls that may be made together

Calls == RawCalls \cup PipeCalls
NoOne == "none"
Owner == "NewClient"

ASSUME SetupAssumption == /\ RawCalls \cap PipeCalls = {}
                          /\ NoOne \notin Calls /\ Owner \notin Calls
                          /\ Mixes \subseteq SUBSET Calls

VARIABLES
  call,       \* [Calls -> the call and its arguments]
  conn,       \* [Calls -> the net.Conn of the call: none, open, closed]
  dialer,     \* options.FastDialer: none, or the call (or NewClient) that made it
  pool,       \* timeoutErrorChPool: channels, named after the call that made them
  handshake   \* [PipeCalls -> the goroutine of tlsClientHandshake]

vars == <<call, conn, dialer, pool, handshake>>

Proxies == {"none", "http", "socks", "bad"}
Errors  == {"none", "proxy", "dial", "connect", "status", "tls", "timeout"}

TypeOK ==
  /\ call \in [Calls -> [pc : {"never", "idle", "http", "fast", "https", "new",
                               "fasttls", "dial", "proxydial", "connect", "tls",
                               "select", "late", "done", "panic"},
                         tls : BOOLEAN, proxy : Proxies, timeout : BOOLEAN,
                         made : BOOLEAN, chan : PipeCalls \cup {NoOne},
                         from : PipeCalls \cup {NoOne}, err : Errors]]
  /\ conn \in [Calls -> {"none", "open", "closed"}]
  /\ dialer \in RawCalls \cup {NoOne, Owner}
  /\ pool \subseteq PipeCalls
  /\ handshake \in [PipeCalls -> {"none", "running", "ok", "failed", "ended"}]
  /\ \A c \in Calls : /\ call[c].pc \in {"connect", "tls", "select"} => conn[c] = "open"
                      /\ call[c].pc = "late" => conn[c] = "closed"

\* NewClient tries to make a dialer; DefaultClient, and the Options of
\* DoRawWithOptions, may have none.
Init ==
  /\ \E mix \in Mixes :
       call = [c \in Calls |-> [pc |-> IF c \in mix THEN "idle" ELSE "never",
                                tls |-> FALSE, proxy |-> "none", timeout |-> FALSE,
                                made |-> TRUE, chan |-> NoOne, from |-> NoOne,
                                err |-> "none"]]
  /\ conn = [c \in Calls |-> "none"]
  /\ dialer \in {NoOne, Owner}
  /\ pool = {}
  /\ handshake = [c \in PipeCalls |-> "none"]

At(c, pc)      == call[c].pc = pc
Goto(c, pc)    == call' = [call EXCEPT ![c].pc = pc]
Fails(c, e)    == call' = [call EXCEPT ![c].pc = "done", ![c].err = e]
SetConn(c, s)  == conn' = [conn EXCEPT ![c] = s]
Outside        == UNCHANGED <<pool, handshake>>
Elsewhere      == UNCHANGED dialer /\ Outside

-------------------------------------------------------------------------------
(* Raw calls: getConn, dialTimeout and clientDial.                         *)

\* getConn of an https or http URL, with or without a proxy and a timeout.  "bad":
\* another scheme, or options.Proxy is set and c.Options.Proxy, which is dialled,
\* is not.
GetConn(c) ==
  /\ At(c, "idle")
  /\ \E tls \in BOOLEAN, timeout \in BOOLEAN, proxy \in Proxies :
       call' = [call EXCEPT ![c] =
                  [@ EXCEPT !.tls = tls, !.timeout = timeout, !.proxy = proxy,
                            !.err = IF proxy = "bad" THEN "proxy" ELSE "none",
                            !.pc = CASE proxy = "bad" -> "done"
                                     [] proxy \in {"http", "socks"} -> "proxydial"
                                     [] OTHER -> IF tls THEN "https" ELSE "http"]]
  /\ UNCHANGED conn /\ Elsewhere

\* clientDial reads options.FastDialer, and reads it again to dial.
TestHttp(c) ==
  /\ At(c, "http")
  /\ Goto(c, IF dialer = NoOne THEN "dial" ELSE "fast")
  /\ UNCHANGED conn /\ Elsewhere

TestHttps(c) ==
  /\ At(c, "https")
  /\ Goto(c, IF dialer = NoOne THEN "new" ELSE "fasttls")
  /\ UNCHANGED conn /\ Elsewhere

\* Mutant: DialTLS is also tried on the dialer that could not be made.
AfterNewDialerAlways(made) == "fasttls"

\* Without a dialer of fastdialer the call dials with net.Dialer.
AfterNewDialer(made) == IF made THEN "fasttls" ELSE "dial"

\* NewDialer answers; its result, or nil, becomes options.FastDialer.
MakeDialer(c) ==
  /\ At(c, "new")
  /\ \E made \in BOOLEAN :
       /\ call' = [call EXCEPT ![c].pc = AfterNewDialer(made), ![c].made = made]
       /\ dialer' = IF made THEN c ELSE NoOne
  /\ UNCHANGED conn /\ Outside

\* A method of a nil *fastdialer.Dialer panics.
UseDialer(c) ==
  /\ call[c].pc \in {"fast", "fasttls"}
  /\ Goto(c, IF dialer = NoOne THEN "panic" ELSE "dial")
  /\ UNCHANGED conn /\ Elsewhere

\* Dial, DialTimeout, DialTLS or tls.DialWithDialer (external) answers; one
\* that fails leaves no connection.
Dial(c) ==
  /\ At(c, "dial") /\ c \in RawCalls
  /\ \/ Goto(c, "done") /\ SetConn(c, "open")
     \/ Fails(c, "dial") /\ UNCHANGED conn
  /\ Elsewhere

-------------------------------------------------------------------------------
(* Raw calls through a proxy.                                              *)

\* Where DialWithProxy goes with a connection to the target.
Tunnelled(c) == Goto(c, IF call[c].tls THEN "tls" ELSE "done")

\* The dial to the proxy (external).  The socks5 package also asks the proxy for
\* the target, and closes what it opened when it fails.
ProxyDial(c) ==
  /\ At(c, "proxydial")
  /\ \/ /\ IF call[c].proxy = "http" THEN Goto(c, "connect") ELSE Tunnelled(c)
        /\ SetConn(c, "open")
     \/ Fails(c, "dial") /\ UNCHANGED conn
  /\ Elsewhere

\* Mutant: the deferred close of httpDialer is missing.
OnConnectErrorOpen(e) == "open"

\* The deferred close runs when the variable err is set: not for a status.
OnConnectError(e) == IF e = "status" THEN "open" ELSE "closed"

\* CONNECT is written and answered; no deadline is set yet.
Connect(c) ==
  /\ At(c, "connect")
  /\ \/ Tunnelled(c) /\ UNCHANGED conn
     \/ \E e \in {"connect", "status"} :
          Fails(c, e) /\ SetConn(c, OnConnectError(e))
  /\ Elsewhere

\* TlsHandshake; crypto/tls closes the connection when the context ends.
TlsHandshake(c) ==
  /\ At(c, "tls")
  /\ \/ Goto(c, "done") /\ UNCHANGED conn
     \/ Fails(c, "tls") /\ UNCHANGED conn
  /\ Elsewhere

TlsTimeout(c) ==
  /\ At(c, "tls") /\ call[c].timeout
  /\ Fails(c, "timeout") /\ SetConn(c, "closed")
  /\ Elsewhere

-------------------------------------------------------------------------------
(* Pipeline calls: dialAddr and tlsClientHandshake.                        *)

DialAddr(c) ==
  /\ At(c, "idle")
  /\ \E tls \in BOOLEAN, timeout \in BOOLEAN :
       call' = [call EXCEPT ![c].pc = "dial", ![c].tls = tls, ![c].timeout = timeout]
  /\ UNCHANGED conn /\ Elsewhere

\* The channels the pool may give; it may also have lost them, or be empty.
\* Named after calls: a call makes at most one.
Channels(c) == pool \cup {c}

\* The dial (external) fails, or gives a connection that needs no handshake, or
\* one whose handshake is left to its first use, or one to shake hands on.
DialAddrFails(c) ==
  /\ At(c, "dial") /\ Fails(c, "dial")
  /\ UNCHANGED conn /\ Elsewhere

DialAddrOk(c) ==
  /\ At(c, "dial") /\ ~(call[c].tls /\ call[c].timeout)
  /\ Goto(c, "done") /\ SetConn(c, "open")
  /\ Elsewhere

StartHandshake(c) ==
  /\ At(c, "dial") /\ call[c].tls /\ call[c].timeout
  /\ \E ch \in Channels(c) :
       /\ call' = [call EXCEPT ![c].pc = "select", ![c].chan = ch]
       /\ pool' = pool \ {ch}
  /\ SetConn(c, "open")
  /\ handshake' = [handshake EXCEPT ![c] = "running"]
  /\ UNCHANGED dialer

\* Handshake returns; on a closed connection it fails.
Answered(c) ==
  /\ handshake[c] = "running"
  /\ \E r \in {"ok", "failed"} :
       /\ r = "ok" => conn[c] = "open"
       /\ handshake' = [handshake EXCEPT ![c] = r]
  /\ UNCHANGED <<call, conn, dialer, pool>>

\* Mutant: the connection is closed only after the result has come.
OnTimeoutOpen == "open"

\* The connection is closed first, so that the handshake ends.
OnTimeout == "closed"

\* Mutant: the call returns without waiting for the result.
AfterTimeoutReturn == "done"

\* The call then waits for the result, so that nobody sends on the channel any more.
AfterTimeout == "late"

\* The channel is put back when the call returns.
PutBack(c, pc) == IF pc = "done" THEN pool \cup {call[c].chan} ELSE pool

\* The timer of tlsClientHandshake fires.
HandshakeTimeout(c) ==
  /\ At(c, "select")
  /\ call' = [call EXCEPT ![c].pc = AfterTimeout, ![c].err = "timeout"]
  /\ SetConn(c, OnTimeout)
  /\ pool' = PutBack(c, AfterTimeout)
  /\ UNCHANGED <<dialer, handshake>>

\* The channel has no buffer: the call meets a goroutine g that sends on it.
Receive(c, g) ==
  /\ handshake[g] \in {"ok", "failed"} /\ call[g].chan = call[c].chan
  /\ handshake' = [handshake EXCEPT ![g] = "ended"]
  /\ pool' = PutBack(c, "done")
  /\ UNCHANGED dialer

TakeResult(c, g) ==
  /\ At(c, "select") /\ Receive(c, g)
  /\ LET ok == handshake[g] = "ok" IN
       /\ call' = [call EXCEPT ![c].pc = "done", ![c].from = g,
                               ![c].err = IF ok THEN "none" ELSE "tls"]
       /\ conn' = IF ok THEN conn ELSE [conn EXCEPT ![c] = "closed"]

DropResult(c, g) ==
  /\ At(c, "late") /\ Receive(c, g)
  /\ call' = [call EXCEPT ![c].pc = "done", ![c].from = g]
  /\ UNCHANGED conn

-------------------------------------------------------------------------------
RawStep(c) == \/ GetConn(c) \/ TestHttp(c) \/ TestHttps(c) \/ MakeDialer(c)
              \/ UseDialer(c) \/ Dial(c) \/ ProxyDial(c) \/ Connect(c)
              \/ TlsHandshake(c) \/ TlsTimeout(c)

PipeStep(c) == \/ DialAddr(c) \/ DialAddrFails(c) \/ DialAddrOk(c)
               \/ StartHandshake(c) \/ Answered(c) \/ HandshakeTimeout(c)
               \/ \E g \in PipeCalls : TakeResult(c, g) \/ DropResult(c, g)

Next == (\E c \in RawCalls : RawStep(c)) \/ (\E c \in PipeCalls : PipeStep(c))

Spec == Init /\ [][Next]_vars

(* Fairness: the program's own steps and its timers.  Dials end (the        *)
(* operating system bounds them); a handshake ends when its connection is   *)
(* closed.  A proxy or a server need not answer.                            *)
Fairness ==
  /\ \A c \in RawCalls :
       WF_vars(TestHttp(c) \/ TestHttps(c) \/ MakeDialer(c) \/ UseDialer(c)
               \/ Dial(c) \/ ProxyDial(c) \/ TlsTimeout(c))
  /\ \A c \in PipeCalls :
       /\ WF_vars(DialAddrFails(c) \/ DialAddrOk(c) \/ StartHandshake(c))
       /\ WF_vars(HandshakeTimeout(c))
       /\ WF_vars(conn[c] = "closed" /\ Answered(c))
       /\ WF_vars(\E g \in PipeCalls : TakeResult(c, g) \/ DropResult(c, g))

FairSpec == Spec /\ Fairness

-------------------------------------------------------------------------------
(* Properties.                                                             *)

\* A call that returns a connection returns an open one; a call that fails has
\* closed what it dialled, whether the dial, the CONNECT exchange, the handshake
\* of a pipeline call or a timeout failed.  (The deferred close of httpDialer,
\* rawConn.Close in tlsClientHandshake, the context of TlsHandshake.)  It says
\* nothing of two errors of a raw call: a refusal by the proxy, which
\* ProxyConnClosed is about, and a handshake refused in TlsHandshake.
ConnOwned ==
  \A c \in Calls : At(c, "done") =>
    /\ call[c].err = "none" => conn[c] = "open"
    /\ call[c].err \in (IF c \in RawCalls THEN Errors \ {"none", "status", "tls"}
                                          ELSE Errors \ {"none"})
         => conn[c] # "open"

\* What proxy/http.go:21 says of httpDialer, "close the connection when an error
\* occurs": no connection to the proxy is open after a CONNECT that failed.
ProxyConnClosed ==
  \A c \in RawCalls :
    At(c, "done") /\ call[c].err \in {"connect", "status"} => conn[c] # "open"

\* The result that tlsClientHandshake takes from a pooled channel is that of its
\* own handshake, and a channel in the pool has no handshake that still runs or
\* sends on it.
OwnHandshake ==
  /\ \A c \in PipeCalls : call[c].from \in {c, NoOne}
  /\ \A c \in PipeCalls : call[c].chan \in pool => handshake[c] \in {"none", "ended"}

\* A call finds the shared options.FastDialer nil, after it saw or made one, only
\* if NewDialer failed in another call meanwhile.
NilDialer ==
  \A c \in RawCalls : At(c, "panic") =>
    call[c].made /\ \E d \in RawCalls \ {c} : ~call[d].made

\* Where only the proxy or the server can end the wait of a raw call.
Exposed(c) == At(c, "connect") \/ (At(c, "tls") /\ ~call[c].timeout)


=============================================================================
