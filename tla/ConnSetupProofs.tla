---------------------------- MODULE ConnSetupProofs ----------------------------
(***************************************************************************)
(* Proofs about ConnSetup, for any set of raw calls and of pipeline calls, *)
(* and whichever of them are made together.                                *)
(***************************************************************************)
EXTENDS ConnSetup, TLAPS

-------------------------------------------------------------------------------
(* The inductive invariant.                                                *)

\* A pipeline call holds its channel from the start of its handshake until it
\* returns, and nobody else holds that channel meanwhile.
InHandshake(c) == call[c].pc \in {"select", "late"}

Kinds == /\ \A c \in RawCalls : ~InHandshake(c)
         /\ \A c \in PipeCalls :
              call[c].pc \in {"never", "idle", "dial", "select", "late", "done"}

Held == /\ \A c \in PipeCalls : InHandshake(c) =>
             /\ call[c].chan \in PipeCalls \ pool
             /\ \A d \in PipeCalls \ {c} :
                  InHandshake(d) => call[d].chan # call[c].chan
        /\ \A c \in PipeCalls :
             /\ handshake[c] = "none" <=> call[c].chan = NoOne
             /\ handshake[c] \in {"running", "ok", "failed"} <=> InHandshake(c)
             /\ call[c].pc \in {"never", "idle", "dial"} => handshake[c] = "none"

\* A channel named after a call exists only once that call started a handshake.
Named == \A c \in PipeCalls : handshake[c] = "none" =>
           c \notin pool /\ \A d \in PipeCalls : call[d].chan # c

\* Before a call is done it has no error, but for the timeout it waits on, and
\* its connection is open exactly where it has dialled.
Owned ==
  \A c \in Calls :
    /\ call[c].pc # "done" => call[c].err = IF At(c, "late") THEN "timeout" ELSE "none"
    /\ call[c].pc \in {"never", "idle", "http", "fast", "https", "new", "fasttls",
                       "dial", "proxydial"} => conn[c] = "none"
    /\ call[c].pc \in {"connect", "tls", "select"} => conn[c] = "open"

\* A call that goes on to use the dialer made one or saw one, so that another
\* call must have replaced it by nil since.
OtherFailed(c) == \E d \in RawCalls \ {c} : ~call[d].made
UsesDialer ==
  \A c \in RawCalls :
    /\ ~call[c].made => call[c].pc \in {"dial", "done"}
    /\ call[c].pc \in {"fast", "fasttls"} /\ dialer = NoOne => OtherFailed(c)

IInv == /\ TypeOK /\ Kinds /\ Held /\ Named /\ Owned /\ UsesDialer
        /\ ConnOwned /\ OwnHandshake /\ NilDialer

LEMMA IInvInit == Init => IInv
<1>. SUFFICES ASSUME Init PROVE IInv
  OBVIOUS
<1>1. TypeOK
  BY DEF Init, TypeOK, Proxies, Errors, At
<1>2. Kinds /\ Owned /\ UsesDialer
  BY DEF Init, Kinds, InHandshake, Owned, At, UsesDialer, Calls
<1>3. Held /\ Named
  BY SetupAssumption DEF Init, InHandshake, Held, Named, Calls
<1>4. ConnOwned /\ OwnHandshake /\ NilDialer
  BY DEF Init, ConnOwned, OwnHandshake, NilDialer, At, Calls
<1>. QED  BY <1>1, <1>2, <1>3, <1>4 DEF IInv

-------------------------------------------------------------------------------
(* Types.                                                                  *)

PCs == {"never", "idle", "http", "fast", "https", "new", "fasttls", "dial",
        "proxydial", "connect", "tls", "select", "late", "done", "panic"}
CallType == [pc : PCs, tls : BOOLEAN, proxy : Proxies, timeout : BOOLEAN,
             made : BOOLEAN, chan : PipeCalls \cup {NoOne},
             from : PipeCalls \cup {NoOne}, err : Errors]
ConnPCs == {"none", "open", "closed"}
Hands   == {"none", "running", "ok", "failed", "ended"}

Types == /\ call \in [Calls -> CallType]
         /\ conn \in [Calls -> ConnPCs]
         /\ dialer \in RawCalls \cup {NoOne, Owner}
         /\ pool \subseteq PipeCalls
         /\ handshake \in [PipeCalls -> Hands]

LEMMA TypeParts ==
  TypeOK <=> /\ Types
             /\ \A c \in Calls : /\ call[c].pc \in {"connect", "tls", "select"}
                                      => conn[c] = "open"
                                 /\ call[c].pc = "late" => conn[c] = "closed"
  BY DEF TypeOK, Types, CallType, PCs, ConnPCs, Hands

\* g is f with other values in the record of c.
Updated(f, g, c, pc, e, made, ch, from) ==
  /\ g \in [Calls -> CallType]
  /\ g[c].pc = pc /\ g[c].err = e /\ g[c].made = made
  /\ g[c].chan = ch /\ g[c].from = from
  /\ \A d \in Calls \ {c} : g[d] = f[d]

LEMMA CallUpdates ==
  ASSUME NEW f \in [Calls -> CallType], NEW g, NEW c \in Calls, NEW pc \in PCs
  PROVE
    /\ g = [f EXCEPT ![c].pc = pc]
         => Updated(f, g, c, pc, f[c].err, f[c].made, f[c].chan, f[c].from)
    /\ \A e \in Errors :
         g = [f EXCEPT ![c].pc = pc, ![c].err = e]
           => Updated(f, g, c, pc, e, f[c].made, f[c].chan, f[c].from)
    /\ \A made \in BOOLEAN :
         g = [f EXCEPT ![c].pc = pc, ![c].made = made]
           => Updated(f, g, c, pc, f[c].err, made, f[c].chan, f[c].from)
    /\ \A ch \in PipeCalls :
         g = [f EXCEPT ![c].pc = pc, ![c].chan = ch]
           => Updated(f, g, c, pc, f[c].err, f[c].made, ch, f[c].from)
    /\ \A h \in PipeCalls :
         g = [f EXCEPT ![c].pc = pc, ![c].from = h]
           => Updated(f, g, c, pc, f[c].err, f[c].made, f[c].chan, h)
    /\ \A h \in PipeCalls, e \in Errors :
         g = [f EXCEPT ![c].pc = pc, ![c].from = h, ![c].err = e]
           => Updated(f, g, c, pc, e, f[c].made, f[c].chan, h)
    /\ \A tls \in BOOLEAN, timeout \in BOOLEAN :
         g = [f EXCEPT ![c].pc = pc, ![c].tls = tls, ![c].timeout = timeout]
           => Updated(f, g, c, pc, f[c].err, f[c].made, f[c].chan, f[c].from)
<1>1. ASSUME g = [f EXCEPT ![c].pc = pc]
      PROVE  Updated(f, g, c, pc, f[c].err, f[c].made, f[c].chan, f[c].from)
  BY Zenon, <1>1 DEF Updated, CallType
<1>2. ASSUME NEW e \in Errors, g = [f EXCEPT ![c].pc = pc, ![c].err = e]
      PROVE  Updated(f, g, c, pc, e, f[c].made, f[c].chan, f[c].from)
  BY ZenonT(60), <1>2 DEF Updated, CallType
<1>3. ASSUME NEW made \in BOOLEAN, g = [f EXCEPT ![c].pc = pc, ![c].made = made]
      PROVE  Updated(f, g, c, pc, f[c].err, made, f[c].chan, f[c].from)
  BY ZenonT(60), <1>3 DEF Updated, CallType
<1>4. ASSUME NEW ch \in PipeCalls, g = [f EXCEPT ![c].pc = pc, ![c].chan = ch]
      PROVE  Updated(f, g, c, pc, f[c].err, f[c].made, ch, f[c].from)
  BY ZenonT(60), <1>4 DEF Updated, CallType
<1>5. ASSUME NEW h \in PipeCalls, g = [f EXCEPT ![c].pc = pc, ![c].from = h]
      PROVE  Updated(f, g, c, pc, f[c].err, f[c].made, f[c].chan, h)
  BY ZenonT(60), <1>5 DEF Updated, CallType
<1>6. ASSUME NEW h \in PipeCalls, NEW e \in Errors,
             g = [f EXCEPT ![c].pc = pc, ![c].from = h, ![c].err = e]
      PROVE  Updated(f, g, c, pc, e, f[c].made, f[c].chan, h)
  BY ZenonT(90), <1>6 DEF Updated, CallType
<1>7. ASSUME NEW tls \in BOOLEAN, NEW timeout \in BOOLEAN,
             g = [f EXCEPT ![c].pc = pc, ![c].tls = tls, ![c].timeout = timeout]
      PROVE  Updated(f, g, c, pc, f[c].err, f[c].made, f[c].chan, f[c].from)
  BY ZenonT(90), <1>7 DEF Updated, CallType
<1>. QED  BY Zenon, <1>1, <1>2, <1>3, <1>4, <1>5, <1>6, <1>7

\* The call of getConn, with its arguments.
LEMMA CallArguments ==
  ASSUME NEW f \in [Calls -> CallType], NEW c \in Calls, NEW pc \in PCs, NEW e \in Errors,
         NEW tls \in BOOLEAN, NEW timeout \in BOOLEAN, NEW proxy \in Proxies
  PROVE  Updated(f, [f EXCEPT ![c] = [@ EXCEPT !.tls = tls, !.timeout = timeout,
                                        !.proxy = proxy, !.err = e, !.pc = pc]],
                 c, pc, e, f[c].made, f[c].chan, f[c].from)
  BY ZenonT(90) DEF CallType, Updated

\* A step that touches the connection of no other call.
ConnMoved(c, s) == /\ conn' \in [Calls -> ConnPCs]
                   /\ conn'[c] = s
                   /\ \A d \in Calls \ {c} : conn'[d] = conn[d]

LEMMA ConnUpdates ==
  ASSUME Types, NEW c \in Calls
  PROVE  /\ UNCHANGED conn => ConnMoved(c, conn[c])
         /\ \A s \in ConnPCs : SetConn(c, s) => ConnMoved(c, s)
  BY DEF Types, ConnMoved, SetConn

-------------------------------------------------------------------------------
(* Raw calls.                                                              *)

\* A raw call changes its own record and connection, and the dialer.
RawMove(c, pc, e, made, s) ==
  /\ Updated(call, call', c, pc, e, made, call[c].chan, call[c].from)
  /\ ConnMoved(c, s)
  /\ dialer' \in RawCalls \cup {NoOne, Owner}
  /\ UNCHANGED <<pool, handshake>>

LEMMA RawMoveInv ==
  ASSUME IInv, NEW c \in RawCalls, NEW pc, NEW e, NEW made, NEW s,
         RawMove(c, pc, e, made, s)
  PROVE  Types' /\ Held' /\ Named' /\ OwnHandshake'
<1>1. \A d \in PipeCalls : call'[d] = call[d]
  BY SetupAssumption DEF RawMove, Updated, Calls
<1>2. Types'
  BY TypeParts DEF IInv, RawMove, Updated, ConnMoved, Types
<1>. QED  BY <1>1, <1>2 DEF IInv, RawMove, Held, Named, OwnHandshake, InHandshake

\* Opened, or failed and not opened, and so on: what ConnOwned asks of a raw call.
RawStepOwned(c, pc, e, s) ==
  /\ pc \in PCs \ {"never", "idle", "select", "late"}
  /\ pc # "done" => e = "none"
  /\ pc \in {"http", "fast", "https", "new", "fasttls", "dial", "proxydial"} => s = "none"
  /\ pc \in {"connect", "tls"} => s = "open"
  /\ pc = "done" => (s = "open" <=> e \in {"none", "status", "tls"})

LEMMA RawOwned ==
  ASSUME IInv, NEW c \in RawCalls, NEW pc, NEW e, NEW made, NEW s,
         RawMove(c, pc, e, made, s), RawStepOwned(c, pc, e, s)
  PROVE  Kinds' /\ Owned' /\ ConnOwned' /\ TypeOK'
<1>. c \in Calls
  BY DEF Calls
<1>1. /\ call'[c].pc = pc /\ call'[c].err = e /\ conn'[c] = s
      /\ \A d \in Calls \ {c} : call'[d] = call[d] /\ conn'[d] = conn[d]
  BY DEF RawMove, Updated, ConnMoved
<1>2. Kinds'
  BY <1>1, SetupAssumption DEF IInv, Kinds, InHandshake, RawStepOwned, Calls
<1>3. Owned'
  BY <1>1 DEF IInv, Owned, RawStepOwned, At, PCs
<1>4. ConnOwned'
  BY <1>1 DEF IInv, ConnOwned, RawStepOwned, At
<1>5. TypeOK'
  <2>1. Types'
    BY RawMoveInv
  <2>2. \A d \in Calls : /\ call'[d].pc \in {"connect", "tls", "select"}
                              => conn'[d] = "open"
                         /\ call'[d].pc = "late" => conn'[d] = "closed"
    BY <1>1, TypeParts DEF IInv, RawStepOwned
  <2>. QED  BY <2>1, <2>2 DEF TypeOK, Types, CallType, PCs, ConnPCs, Hands
<1>. QED  BY <1>2, <1>3, <1>4, <1>5

\* What UsesDialer and NilDialer ask of it.
RawStepDials(c, pc, made) ==
  /\ ~made => pc \in {"dial", "done"}
  /\ ~call[c].made => ~made
  /\ dialer' = NoOne => dialer = NoOne \/ ~made
  /\ pc \in {"fast", "fasttls"} => dialer' # NoOne
  /\ pc = "panic" => made /\ call[c].made /\ OtherFailed(c)

LEMMA RawDials ==
  ASSUME IInv, NEW c \in RawCalls, NEW pc, NEW e, NEW made, NEW s,
         RawMove(c, pc, e, made, s), RawStepDials(c, pc, made)
  PROVE  UsesDialer' /\ NilDialer'
<1>. c \in Calls
  BY DEF Calls
<1>1. /\ call'[c].pc = pc /\ call'[c].made = made
      /\ \A d \in RawCalls \ {c} : call'[d] = call[d]
  BY DEF RawMove, Updated, Calls
<1>2. \A d \in RawCalls : OtherFailed(d) => OtherFailed(d)'
  BY <1>1 DEF OtherFailed, RawStepDials
<1>3. ~made => \A d \in RawCalls \ {c} : OtherFailed(d)'
  BY <1>1 DEF OtherFailed
<1>4. UsesDialer'
  <2>. SUFFICES ASSUME NEW d \in RawCalls
                PROVE  /\ ~call'[d].made => call'[d].pc \in {"dial", "done"}
                       /\ call'[d].pc \in {"fast", "fasttls"} /\ dialer' = NoOne
                            => OtherFailed(d)'
    BY DEF UsesDialer
  <2>1. CASE d = c
    BY <2>1, <1>1 DEF RawStepDials
  <2>2. CASE d # c
    BY <2>2, <1>1, <1>2, <1>3 DEF IInv, UsesDialer, RawStepDials
  <2>. QED  BY <2>1, <2>2
<1>5. NilDialer'
  <2>. SUFFICES ASSUME NEW d \in RawCalls, call'[d].pc = "panic"
                PROVE  call'[d].made /\ OtherFailed(d)'
    BY DEF NilDialer, At, OtherFailed
  <2>1. CASE d = c
    BY <2>1, <1>1, <1>2 DEF RawStepDials
  <2>2. CASE d # c
    BY <2>2, <1>1, <1>2 DEF IInv, NilDialer, At, OtherFailed
  <2>. QED  BY <2>1, <2>2
<1>. QED  BY <1>4, <1>5

RawMoves(c) == \E pc, e, made, s :
  RawMove(c, pc, e, made, s) /\ RawStepOwned(c, pc, e, s) /\ RawStepDials(c, pc, made)

\* Every step of a raw call is of this form.
LEMMA RawStepMoves ==
  ASSUME IInv, NEW c \in RawCalls, RawStep(c)
  PROVE  RawMoves(c)
<1>. c \in Calls
  BY DEF Calls
<1>. DEFINE k == call[c]
<1>1. Types /\ k \in CallType /\ Owned /\ UsesDialer
  BY TypeParts DEF IInv, Types
<1>0. call \in [Calls -> CallType]
  BY <1>1 DEF Types
<1>2. /\ k.pc \in PCs /\ k.err \in Errors /\ k.tls \in BOOLEAN /\ k.made \in BOOLEAN
  BY Zenon, <1>1 DEF CallType
<1>3. ASSUME NEW pc \in PCs
      PROVE  Goto(c, pc) => Updated(call, call', c, pc, k.err, k.made, k.chan, k.from)
  BY Zenon, <1>0, CallUpdates DEF Goto
<1>4. ASSUME NEW e \in Errors
      PROVE  Fails(c, e) => Updated(call, call', c, "done", e, k.made, k.chan, k.from)
  <2>1. "done" \in PCs
    BY DEF PCs
  <2>. QED  BY Zenon, <2>1, <1>0, CallUpdates DEF Fails
<1>5. dialer \in RawCalls \cup {NoOne, Owner}
  BY <1>1 DEF Types
<1>6. NoOne \notin RawCalls
  BY SetupAssumption DEF Calls
<1>7. ~k.made => k.pc \in {"dial", "done"}
  BY <1>1 DEF UsesDialer
<1>8. /\ k.pc # "done" => k.err = IF k.pc = "late" THEN "timeout" ELSE "none"
      /\ k.pc \in {"idle", "http", "fast", "https", "new", "fasttls",
                   "dial", "proxydial"} => conn[c] = "none"
      /\ k.pc \in {"connect", "tls"} => conn[c] = "open"
  BY <1>1 DEF Owned, At
<1>10. CASE GetConn(c)
  <2>1. PICK tls \in BOOLEAN, timeout \in BOOLEAN, proxy \in Proxies :
          call' = [call EXCEPT ![c] =
                  [@ EXCEPT !.tls = tls, !.timeout = timeout, !.proxy = proxy,
                            !.err = IF proxy = "bad" THEN "proxy" ELSE "none",
                            !.pc = CASE proxy = "bad" -> "done"
                                     [] proxy \in {"http", "socks"} -> "proxydial"
                                     [] OTHER -> IF tls THEN "https" ELSE "http"]]
    BY <1>10 DEF GetConn
  <2>. DEFINE pc == CASE proxy = "bad" -> "done"
                      [] proxy \in {"http", "socks"} -> "proxydial"
                      [] OTHER -> IF tls THEN "https" ELSE "http"
              e == IF proxy = "bad" THEN "proxy" ELSE "none"
  <2>2. /\ pc \in {"done", "proxydial", "https", "http"} /\ e \in {"proxy", "none"}
        /\ pc = "done" <=> e = "proxy"
    OBVIOUS
  <2>3. pc \in PCs /\ e \in Errors
    BY <2>2 DEF PCs, Errors
  <2>. HIDE DEF pc, e
  <2>4. Updated(call, call', c, pc, e, k.made, k.chan, k.from)
    BY <2>1, <2>3, <1>1, CallArguments DEF Types, pc, e
  <2>5. RawMove(c, pc, e, k.made, "none")
    BY <2>4, <1>10, <1>1, <1>5, <1>8, ConnUpdates DEF RawMove, GetConn, Elsewhere, Outside, At
  <2>6. RawStepOwned(c, pc, e, "none")
    BY <2>2, <2>3 DEF RawStepOwned
  <2>7. RawStepDials(c, pc, k.made)
    BY <2>2, <1>7, <1>10 DEF RawStepDials, GetConn, At, Elsewhere
  <2>. QED  BY <2>5, <2>6, <2>7 DEF RawMoves
<1>11. CASE TestHttp(c) \/ TestHttps(c) \/ UseDialer(c)
  <2>1. PICK pc \in {"dial", "fast", "new", "fasttls", "panic"} :
          /\ Goto(c, pc)
          /\ k.pc \in {"http", "https", "fast", "fasttls"}
          /\ pc \in {"fast", "fasttls"} => dialer # NoOne
          /\ pc = "panic" => k.pc \in {"fast", "fasttls"} /\ dialer = NoOne
    BY <1>11 DEF TestHttp, TestHttps, UseDialer, At
  <2>2. UNCHANGED <<conn, dialer, pool, handshake>>
    BY <1>11 DEF TestHttp, TestHttps, UseDialer, Elsewhere, Outside
  <2>3. RawMove(c, pc, "none", k.made, "none")
    BY <2>1, <2>2, <1>1, <1>3, <1>5, <1>8, ConnUpdates DEF RawMove, PCs
  <2>4. RawStepOwned(c, pc, "none", "none")
    BY <2>1 DEF RawStepOwned, PCs
  <2>5. RawStepDials(c, pc, k.made)
    BY <2>1, <2>2, <1>1, <1>7 DEF RawStepDials, UsesDialer
  <2>. QED  BY <2>3, <2>4, <2>5 DEF RawMoves
<1>12. CASE MakeDialer(c)
  <2>1. PICK made \in BOOLEAN :
          /\ call' = [call EXCEPT ![c].pc = AfterNewDialer(made), ![c].made = made]
          /\ dialer' = IF made THEN c ELSE NoOne
    BY <1>12 DEF MakeDialer
  <2>. DEFINE pc == AfterNewDialer(made)
  <2>2. pc \in PCs /\ pc = IF made THEN "fasttls" ELSE "dial"
    BY DEF AfterNewDialer, PCs
  <2>. HIDE DEF pc
  <2>3. Updated(call, call', c, pc, "none", made, k.chan, k.from)
    <3>1. k.err = "none"
      BY <1>8, <1>12 DEF MakeDialer, At
    <3>2. call' = [call EXCEPT ![c].pc = pc, ![c].made = made]
      BY <2>1 DEF pc
    <3>3. Updated(call, call', c, pc, k.err, made, k.chan, k.from)
      BY Zenon, <2>2, <3>2, <1>0, CallUpdates
    <3>. QED  BY <3>1, <3>3
  <2>4. RawMove(c, pc, "none", made, "none")
    BY <2>1, <2>3, <1>12, <1>1, <1>8, ConnUpdates DEF RawMove, MakeDialer, Outside, At
  <2>5. RawStepOwned(c, pc, "none", "none")
    BY <2>2 DEF RawStepOwned
  <2>6. RawStepDials(c, pc, made)
    BY <2>1, <2>2, <1>6, <1>7, <1>12 DEF RawStepDials, MakeDialer, At
  <2>. QED  BY <2>4, <2>5, <2>6 DEF RawMoves
<1>13. CASE Dial(c) \/ ProxyDial(c) \/ Connect(c) \/ TlsHandshake(c) \/ TlsTimeout(c)
  <2>1. PICK pc \in {"done", "connect", "tls"}, e \in Errors,
              s \in {"none", "open", "closed"} :
          /\ \/ Goto(c, pc) /\ e = "none" /\ s = "open"
             \/ /\ pc = "done" /\ Fails(c, e) /\ e # "none"
                /\ s = "open" <=> e \in {"status", "tls"}
          /\ SetConn(c, s) \/ (UNCHANGED conn /\ s = conn[c])
          /\ k.pc \in {"dial", "proxydial", "connect", "tls"}
          /\ k.pc = "dial" => pc = "done"
    <3>1. CASE Dial(c)
      BY <3>1, <1>8, Zenon DEF Dial, At, Errors
    <3>2. CASE ProxyDial(c)
      BY <3>2, <1>8, Zenon DEF ProxyDial, At, Errors, Tunnelled
    <3>3. CASE Connect(c)
      <4>1. CASE Tunnelled(c) /\ UNCHANGED conn
        BY <4>1, <3>3, <1>8 DEF Connect, At, Errors, Tunnelled
      <4>2. CASE \E err \in {"connect", "status"} :
                   Fails(c, err) /\ SetConn(c, OnConnectError(err))
        BY <4>2, <3>3 DEF Connect, At, Errors, OnConnectError
      <4>. QED  BY <4>1, <4>2, <3>3 DEF Connect
    <3>4. CASE TlsHandshake(c)
      BY <3>4, <1>8, Zenon DEF TlsHandshake, At, Errors
    <3>5. CASE TlsTimeout(c)
      BY <3>5, <1>8, Zenon DEF TlsTimeout, At, Errors
    <3>. QED  BY <1>13, <3>1, <3>2, <3>3, <3>4, <3>5
  <2>2. UNCHANGED <<dialer, pool, handshake>>
    BY <1>13 DEF Dial, ProxyDial, Connect, TlsHandshake, TlsTimeout, Elsewhere, Outside
  <2>3. pc \in PCs /\ s \in ConnPCs
    BY DEF PCs, ConnPCs
  <2>4. RawMove(c, pc, e, k.made, s)
    <3>1. Updated(call, call', c, pc, e, k.made, k.chan, k.from)
      <4>1. CASE Goto(c, pc) /\ e = "none"
        BY <4>1, <2>1, <2>3, <1>3, <1>8
      <4>2. CASE pc = "done" /\ Fails(c, e)
        BY <4>2, <1>4
      <4>. QED  BY <2>1, <4>1, <4>2
    <3>2. ConnMoved(c, s)
      BY <2>1, <2>3, <1>1, ConnUpdates
    <3>. QED  BY <3>1, <3>2, <2>2, <1>5 DEF RawMove
  <2>5. RawStepOwned(c, pc, e, s)
    BY <2>1, <2>3 DEF RawStepOwned
  <2>6. RawStepDials(c, pc, k.made)
    BY <2>1, <2>2, <1>7 DEF RawStepDials
  <2>. QED  BY <2>4, <2>5, <2>6 DEF RawMoves
<1>. QED  BY <1>10, <1>11, <1>12, <1>13 DEF RawStep

LEMMA RawStepInv ==
  ASSUME IInv, NEW c \in RawCalls, RawStep(c)
  PROVE  IInv'
<1>1. PICK pc, e, made, s : /\ RawMove(c, pc, e, made, s)
                            /\ RawStepOwned(c, pc, e, s)
                            /\ RawStepDials(c, pc, made)
  BY RawStepMoves DEF RawMoves
<1>. QED  BY <1>1, RawMoveInv, RawOwned, RawDials DEF IInv

-------------------------------------------------------------------------------
(* Pipeline calls.                                                         *)

PipeMove(c, pc, e, ch, from, s) ==
  /\ Updated(call, call', c, pc, e, call[c].made, ch, from)
  /\ ConnMoved(c, s)
  /\ UNCHANGED dialer
  /\ pc \in {"dial", "select", "late", "done"}
  /\ pc # "done" => e = IF pc = "late" THEN "timeout" ELSE "none"
  /\ pc = "dial" => s = "none"
  /\ pc = "select" => s = "open"
  /\ pc = "late" => s = "closed"
  /\ pc = "done" => (s = "open" <=> e = "none")

\* What such a step keeps, but for the channels and the handshakes.
LEMMA PipeMoveInv ==
  ASSUME IInv, NEW c \in PipeCalls, NEW pc, NEW e, NEW ch, NEW from, NEW s,
         PipeMove(c, pc, e, ch, from, s),
         pool' \subseteq PipeCalls, handshake' \in [PipeCalls -> Hands]
  PROVE  TypeOK' /\ Kinds' /\ Owned' /\ UsesDialer' /\ ConnOwned' /\ NilDialer'
<1>. c \in Calls /\ c \notin RawCalls
  BY SetupAssumption DEF Calls
<1>1. /\ call'[c].pc = pc /\ call'[c].err = e /\ conn'[c] = s
      /\ \A d \in Calls \ {c} : call'[d] = call[d] /\ conn'[d] = conn[d]
  BY DEF PipeMove, Updated, ConnMoved
<1>2. \A d \in RawCalls : call'[d] = call[d]
  BY <1>1 DEF Calls
<1>3. UsesDialer' /\ NilDialer'
  BY <1>2 DEF IInv, PipeMove, UsesDialer, NilDialer, OtherFailed, At
<1>4. Kinds'
  BY <1>1, <1>2 DEF IInv, PipeMove, Kinds, InHandshake, Calls
<1>5. Owned'
  BY <1>1 DEF IInv, PipeMove, Owned, At
<1>6. ConnOwned'
  BY <1>1 DEF IInv, PipeMove, ConnOwned, At
<1>7. TypeOK'
  <2>1. Types'
    BY TypeParts DEF IInv, PipeMove, Updated, ConnMoved, Types
  <2>2. \A d \in Calls : /\ call'[d].pc \in {"connect", "tls", "select"}
                              => conn'[d] = "open"
                         /\ call'[d].pc = "late" => conn'[d] = "closed"
    BY <1>1, TypeParts DEF IInv, PipeMove
  <2>. QED  BY <2>1, <2>2 DEF TypeOK, Types, CallType, PCs, ConnPCs, Hands
<1>. QED  BY <1>3, <1>4, <1>5, <1>6, <1>7

Channelled == Held /\ Named /\ OwnHandshake

LEMMA PipeCallState ==
  ASSUME IInv, NEW c \in PipeCalls
  PROVE  /\ c \in Calls /\ Types
         /\ call \in [Calls -> CallType] /\ call[c] \in CallType
         /\ call[c].err \in Errors /\ call[c].from \in {c, NoOne}
         /\ call[c].pc = "idle" => call[c].err = "none" /\ conn[c] = "none"
         /\ call[c].pc = "dial" => call[c].err = "none" /\ conn[c] = "none"
         /\ call[c].pc = "select" => call[c].err = "none" /\ conn[c] = "open"
         /\ call[c].pc = "late" => call[c].err = "timeout" /\ conn[c] = "closed"
<1>1. c \in Calls /\ Types
  BY TypeParts DEF IInv, Calls
<1>2. call[c] \in CallType
  BY <1>1 DEF Types
<1>3. call[c].err \in Errors
  BY Zenon, <1>2 DEF CallType
<1>. QED  BY <1>1, <1>2, <1>3, TypeParts DEF IInv, Types, OwnHandshake, Owned, At

\* dialAddr up to its handshake, and without one.
LEMMA DialInv ==
  ASSUME IInv, NEW c \in PipeCalls, DialAddr(c) \/ DialAddrFails(c) \/ DialAddrOk(c)
  PROVE  IInv'
<1>. DEFINE k == call[c]
<1>0. UNCHANGED <<dialer, pool, handshake>> /\ k.pc \in {"idle", "dial"}
  BY DEF DialAddr, DialAddrFails, DialAddrOk, Elsewhere, Outside, At
<1>1. PICK pc \in {"dial", "done"}, e \in Errors, s \in ConnPCs :
        PipeMove(c, pc, e, k.chan, k.from, s)
  <2>0. /\ "dial" \in PCs /\ "done" \in PCs /\ {"dial", "none"} \subseteq Errors
        /\ {"none", "open"} \subseteq ConnPCs
    BY DEF PCs, Errors, ConnPCs
  <2>1. CASE DialAddr(c)
    <3>1. Updated(call, call', c, "dial", k.err, k.made, k.chan, k.from)
      <4>1. PICK tls \in BOOLEAN, timeout \in BOOLEAN :
              call' = [call EXCEPT ![c].pc = "dial", ![c].tls = tls, ![c].timeout = timeout]
        BY <2>1 DEF DialAddr
      <4>. QED  BY Zenon, <4>1, <2>0, PipeCallState, CallUpdates
    <3>2. ConnMoved(c, "none") /\ k.err = "none"
      <4>1. UNCHANGED conn /\ k.pc = "idle"
        BY <2>1 DEF DialAddr, At
      <4>. QED  BY <4>1, PipeCallState, ConnUpdates
    <3>. QED  BY <2>0, <3>1, <3>2, <1>0 DEF PipeMove
  <2>2. CASE DialAddrFails(c)
    <3>1. Updated(call, call', c, "done", "dial", k.made, k.chan, k.from)
      BY Zenon, <2>2, <2>0, PipeCallState, CallUpdates DEF DialAddrFails, Fails
    <3>2. ConnMoved(c, "none")
      BY <2>2, PipeCallState, ConnUpdates DEF DialAddrFails, At
    <3>. QED  BY <2>0, <3>1, <3>2, <1>0 DEF PipeMove
  <2>3. CASE DialAddrOk(c)
    <3>1. Updated(call, call', c, "done", k.err, k.made, k.chan, k.from)
      BY Zenon, <2>3, <2>0, PipeCallState, CallUpdates DEF DialAddrOk, Goto
    <3>2. ConnMoved(c, "open") /\ k.err = "none"
      BY <2>3, PipeCallState, ConnUpdates DEF DialAddrOk, At, ConnPCs
    <3>. QED  BY <2>0, <3>1, <3>2, <1>0 DEF PipeMove
  <2>. QED  BY <2>1, <2>2, <2>3
<1>2. pool' \subseteq PipeCalls /\ handshake' \in [PipeCalls -> Hands]
  BY <1>0, PipeCallState DEF Types
<1>3. /\ call'[c].pc = pc /\ call'[c].chan = k.chan /\ call'[c].from = k.from
      /\ \A d \in PipeCalls \ {c} : call'[d] = call[d]
  BY <1>1 DEF PipeMove, Updated, Calls
<1>4. Channelled'
  BY <1>0, <1>3 DEF IInv, Channelled, Held, Named, OwnHandshake, InHandshake
<1>. QED  BY <1>1, <1>2, <1>4, PipeMoveInv DEF IInv, Channelled

\* The channel is one nobody holds: from the pool, or new.
LEMMA StartHandshakeInv ==
  ASSUME IInv, NEW c \in PipeCalls, StartHandshake(c)
  PROVE  IInv'
<1>. DEFINE k == call[c]
<1>0. k.pc = "dial" /\ handshake[c] = "none"
  BY DEF IInv, StartHandshake, At, Held
<1>1. PICK ch \in pool \cup {c} :
        /\ call' = [call EXCEPT ![c].pc = "select", ![c].chan = ch]
        /\ pool' = pool \ {ch}
  BY DEF StartHandshake, Channels
<1>2. ch \in PipeCalls
  BY <1>1, PipeCallState DEF Types
<1>3. Updated(call, call', c, "select", k.err, k.made, ch, k.from)
  <2>1. "select" \in PCs
    BY DEF PCs
  <2>. QED  BY Zenon, <2>1, <1>1, <1>2, PipeCallState, CallUpdates
<1>4. PipeMove(c, "select", "none", ch, k.from, "open")
  <2>1. ConnMoved(c, "open") /\ k.err = "none"
    BY <1>0, PipeCallState, ConnUpdates DEF StartHandshake, ConnPCs
  <2>. QED  BY <2>1, <1>3 DEF PipeMove, StartHandshake
<1>5. pool' \subseteq PipeCalls /\ handshake' \in [PipeCalls -> Hands]
  BY <1>1, PipeCallState DEF Types, StartHandshake, Hands
<1>6. /\ call'[c].pc = "select" /\ call'[c].chan = ch /\ call'[c].from = k.from
      /\ handshake'[c] = "running" /\ pool' = pool \ {ch} /\ ch \in pool \cup {c}
      /\ \A d \in PipeCalls \ {c} : call'[d] = call[d] /\ handshake'[d] = handshake[d]
  BY <1>1, <1>4, PipeCallState DEF PipeMove, Updated, Calls, Types, StartHandshake
<1>7. c \notin pool /\ \A d \in PipeCalls : call[d].chan # c
  BY <1>0 DEF IInv, Named
<1>8. NoOne \notin PipeCalls
  BY SetupAssumption DEF Calls
<1>9. Held'
  BY <1>2, <1>6, <1>7, <1>8 DEF IInv, Held, InHandshake
<1>10. Named'
  BY <1>6 DEF IInv, Named
<1>11. OwnHandshake'
  BY <1>6 DEF IInv, OwnHandshake
<1>. QED  BY <1>4, <1>5, <1>9, <1>10, <1>11, PipeMoveInv DEF IInv

LEMMA AnsweredInv ==
  ASSUME IInv, NEW c \in PipeCalls, Answered(c)
  PROVE  IInv'
<1>1. /\ UNCHANGED <<call, conn, dialer, pool>> /\ handshake[c] = "running"
      /\ \E r \in {"ok", "failed"} : handshake' = [handshake EXCEPT ![c] = r]
  BY DEF Answered
<1>2. /\ handshake' \in [PipeCalls -> Hands] /\ handshake'[c] \in {"ok", "failed"}
      /\ \A d \in PipeCalls \ {c} : handshake'[d] = handshake[d]
  BY <1>1, PipeCallState DEF Types, Hands
<1>3. TypeOK' /\ Kinds' /\ Owned' /\ UsesDialer' /\ ConnOwned' /\ NilDialer'
  BY <1>1, <1>2 DEF IInv, TypeOK, Hands, At, Kinds, InHandshake, Owned, UsesDialer,
                    OtherFailed, ConnOwned, NilDialer
<1>4. Held'
  BY <1>1, <1>2 DEF IInv, Held, InHandshake
<1>5. Named' /\ OwnHandshake'
  BY <1>1, <1>2 DEF IInv, Named, OwnHandshake
<1>. QED  BY <1>3, <1>4, <1>5 DEF IInv

LEMMA HandshakeTimeoutInv ==
  ASSUME IInv, NEW c \in PipeCalls, HandshakeTimeout(c)
  PROVE  IInv'
<1>. DEFINE k == call[c]
<1>1. /\ k.pc = "select" /\ UNCHANGED <<dialer, pool, handshake>>
      /\ call' = [call EXCEPT ![c].pc = "late", ![c].err = "timeout"]
      /\ SetConn(c, "closed")
  BY DEF HandshakeTimeout, At, AfterTimeout, OnTimeout, PutBack
<1>2. Updated(call, call', c, "late", "timeout", k.made, k.chan, k.from)
  <2>1. "late" \in PCs /\ "timeout" \in Errors
    BY DEF PCs, Errors
  <2>. QED  BY Zenon, <2>1, <1>1, PipeCallState, CallUpdates
<1>3. PipeMove(c, "late", "timeout", k.chan, k.from, "closed")
  <2>1. ConnMoved(c, "closed")
    BY <1>1, PipeCallState, ConnUpdates DEF ConnPCs
  <2>. QED  BY <2>1, <1>1, <1>2 DEF PipeMove
<1>4. /\ call'[c].pc = "late" /\ call'[c].chan = k.chan /\ call'[c].from = k.from
      /\ k.pc = "select" /\ UNCHANGED <<pool, handshake>>
      /\ \A d \in PipeCalls \ {c} : call'[d] = call[d]
  BY <1>1, <1>3 DEF PipeMove, Updated, Calls
<1>5. pool' \subseteq PipeCalls /\ handshake' \in [PipeCalls -> Hands]
  BY <1>1, PipeCallState DEF Types
<1>6. Channelled'
  BY <1>4 DEF IInv, Channelled, Held, Named, OwnHandshake, InHandshake
<1>. QED  BY <1>3, <1>5, <1>6, PipeMoveInv DEF IInv, Channelled

\* The goroutine that sends is the call's own.
LEMMA ReceiveInv ==
  ASSUME IInv, NEW c \in PipeCalls, NEW g \in PipeCalls,
         TakeResult(c, g) \/ DropResult(c, g)
  PROVE  IInv'
<1>. DEFINE k == call[c]
<1>1. Receive(c, g) /\ k.pc \in {"select", "late"}
  BY DEF TakeResult, DropResult, At
<1>2. g = c
  BY <1>1 DEF IInv, Receive, Held, InHandshake
<1>3. /\ handshake[c] \in {"ok", "failed"} /\ UNCHANGED dialer
      /\ handshake' = [handshake EXCEPT ![c] = "ended"]
      /\ pool' = pool \cup {k.chan} /\ k.chan \in PipeCalls
  BY <1>1, <1>2 DEF IInv, Receive, PutBack, Held, InHandshake
<1>4. PICK e, s : PipeMove(c, "done", e, k.chan, c, s)
  <2>0. "done" \in PCs /\ "none" \in Errors /\ "tls" \in Errors
    BY DEF PCs, Errors
  <2>1. CASE TakeResult(c, c)
    <3>. DEFINE ok == handshake[c] = "ok"
                e == IF ok THEN "none" ELSE "tls"
    <3>1. e \in Errors /\ call' = [call EXCEPT ![c].pc = "done", ![c].from = c, ![c].err = e]
      BY <2>0, <2>1 DEF TakeResult
    <3>2. Updated(call, call', c, "done", e, k.made, k.chan, c)
      BY Zenon, <3>1, <2>0, PipeCallState, CallUpdates
    <3>3. ConnMoved(c, IF ok THEN "open" ELSE "closed")
      BY <2>1, PipeCallState, ConnUpdates DEF TakeResult, At, SetConn, ConnPCs
    <3>. QED  BY <3>2, <3>3, <1>3 DEF PipeMove
  <2>2. CASE DropResult(c, c)
    <3>1. Updated(call, call', c, "done", "timeout", k.made, k.chan, c)
      <4>1. k.err = "timeout"
        BY <2>2, PipeCallState DEF DropResult, At
      <4>2. Updated(call, call', c, "done", k.err, k.made, k.chan, c)
        BY Zenon, <2>2, <2>0, PipeCallState, CallUpdates DEF DropResult
      <4>. QED  BY <4>1, <4>2
    <3>2. ConnMoved(c, "closed")
      BY <2>2, PipeCallState, ConnUpdates DEF DropResult, At
    <3>. QED  BY <3>1, <3>2, <1>3 DEF PipeMove
  <2>. QED  BY <2>1, <2>2, <1>2
<1>5. pool' \subseteq PipeCalls /\ handshake' \in [PipeCalls -> Hands]
  BY <1>3, PipeCallState DEF Types, Hands
<1>6. /\ call'[c].pc = "done" /\ call'[c].chan = k.chan /\ call'[c].from = c
      /\ handshake'[c] = "ended"
      /\ \A d \in PipeCalls \ {c} : call'[d] = call[d] /\ handshake'[d] = handshake[d]
  BY <1>3, <1>4, PipeCallState DEF PipeMove, Updated, Calls, Types
<1>7. NoOne \notin PipeCalls
  BY SetupAssumption DEF Calls
<1>8. Held'
  BY <1>1, <1>3, <1>6, <1>7 DEF IInv, Held, InHandshake
<1>9. Named'
  BY <1>3, <1>6 DEF IInv, Named
<1>10. OwnHandshake'
  <2>1. \A d \in PipeCalls : handshake[d] \in Hands
    BY PipeCallState DEF Types
  <2>2. \A d \in PipeCalls \ {c} : call[d].chan = k.chan => handshake[d] \in {"none", "ended"}
    BY <1>1, <2>1 DEF IInv, Held, InHandshake, Hands
  <2>. QED  BY <1>3, <1>6, <2>2 DEF IInv, OwnHandshake
<1>. QED  BY <1>4, <1>5, <1>8, <1>9, <1>10, PipeMoveInv DEF IInv

-------------------------------------------------------------------------------
LEMMA IInvStep == IInv /\ [Next]_vars => IInv'
<1>. SUFFICES ASSUME IInv, [Next]_vars PROVE IInv'
  OBVIOUS
<1>1. CASE \E c \in RawCalls : RawStep(c)
  BY <1>1, RawStepInv
<1>2. CASE \E c \in PipeCalls : PipeStep(c)
  BY <1>2, DialInv, StartHandshakeInv, AnsweredInv, HandshakeTimeoutInv, ReceiveInv
     DEF PipeStep
<1>3. CASE UNCHANGED vars
  BY <1>3 DEF vars, IInv, TypeOK, At, Kinds, InHandshake, Held, Named, Owned, UsesDialer,
              OtherFailed, ConnOwned, OwnHandshake, NilDialer
<1>. QED  BY <1>1, <1>2, <1>3 DEF Next

LEMMA IInvAlways == Spec => []IInv
  BY IInvInit, IInvStep, PTL DEF Spec

\* A call that waits for the proxy or for a handshake has a connection, and one
\* that timed out waits for the handshake on a connection it has closed.
THEOREM TypeCorrect == Spec => []TypeOK
<1>1. IInv => TypeOK
  BY DEF IInv
<1>. QED  BY <1>1, IInvAlways, PTL

\* However raw and pipeline calls interleave, a call that returns a connection
\* returns an open one, and one that fails in a dial, in the CONNECT exchange, in
\* the handshake of a pipeline call or by a timeout leaves none open (getConn,
\* dialAddr).  Not said of a CONNECT that is refused, where the run setup_proxy
\* shows an open connection, nor of a handshake that is refused in TlsHandshake.
THEOREM ConnOwnedAlways == Spec => []ConnOwned
<1>1. IInv => ConnOwned
  BY DEF IInv
<1>. QED  BY <1>1, IInvAlways, PTL

\* Any number of handshakes share the pooled channels of tlsClientHandshake, and
\* none takes the result of another.
THEOREM OwnHandshakeAlways == Spec => []OwnHandshake
<1>1. IInv => OwnHandshake
  BY DEF IInv
<1>. QED  BY <1>1, IInvAlways, PTL

\* clientDial meets a nil dialer after its test only if NewDialer failed in another
\* call.
THEOREM NilDialerOnly == Spec => []NilDialer
<1>1. IInv => NilDialer
  BY DEF IInv
<1>. QED  BY <1>1, IInvAlways, PTL

===============================================================================
