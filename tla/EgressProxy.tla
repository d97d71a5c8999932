---------------------------- MODULE EgressProxy ----------------------------
(***************************************************************************)
(* The per-directive egress proxy (src/nexus/egressproxy/proxy.go) and    *)
(* its Instance (lifecycle.go).  Proxy.Serve runs an accept loop; each    *)
(* accepted connection gets a routeConn goroutine counted in p.wg, which  *)
(* peeks the first byte and either runs the SOCKS5 handler itself or      *)
(* queues the connection on the connQueueListener that http.Server.Serve *)
(* accepts from.  A CONNECT request is hijacked and spliced in a goroutine *)
(* that handleConnect adds to p.wg.  Instance.Stop cancels the context    *)
(* and waits for Serve to return.  The sandboxed client and the remote    *)
(* server are the environment: each may close its side at any time.       *)
(* Each handler reads a destination, checks it with the directive's       *)
(* Policy (NetPolicy) and dials the address ResolveAndCheck picks from    *)
(* what DNS returns; the dial itself may still fail.                      *)
(*                                                                         *)
(* Under the firecracker driver the client is not the sandbox but the      *)
(* VsockBridge (vsock_bridge.go): each guest vsock connection it accepts  *)
(* takes a slot of its semaphore, dials the proxy socket and is spliced    *)
(* to it; the driver's deferred calls stop the bridge, then the proxy.    *)
(* Bridged is the set of connections that come through the bridge; the   *)
(* others come straight from the sandbox, as under the other drivers.     *)
(***************************************************************************)
EXTENDS Naturals, FiniteSets, NetPolicy

CONSTANTS
    Conns,       \* client connections to the proxy socket
    AllowedDests, \* the destinations the spec lets Cap reach
    PublicIPs,   \* the addresses outside every private range
    Cap,         \* the directive's NetCapabilityV1: [mode, allow]
    ConnectReqs, \* r.Host of a CONNECT request, as an allowlist Raw string
    HttpReqs,    \* the host and port of a plain request's r.URL, as a Raw string
    SocksReqs,   \* SOCKS5 requests: [cmd, atyp, host, bad, port]
    DNS,         \* DNS[h]: what LookupIP(h) returns: [err, ips]
    Bridged,     \* connections a guest opens through the vsock bridge
    MaxVsockConns \* size of the bridge's semaphore (128 in the code)

ASSUME Bridged \subseteq Conns /\ MaxVsockConns >= 1

(* StartForDirective fails before the proxy exists when NewPolicy does. *)
Policy == NewPolicy(Cap)
ASSUME Policy.ok

VARIABLES
    srv,         \* the Serve goroutine: accept, shutdown, httpwait, wgwait, done
    lisOpen,     \* p.listener is open
    qClosed,     \* connQueueListener.closed is closed
    httpUp,      \* http.Server.Serve(httpListener) is running
    ctxDone,     \* the Instance's ctx is canceled
    stop,        \* Instance.Stop: "none", "waiting" (in <-i.done), "returned"
    st,          \* st[c]: where connection c is
    clientOpen,  \* the sandbox side of c is open
    remoteOpen,  \* the dialled remote side of c is open
    remote,      \* remote[c]: <<destination, address>> c was dialled to, or <<>>
    bst,         \* bst[c]: the bridge's handling of guest conn c: none, dial, copy, done
    guestOpen,   \* the guest's side of the vsock conn c is open
    blisOpen,    \* the bridge's vsock listener is open
    bctx,        \* the bridge's ctx is canceled
    bsrv,        \* the bridge's serve goroutine: accept, wgwait, done
    bstop,       \* VsockBridge.Stop: none, waiting, returned
    audit        \* audit[c]: the AuditEvent logged for c, or NoEvent

bridgeVars == <<bst, guestOpen, blisOpen, bctx, bsrv, bstop>>
vars == <<srv, lisOpen, qClosed, httpUp, ctxDone, stop, st, clientOpen, remoteOpen, remote,
          bridgeVars, audit>>

States == {"idle", "peek", "socks", "stunnel", "queued",
           "hconnect", "hhttp", "hbody", "htunnel", "closed"}

WgCount == Cardinality({c \in Conns : st[c] \in {"peek", "socks", "stunnel", "htunnel"}})

(* Connections whose http.Server handler is running: Shutdown waits for them. *)
ActiveHandlers == {c \in Conns : st[c] \in {"hconnect", "hhttp", "hbody"}}

(* AuditLogger.Log of one AuditEvent: an allow names the destination and  *)
(* the resolved address (<<>> where the handler leaves it out).           *)
NoEvent == [decision |-> "none"]
DenyEvent == [decision |-> "deny"]
AllowEvent(d, ip) == [decision |-> "allow", dest |-> d, ip |-> ip]

Init ==
    /\ srv = "accept"
    /\ lisOpen = TRUE
    /\ qClosed = FALSE
    /\ httpUp = TRUE
    /\ ctxDone = FALSE
    /\ stop = "none"
    /\ st = [c \in Conns |-> "idle"]
    /\ clientOpen = [c \in Conns |-> TRUE]
    /\ remoteOpen = [c \in Conns |-> FALSE]
    /\ remote = [c \in Conns |-> <<>>]
    /\ bst = [c \in Conns |-> "none"]
    /\ guestOpen = [c \in Conns |-> c \in Bridged]
    /\ blisOpen = TRUE /\ bctx = FALSE
    /\ bsrv = "accept" /\ bstop = "none"
    /\ audit = [c \in Conns |-> NoEvent]

SetSt(c, s) == st' = [st EXCEPT ![c] = s]

(* What a handler makes of the client's request: a destination           *)
(* [host, port], or [ok |-> FALSE] for INVALID_DESTINATION.                *)
Target(h, p) == [ok |-> TRUE, host |-> h, port |-> p]
NoTarget == [ok |-> FALSE]

(* splitHostPort(r.Host) of handleConnect: without a ":" the whole string *)
(* is a bare host on port 443; an empty host, a port Atoi refuses (also   *)
(* an empty one) or one outside 1..65535 is an error.                     *)
SplitHostPort(raw) ==
    CASE raw.host.labels = <<>>                 -> NoTarget
      [] raw.portPart = "none"                  -> Target(raw.host, 443)
      [] raw.portPart \in {"empty", "nan"}      -> NoTarget
      [] raw.port \in 1..65535                  -> Target(raw.host, raw.port)
      [] OTHER                                  -> NoTarget

(* handleHTTP's URL checks: an empty r.URL.Host (an origin-form request)  *)
(* is refused, but a URL with a port and no host name gets through with   *)
(* the empty host; an empty URL.Port() is port 80; then Atoi and the     *)
(* range check.                                                            *)
URLTarget(raw) ==
    CASE raw.host.labels = <<>> /\ raw.portPart = "none" -> NoTarget
      [] raw.portPart \in {"none", "empty"}              -> Target(raw.host, 80)
      [] raw.portPart = "nan"                            -> NoTarget
      [] raw.port \in 1..65535                           -> Target(raw.host, raw.port)
      [] OTHER                                           -> NoTarget

(* readSOCKS5DomainDest, after handleSOCKS5 refused a command other than  *)
(* CONNECT: only the domain address type; a zero length, surrounding      *)
(* whitespace or one of \x00\n\r\t /\\@#? (bad) and port 0 are errors.      *)
SocksTarget(req) ==
    IF \/ req.cmd # "connect" \/ req.atyp # "domain"
       \/ req.host.labels = <<>> \/ req.bad \/ req.port = 0
      THEN NoTarget
      ELSE Target(req.host, req.port)

(* The destination of a parsed target. *)
Dest(t) == [host |-> t.host, port |-> t.port]

(* Policy.Check(destHost, destPort), then DialChecked's ResolveAndCheck:  *)
(* whether to dial, and the address.                                      *)
Admit(d) ==
    IF Check(Policy, d.host, d.port) THEN ResolveAndCheck(DNS[d.host]) ELSE [ok |-> FALSE]

(* c is dialled to the address Admit picked for the parsed target t. *)
Dialled(c, t) ==
    LET d == Dest(t) IN
    /\ t.ok /\ Admit(d).ok
    /\ remote' = [remote EXCEPT ![c] = <<d, Admit(d).ip>>]

OpenRemote(c) == remoteOpen' = [remoteOpen EXCEPT ![c] = TRUE]

(* AuditLogger.Log(event) for the handler of c. *)
Log(c, e) == audit' = [audit EXCEPT ![c] = e]

-----------------------------------------------------------------------------
(* Serve's accept loop: a client connects, wg.Add(1), go routeConn. *)
Accept(c) ==
    /\ srv = "accept" /\ lisOpen
    /\ st[c] = "idle"
    /\ c \in Bridged => bst[c] = "copy"
    /\ SetSt(c, "peek")
    /\ UNCHANGED <<srv, lisOpen, qClosed, httpUp, ctxDone, stop, clientOpen, remoteOpen, remote, bridgeVars, audit>>

(* connQueueListener.Close: close l.closed once; l.ch stays open. *)
CloseQueue == qClosed' = TRUE

(* Accept fails on the closed listener: leave the loop, close the queue  *)
(* listener and call server.Shutdown.                                     *)
AcceptFails ==
    /\ srv = "accept" /\ ~lisOpen
    /\ srv' = "shutdown"
    /\ CloseQueue
    /\ httpUp' = FALSE
    /\ UNCHANGED <<lisOpen, ctxDone, stop, st, clientOpen, remoteOpen, remote, bridgeVars, audit>>

(* The goroutine that waits on ctx.Done: close both listeners. *)
CtxWatch ==
    /\ ctxDone /\ (lisOpen \/ ~qClosed)
    /\ lisOpen' = FALSE
    /\ CloseQueue
    /\ UNCHANGED <<srv, httpUp, ctxDone, stop, st, clientOpen, remoteOpen, remote, bridgeVars, audit>>

(* connQueueListener.Enqueue: the select sends on the buffered l.ch, or,  *)
(* when ctx.Done or l.closed is ready, may pick that case and refuse; the *)
(* caller then closes the conn.                                            *)
Enqueue(c) ==
    \/ SetSt(c, "queued")
    \/ (ctxDone \/ qClosed) /\ SetSt(c, "closed")

(* routeConn: the first-byte peek fails (closed client, 2 s deadline) and  *)
(* the conn is closed; 0x05 goes to handleSOCKS5; anything else is         *)
(* Enqueue'd.                                                              *)
Route(c) ==
    /\ st[c] = "peek"
    /\ \/ SetSt(c, "closed")
       \/ clientOpen[c] /\ SetSt(c, "socks")
       \/ clientOpen[c] /\ Enqueue(c)
    /\ UNCHANGED <<srv, lisOpen, qClosed, httpUp, ctxDone, stop, clientOpen, remoteOpen, remote, bridgeVars, audit>>

SocksAuditBeforeDial(c) ==
    /\ st[c] = "socks"
    /\ \/ /\ SetSt(c, "closed") /\ UNCHANGED <<remoteOpen, remote>>
          /\ \/ Log(c, DenyEvent) \/ UNCHANGED audit
       \/ /\ SetSt(c, "closed") /\ UNCHANGED <<remoteOpen, remote>>
          /\ \E r \in SocksReqs :
               LET t == SocksTarget(r) IN
               t.ok /\ Check(Policy, t.host, t.port) /\ Log(c, AllowEvent(Dest(t), <<>>))
       \/ \E r \in SocksReqs :
            LET t == SocksTarget(r) IN
            /\ Dialled(c, t) /\ Log(c, AllowEvent(Dest(t), Admit(Dest(t)).ip))
            /\ \/ SetSt(c, "stunnel") /\ OpenRemote(c)
               \/ SetSt(c, "closed") /\ UNCHANGED remoteOpen
    /\ UNCHANGED <<srv, lisOpen, qClosed, httpUp, ctxDone, stop, clientOpen, bridgeVars>>

(* handleSOCKS5 up to the splice: a handshake error closes the conn       *)
(* unaudited; an unsupported command or address, a policy deny or a dial  *)
(* failure, which any network may produce, is audited deny; an allowed,   *)
(* dialled destination is audited allow and starts the splice, unless the *)
(* success reply fails.                                                    *)
Socks(c) ==
    /\ st[c] = "socks"
    /\ \/ /\ SetSt(c, "closed") /\ UNCHANGED <<remoteOpen, remote>>
          /\ \/ Log(c, DenyEvent) \/ UNCHANGED audit
       \/ \E r \in SocksReqs :
            LET t == SocksTarget(r) IN
            /\ Dialled(c, t) /\ Log(c, AllowEvent(Dest(t), Admit(Dest(t)).ip))
            /\ \/ SetSt(c, "stunnel") /\ OpenRemote(c)
               \/ SetSt(c, "closed") /\ UNCHANGED remoteOpen
    /\ UNCHANGED <<srv, lisOpen, qClosed, httpUp, ctxDone, stop, clientOpen, bridgeVars>>

(* handleSOCKS5's splice: when the first copy ends (one side closed) it   *)
(* closes both conns, which ends the other copy; routeConn returns.       *)
SocksSpliceEnds(c) ==
    /\ st[c] = "stunnel"
    /\ ~clientOpen[c] \/ ~remoteOpen[c]
    /\ SetSt(c, "closed")
    /\ clientOpen' = [clientOpen EXCEPT ![c] = FALSE]
    /\ remoteOpen' = [remoteOpen EXCEPT ![c] = FALSE]
    /\ UNCHANGED <<srv, lisOpen, qClosed, httpUp, ctxDone, stop, remote, bridgeVars, audit>>

(* ServeHTTP: the handler a request's method selects, CONNECT or any other. *)
ServeHTTP == {"hconnect", "hhttp"}

(* http.Server.Serve accepts a queued conn and runs its handler: CONNECT  *)
(* or plain HTTP.  Accept's select picks either ready case, so a queued  *)
(* conn may still be served after the queue listener closed.             *)
HttpAccept(c) ==
    /\ httpUp /\ st[c] = "queued"
    /\ \E h \in ServeHTTP : SetSt(c, h)
    /\ UNCHANGED <<srv, lisOpen, qClosed, httpUp, ctxDone, stop, clientOpen, remoteOpen, remote, bridgeVars, audit>>

(* connQueueListener.Accept returns net.ErrClosed: Serve returns. *)
HttpServeEnds ==
    /\ httpUp /\ qClosed
    /\ httpUp' = FALSE
    /\ UNCHANGED <<srv, lisOpen, qClosed, ctxDone, stop, st, clientOpen, remoteOpen, remote, bridgeVars, audit>>

(* handleConnect: a bad host, a policy deny or a dial failure is audited  *)
(* deny and answered with an error; an allowed, dialled destination is    *)
(* audited allow, hijacked, answered 200, wg.Add(1)'d and spliced in a    *)
(* new goroutine, unless the hijack fails and the target is closed.       *)
Connect(c) ==
    /\ st[c] = "hconnect"
    /\ \/ SetSt(c, "closed") /\ Log(c, DenyEvent) /\ UNCHANGED <<remoteOpen, remote>>
       \/ \E r \in ConnectReqs :
            LET t == SplitHostPort(r) IN
            /\ Dialled(c, t) /\ Log(c, AllowEvent(Dest(t), Admit(Dest(t)).ip))
            /\ \/ SetSt(c, "htunnel") /\ OpenRemote(c)
               \/ SetSt(c, "closed") /\ UNCHANGED remoteOpen
    /\ UNCHANGED <<srv, lisOpen, qClosed, httpUp, ctxDone, stop, clientOpen, bridgeVars>>

(* handleConnect's splice goroutine waits for BOTH copies: client->remote *)
(* ends at the client's EOF, remote->client at the remote's; then it      *)
(* closes both conns and calls wg.Done.                                   *)
ConnectSpliceEnds(c) ==
    /\ st[c] = "htunnel"
    /\ ~clientOpen[c] /\ ~remoteOpen[c]
    /\ SetSt(c, "closed")
    /\ UNCHANGED <<srv, lisOpen, qClosed, httpUp, ctxDone, stop, clientOpen, remoteOpen, remote, bridgeVars, audit>>

(* handleHTTP: a bad URL or port, a policy deny or a round trip that      *)
(* fails before or after its DialContext dialled is audited deny and      *)
(* answered at once; a round trip that returns a response is audited      *)
(* allow, without the resolved address, and its body copied to the       *)
(* client.                                                                 *)
HttpRequest(c) ==
    /\ st[c] = "hhttp"
    /\ \/ SetSt(c, "closed") /\ Log(c, DenyEvent) /\ UNCHANGED <<remoteOpen, remote>>
       \/ \E r \in HttpReqs :
            LET t == URLTarget(r) IN
            /\ Dialled(c, t)
            /\ \/ SetSt(c, "hbody") /\ OpenRemote(c) /\ Log(c, AllowEvent(Dest(t), <<>>))
               \/ SetSt(c, "closed") /\ Log(c, DenyEvent) /\ UNCHANGED remoteOpen
    /\ UNCHANGED <<srv, lisOpen, qClosed, httpUp, ctxDone, stop, clientOpen, bridgeVars>>

(* io.Copy(w, resp.Body) returns at the body's end, when the remote is    *)
(* done; the handler returns and the conn is closed.                      *)
HttpBodyEnds(c) ==
    /\ st[c] = "hbody" /\ ~remoteOpen[c]
    /\ SetSt(c, "closed")
    /\ UNCHANGED <<srv, lisOpen, qClosed, httpUp, ctxDone, stop, clientOpen, remoteOpen, remote, bridgeVars, audit>>

-----------------------------------------------------------------------------
(* server.Shutdown returns once no handler is active.  Serve's <-httpErrCh *)
(* then holds no wait: http.Server.Serve returned when Shutdown closed    *)
(* its listener.                                                          *)
ShutdownDone ==
    /\ srv = "shutdown" /\ ActiveHandlers = {}
    /\ srv' = "wgwait"
    /\ UNCHANGED <<lisOpen, qClosed, httpUp, ctxDone, stop, st, clientOpen, remoteOpen, remote, bridgeVars, audit>>

(* server.Shutdown returns when its 2 s context expires, with handlers     *)
(* still running.                                                          *)
ShutdownNoDeadline == FALSE

ShutdownTimeout ==
    /\ srv = "shutdown" /\ ActiveHandlers # {}
    /\ srv' = "wgwait"
    /\ UNCHANGED <<lisOpen, qClosed, httpUp, ctxDone, stop, st, clientOpen, remoteOpen, remote, bridgeVars, audit>>

(* p.wg.Wait() returns when the counter is zero; Serve returns and the    *)
(* Instance goroutine closes done.                                        *)
WgWait ==
    /\ srv = "wgwait" /\ WgCount = 0
    /\ srv' = "done"
    /\ UNCHANGED <<lisOpen, qClosed, httpUp, ctxDone, stop, st, clientOpen, remoteOpen, remote, bridgeVars, audit>>

(* Instance.Stop, deferred by the driver after the sandbox exits: cancel   *)
(* the context, then wait on <-i.done.  The firecracker driver defers it  *)
(* before bridge.Stop, so it runs after the bridge has stopped.           *)
StopCalled ==
    /\ stop = "none"
    /\ Bridged # {} => bstop = "returned"
    /\ stop' = "waiting"
    /\ ctxDone' = TRUE
    /\ UNCHANGED <<srv, lisOpen, qClosed, httpUp, st, clientOpen, remoteOpen, remote, bridgeVars, audit>>

(* <-i.done returns; Stop removes the socket and returns. *)
StopReturns ==
    /\ stop = "waiting" /\ srv = "done"
    /\ stop' = "returned"
    /\ UNCHANGED <<srv, lisOpen, qClosed, httpUp, ctxDone, st, clientOpen, remoteOpen, remote, bridgeVars, audit>>

(* The sandboxed client closes its end of c. *)
ClientClose(c) ==
    /\ c \notin Bridged
    /\ clientOpen[c] /\ st[c] # "idle"
    /\ clientOpen' = [clientOpen EXCEPT ![c] = FALSE]
    /\ UNCHANGED <<srv, lisOpen, qClosed, httpUp, ctxDone, stop, st, remoteOpen, remote, bridgeVars, audit>>

(* The remote server closes its end of c. *)
RemoteClose(c) ==
    /\ remoteOpen[c]
    /\ remoteOpen' = [remoteOpen EXCEPT ![c] = FALSE]
    /\ UNCHANGED <<srv, lisOpen, qClosed, httpUp, ctxDone, stop, st, clientOpen, remote, bridgeVars, audit>>

-----------------------------------------------------------------------------
(* The vsock bridge (vsock_bridge.go).  Conns whose handler holds a slot  *)
(* of b.sem: from the accept until the goroutine's deferred release.      *)
InBridge == {c \in Conns : bst[c] \in {"dial", "copy"}}

(* serve: Accept a guest conn, then the select on b.sem: a free slot      *)
(* starts handleConn in a goroutine counted in wg; a full semaphore       *)
(* closes the conn.                                                        *)
BridgeAccept(c) ==
    /\ c \in Bridged /\ bst[c] = "none"
    /\ bsrv = "accept" /\ blisOpen
    /\ IF Cardinality(InBridge) < MaxVsockConns
         THEN bst' = [bst EXCEPT ![c] = "dial"] /\ UNCHANGED guestOpen
         ELSE bst' = [bst EXCEPT ![c] = "done"] /\ guestOpen' = [guestOpen EXCEPT ![c] = FALSE]
    /\ UNCHANGED <<srv, lisOpen, qClosed, httpUp, ctxDone, stop, st, clientOpen, remoteOpen, remote,
                   blisOpen, bctx, bsrv, bstop, audit>>

(* handleConn: net.Dial of the proxy socket; a failure closes the guest   *)
(* conn and the goroutine returns.                                         *)
BridgeDial(c) ==
    /\ bst[c] = "dial"
    /\ IF lisOpen
         THEN bst' = [bst EXCEPT ![c] = "copy"] /\ UNCHANGED guestOpen
         ELSE bst' = [bst EXCEPT ![c] = "done"] /\ guestOpen' = [guestOpen EXCEPT ![c] = FALSE]
    /\ UNCHANGED <<srv, lisOpen, qClosed, httpUp, ctxDone, stop, st, clientOpen, remoteOpen, remote,
                   blisOpen, bctx, bsrv, bstop, audit>>

BridgeCopyEndsBothWays(c) ==
    /\ bst[c] = "copy"
    /\ ~guestOpen[c] /\ (st[c] = "closed" \/ (st[c] = "idle" /\ ~lisOpen))
    /\ bst' = [bst EXCEPT ![c] = "done"]
    /\ guestOpen' = [guestOpen EXCEPT ![c] = FALSE]
    /\ clientOpen' = [clientOpen EXCEPT ![c] = FALSE]
    /\ UNCHANGED <<srv, lisOpen, qClosed, httpUp, ctxDone, stop, st, remoteOpen, remote,
                   blisOpen, bctx, bsrv, bstop, audit>>

(* The first copy ends: the guest closed, the proxy closed its side, or   *)
(* the proxy's listener closed with the dialled conn still in its          *)
(* backlog.  handleConn closes both conns, so the other copy ends too,    *)
(* and returns.                                                            *)
BridgeCopyEnds(c) ==
    /\ bst[c] = "copy"
    /\ ~guestOpen[c] \/ st[c] = "closed" \/ (st[c] = "idle" /\ ~lisOpen)
    /\ bst' = [bst EXCEPT ![c] = "done"]
    /\ guestOpen' = [guestOpen EXCEPT ![c] = FALSE]
    /\ clientOpen' = [clientOpen EXCEPT ![c] = FALSE]
    /\ UNCHANGED <<srv, lisOpen, qClosed, httpUp, ctxDone, stop, st, remoteOpen, remote,
                   blisOpen, bctx, bsrv, bstop, audit>>

(* The bridge's ctx (the driver's Run ctx) is canceled: deadline or       *)
(* directive cancel.                                                       *)
BridgeCtxCancel ==
    /\ ~bctx
    /\ bctx' = TRUE
    /\ UNCHANGED <<srv, lisOpen, qClosed, httpUp, ctxDone, stop, st, clientOpen, remoteOpen, remote,
                   bst, guestOpen, blisOpen, bsrv, bstop, audit>>

(* The goroutine that waits on ctx.Done closes the listener. *)
BridgeCtxWatch ==
    /\ bctx /\ blisOpen
    /\ blisOpen' = FALSE
    /\ UNCHANGED <<srv, lisOpen, qClosed, httpUp, ctxDone, stop, st, clientOpen, remoteOpen, remote,
                   bst, guestOpen, bctx, bsrv, bstop, audit>>

(* Accept fails on the closed listener: serve returns through its         *)
(* deferred wg.Wait.                                                       *)
BridgeAcceptFails ==
    /\ bsrv = "accept" /\ ~blisOpen
    /\ bsrv' = "wgwait"
    /\ UNCHANGED <<srv, lisOpen, qClosed, httpUp, ctxDone, stop, st, clientOpen, remoteOpen, remote,
                   bst, guestOpen, blisOpen, bctx, bstop, audit>>

(* wg.Wait returns when every handleConn has returned; done is closed. *)
BridgeWgWait ==
    /\ bsrv = "wgwait" /\ InBridge = {}
    /\ bsrv' = "done"
    /\ UNCHANGED <<srv, lisOpen, qClosed, httpUp, ctxDone, stop, st, clientOpen, remoteOpen, remote,
                   bst, guestOpen, blisOpen, bctx, bstop, audit>>

(* VsockBridge.Stop, deferred by the firecracker driver after the VM      *)
(* exited: cancel, then wait on <-b.done.                                  *)
BridgeStopCalled ==
    /\ Bridged # {} /\ bstop = "none"
    /\ bstop' = "waiting"
    /\ bctx' = TRUE
    /\ UNCHANGED <<srv, lisOpen, qClosed, httpUp, ctxDone, stop, st, clientOpen, remoteOpen, remote,
                   bst, guestOpen, blisOpen, bsrv, audit>>

BridgeStopReturns ==
    /\ bstop = "waiting" /\ bsrv = "done"
    /\ bstop' = "returned"
    /\ UNCHANGED <<srv, lisOpen, qClosed, httpUp, ctxDone, stop, st, clientOpen, remoteOpen, remote,
                   bst, guestOpen, blisOpen, bctx, bsrv, audit>>

(* The guest closes its end of vsock conn c (the VM exits at the latest). *)
GuestClose(c) ==
    /\ guestOpen[c] /\ bst[c] # "none"
    /\ guestOpen' = [guestOpen EXCEPT ![c] = FALSE]
    /\ UNCHANGED <<srv, lisOpen, qClosed, httpUp, ctxDone, stop, st, clientOpen, remoteOpen, remote,
                   bst, blisOpen, bctx, bsrv, bstop, audit>>

BridgeStep(c) == BridgeDial(c) \/ BridgeCopyEnds(c)

-----------------------------------------------------------------------------
(* The environment is done: Stop was called, and no client or remote has  *)
(* a side left to close.  Whether the proxy still makes progress is what  *)
(* the liveness properties check.                                          *)
Quiet ==
    /\ stop # "none"
    /\ Bridged # {} => bstop # "none"
    /\ \A c \in Conns : ~ENABLED (ClientClose(c) \/ RemoteClose(c) \/ GuestClose(c))
    /\ UNCHANGED vars

ProxyStep(c) ==
    \/ Route(c) \/ Socks(c) \/ SocksSpliceEnds(c) \/ HttpAccept(c)
    \/ Connect(c) \/ ConnectSpliceEnds(c) \/ HttpRequest(c) \/ HttpBodyEnds(c)

Next ==
    \/ AcceptFails \/ CtxWatch \/ HttpServeEnds
    \/ ShutdownDone \/ ShutdownTimeout \/ WgWait
    \/ StopCalled \/ StopReturns \/ Quiet
    \/ BridgeCtxCancel \/ BridgeCtxWatch \/ BridgeAcceptFails \/ BridgeWgWait
    \/ BridgeStopCalled \/ BridgeStopReturns
    \/ \E c \in Conns : Accept(c) \/ ProxyStep(c) \/ ClientClose(c) \/ RemoteClose(c)
    \/ \E c \in Conns : BridgeAccept(c) \/ BridgeStep(c) \/ GuestClose(c)

(* Every proxy and bridge goroutine step completes (peek has a 2 s        *)
(* deadline, dials 30 s), the Shutdown timer fires, and the sandbox side  *)
(* closes, as does the guest's: Stop is deferred until the sandboxed     *)
(* command, or the VM, has exited.  New connections, the ctx, Stop itself *)
(* and the remote server get no fairness.                                 *)
Fairness ==
    /\ WF_vars(AcceptFails) /\ WF_vars(CtxWatch) /\ WF_vars(HttpServeEnds)
    /\ WF_vars(ShutdownDone \/ ShutdownTimeout) /\ WF_vars(WgWait) /\ WF_vars(StopReturns)
    /\ \A c \in Conns : WF_vars(ProxyStep(c)) /\ WF_vars(ClientClose(c))
    /\ WF_vars(BridgeCtxWatch) /\ WF_vars(BridgeAcceptFails) /\ WF_vars(BridgeWgWait)
    /\ WF_vars(BridgeStopReturns)
    /\ \A c \in Conns : WF_vars(BridgeStep(c)) /\ WF_vars(GuestClose(c))

Spec == Init /\ [][Next]_vars /\ Fairness

-----------------------------------------------------------------------------
TypeOK ==
    /\ srv \in {"accept", "shutdown", "wgwait", "done"}
    /\ stop \in {"none", "waiting", "returned"}
    /\ st \in [Conns -> States]
    /\ lisOpen \in BOOLEAN /\ qClosed \in BOOLEAN /\ httpUp \in BOOLEAN
    /\ clientOpen \in [Conns -> BOOLEAN] /\ remoteOpen \in [Conns -> BOOLEAN]

(* Stop returns when only the remotes of the SOCKS5 and CONNECT tunnels,  *)
(* which p.wg counts, eventually close: a plain HTTP handler streaming a   *)
(* body that its remote never ends does not hold it, because              *)
(* server.Shutdown gives up after its 2 s timeout and the handler is not  *)
(* in p.wg.                                                                *)
StopReturnsDespiteHttpStreams ==
    (\A c \in Conns : WF_vars(RemoteClose(c) /\ st[c] \in {"stunnel", "htunnel"}))
        => (stop = "waiting" ~> stop = "returned")

StopReturnsAlways ==
    stop = "waiting" ~> stop = "returned"

(* The bridge's Stop returns whatever the remote servers do: handleConn   *)
(* closes both conns when the first direction ends, which the guest's     *)
(* close ends once the VM has exited, so serve's wg.Wait does not wait on *)
(* a tunnel the proxy keeps open.                                          *)
BridgeStopAlwaysReturns ==
    bstop = "waiting" ~> bstop = "returned"

(* Every connection the proxy dials for the sandbox, on the SOCKS5,       *)
(* CONNECT or plain HTTP path, goes to a destination the capability       *)
(* allows (AllowedDests, the spec's reading of Cap: exact host and port,  *)
(* "*.d" for subdomains of d only, IP literals never in an allowlist) at  *)
(* a public address (PublicIPs) that DNS returned for it.                 *)
EgressConfined ==
    \A c \in Conns :
        remote[c] # <<>> =>
            LET d == remote[c][1]  a == remote[c][2]
            IN  /\ d \in AllowedDests
                /\ a \in PublicIPs
                /\ \E i \in DOMAIN DNS[d.host].ips : DNS[d.host].ips[i] = a

(* Spec 4.2, Audit: the audit line of a connection says what the proxy    *)
(* did.  An allow is logged only for a connection the proxy dialled, and  *)
(* names the destination it dialled and, where it is logged, the address; *)
(* every connection being spliced or streaming a response has its allow   *)
(* line.  The handlers log after DialChecked and before the hijack or the *)
(* SOCKS5 reply.                                                           *)
AuditMatchesDial ==
    \A c \in Conns :
        /\ audit[c].decision = "allow" =>
               /\ remote[c] # <<>>
               /\ audit[c].dest = remote[c][1]
               /\ audit[c].ip \in {<<>>, remote[c][2]}
        /\ st[c] \in {"stunnel", "htunnel", "hbody"} => audit[c].decision = "allow"

(* Spec sections 2 and 8: IP literals are rejected when the allowlist is *)
(* parsed, so in allowlist mode the proxy never dials a destination the   *)
(* client gave as an IP address.  ParseAllowlistEntry's isIPLiteral test  *)
(* runs on the host before NormalizeHost strips its trailing dot.         *)
NoIPLiteralAllowlisted ==
    Policy.mode = "allowlist" =>
        \A c \in Conns :
            remote[c] # <<>> => ~IsIPv4Labels(NormalizeHost(remote[c][1].host).labels)

(* Once Stop has returned, the directive holds no connection to a remote  *)
(* server: Stop awaits the proxy's shutdown, so no handler dials or       *)
(* splices for a directive that has finished.                             *)
NothingAfterStop ==
    stop = "returned" => \A c \in Conns : ~remoteOpen[c]

=============================================================================
