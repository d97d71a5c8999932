--------------------------- MODULE MCEgressProxy ---------------------------
EXTENDS EgressProxy

CONSTANTS c1, c2, c3

\* one connection straight from the sandbox and one through the vsock
\* bridge, whose semaphore has one slot; c3 is unused.  A second bridged
\* connection, which would find the slot taken, makes the run too long
MCConns == {c1, c2}
MCBridged == {c2}
MCMaxVsockConns == 1

\* destination hosts as the client sends them
HostA    == Host(<<"a", "ex", "com">>, FALSE, FALSE, FALSE, FALSE)   \* a.ex.com
HostB    == Host(<<"b", "ex", "com">>, FALSE, FALSE, FALSE, FALSE)   \* b.ex.com
HostApex == Host(<<"ex", "com">>, FALSE, FALSE, FALSE, FALSE)        \* ex.com
HostApi  == Host(<<"api", "ex", "org">>, FALSE, FALSE, TRUE, FALSE)  \* API.EX.ORG
HostIP   == Host(<<"1", "1", "1", "1">>, FALSE, FALSE, FALSE, FALSE)         \* 1.1.1.1

\* allow: ["*.ex.com:443", "api.ex.org.:80"]
MCCap ==
    [mode  |-> "allowlist",
     allow |-> << Raw(Host(<<"ex", "com">>, TRUE, FALSE, FALSE, FALSE), 443),
                  Raw(Host(<<"api", "ex", "org">>, FALSE, TRUE, FALSE, FALSE), 80) >>]

\* the same with "1.1.1.1.:443" added
MCCapIPEntry ==
    [MCCap EXCEPT !.allow = Append(@, Raw(Host(<<"1", "1", "1", "1">>, FALSE, TRUE, FALSE, FALSE), 443))]

MCDests ==
    { [host |-> HostA, port |-> 443], [host |-> HostA, port |-> 80],
      [host |-> HostB, port |-> 443], [host |-> HostApex, port |-> 443],
      [host |-> HostApi, port |-> 80], [host |-> HostIP, port |-> 443] }

\* the empty host name
NoHost == Host(<<>>, FALSE, FALSE, FALSE, FALSE)

Form(h, part, p) == [host |-> h, portPart |-> part, port |-> p]

\* CONNECT r.Host: every destination, then "a.ex.com" (port 443 by
\* default), ":443", "a.ex.com:" and "a.ex.com:0"
MCConnectReqs ==
    {Raw(d.host, d.port) : d \in MCDests}
        \cup {Form(HostA, "none", 0), Form(NoHost, "digits", 443),
              Form(HostA, "empty", 0), Form(HostA, "digits", 0)}

\* plain HTTP URLs: every destination, then http://a.ex.com/ (port 80), an
\* origin-form request, http://:443/ and http://a.ex.com:0/
MCHttpReqs ==
    {Raw(d.host, d.port) : d \in MCDests}
        \cup {Form(HostA, "none", 0), Form(NoHost, "none", 0),
              Form(NoHost, "digits", 443), Form(HostA, "digits", 0)}

Socks5(cmd, atyp, h, bad, p) == [cmd |-> cmd, atyp |-> atyp, host |-> h, bad |-> bad, port |-> p]

\* SOCKS5: CONNECT to every destination, then BIND, an IPv4 address, a
\* host with a space and port 0
MCSocksReqs ==
    {Socks5("connect", "domain", d.host, FALSE, d.port) : d \in MCDests}
        \cup {Socks5("bind", "domain", HostA, FALSE, 443), Socks5("connect", "ipv4", NoHost, FALSE, 443),
              Socks5("connect", "domain", HostA, TRUE, 443), Socks5("connect", "domain", HostA, FALSE, 0)}

\* a.ex.com: a private then a public address; b.ex.com: only addresses
\* at the edges of private ranges; API.EX.ORG: just past 172.16.0.0/12;
\* the empty name does not resolve
MCDNS ==
    [h \in {HostA, HostB, HostApex, HostApi, HostIP, NoHost} |->
        CASE h = HostA    -> [err |-> FALSE, ips |-> << <<10, 0, 0, 1>>, <<8, 8, 8, 8>> >>]
          [] h = HostB    -> [err |-> FALSE, ips |-> << <<100, 64, 0, 1>>, <<172, 31, 255, 255>> >>]
          [] h = HostApex -> [err |-> FALSE, ips |-> << <<8, 8, 4, 4>> >>]
          [] h = HostApi  -> [err |-> FALSE, ips |-> << <<172, 32, 0, 1>> >>]
          [] h = HostIP   -> [err |-> FALSE, ips |-> << <<1, 1, 1, 1>> >>]
          [] h = NoHost   -> [err |-> TRUE, ips |-> << >>]]

\* by RFC 1918, 1122, 5735 and 6598
MCPublicIPs == { <<8, 8, 8, 8>>, <<8, 8, 4, 4>>, <<172, 32, 0, 1>>, <<1, 1, 1, 1>> }

\* spec sections 2 and 4.2: "*.ex.com" matches a.ex.com and b.ex.com but not
\* ex.com, only on 443; api.ex.org matches API.EX.ORG on 80
MCAllowedDests ==
    { [host |-> HostA, port |-> 443], [host |-> HostB, port |-> 443],
      [host |-> HostApi, port |-> 80] }

=============================================================================
