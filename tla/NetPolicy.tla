----------------------------- MODULE NetPolicy -----------------------------
(***************************************************************************)
(* The network policy of a directive: allowlist parsing and matching      *)
(* (src/nexus/netpolicy/allowlist.go), the private-address check          *)
(* (netpolicy/ipcheck.go) and the Policy the egress proxy enforces        *)
(* (egressproxy/policy.go).  All of it is pure; the proxy's handlers call *)
(* it.                                                                      *)
(*                                                                         *)
(* A host string is abstracted to what the code looks at: a leading "*.", *)
(* its dot-separated labels, a trailing ".", upper-case letters, and a   *)
(* ":" or brackets (an IPv6 form).  An IPv4 address is a 4-tuple of       *)
(* octets.                                                                 *)
(***************************************************************************)
EXTENDS Naturals, Sequences, SequencesExt

(* The labels that are a decimal octet. *)
Octets == {ToString(n) : n \in 0..255}

(* A host string, for the MC modules to write constants with. *)
Host(labels, wild, dot, upper, colon) ==
    [labels |-> labels, wild |-> wild, dot |-> dot, upper |-> upper, colon |-> colon]

(* A string host ":" port with a numeric port part.  Other forms set     *)
(* portPart to "nan" where Atoi fails, "empty" where nothing follows the  *)
(* ":" and "none" where there is no ":".                                   *)
Raw(host, port) == [host |-> host, portPart |-> "digits", port |-> port]

(* Four numeric labels: what net.ParseIP accepts as an IPv4 address. *)
IsIPv4Labels(l) == Len(l) = 4 /\ \A i \in 1..4 : l[i] \in Octets

(* NormalizeHost: TrimSpace, TrimSuffix("."), ToLower. *)
NormalizeHost(h) == [h EXCEPT !.dot = FALSE, !.upper = FALSE]

(* isIPLiteral(hostPart): brackets or a ":", or net.ParseIP succeeds,     *)
(* which it does not on a string with "*." in front or a "." behind.      *)
IsIPLiteral(h) == h.colon \/ (~h.wild /\ ~h.dot /\ IsIPv4Labels(h.labels))

(* hostRe: "localhost", or an optional "*." and at least two non-empty   *)
(* labels.  A trailing "." or a ":" leaves an empty or invalid label.     *)
HostReMatches(h) ==
    /\ ~h.colon /\ ~h.dot
    /\ \/ h.labels = <<"localhost">> /\ ~h.wild
       \/ Len(h.labels) >= 2

(* ParseAllowlistEntry(raw). *)
ParseAllowlistEntry(raw) ==
    LET wildcard == raw.host.wild
        host     == NormalizeHost([raw.host EXCEPT !.wild = FALSE])
        cand     == [host EXCEPT !.wild = wildcard]
    IN  IF \/ raw.portPart # "digits" \/ raw.host.labels = <<>>
           \/ raw.port \notin 1..65535
           \/ IsIPLiteral(raw.host)
           \/ ~HostReMatches(cand)
          THEN [ok |-> FALSE]
          ELSE [ok |-> TRUE, host |-> host.labels, port |-> raw.port, wildcard |-> wildcard]

(* Match: ports equal, then an exact host, or for "*.d" a host ending in  *)
(* ".d" that is not d itself.                                              *)
Match(entry, destHost, destPort) ==
    LET h == NormalizeHost(destHost).labels
    IN  /\ destPort = entry.port
        /\ IF entry.wildcard THEN IsStrictSuffix(entry.host, h) ELSE h = entry.host

(* NewPolicy(cap): a nil cap (mode "nil" here) is mode none; in allowlist *)
(* mode every entry must parse, or NewPolicy fails.                        *)
NewPolicy(cap) ==
    IF cap.mode = "nil" THEN [ok |-> TRUE, mode |-> "none", entries |-> {}]
    ELSE LET parsed == {ParseAllowlistEntry(cap.allow[i]) : i \in DOMAIN cap.allow}
         IN  IF cap.mode = "allowlist" /\ \E r \in parsed : ~r.ok
               THEN [ok |-> FALSE]
               ELSE [ok |-> TRUE, mode |-> cap.mode,
                     entries |-> IF cap.mode = "allowlist" THEN parsed ELSE {}]

(* Policy.Check(destHost, destPort): whether the mode and entries allow it. *)
Check(policy, destHost, destPort) ==
    CASE policy.mode = "unrestricted" -> TRUE
      [] policy.mode = "allowlist"    -> \E e \in policy.entries : Match(e, destHost, destPort)
      [] OTHER                        -> FALSE

(* privateCIDRs (IPv4 part), with IsLoopback, IsLinkLocalUnicast and      *)
(* IsLinkLocalMulticast: network and prefix length.                       *)
PrivateCIDRs ==
    { <<<<0, 0, 0, 0>>, 8>>, <<<<10, 0, 0, 0>>, 8>>, <<<<172, 16, 0, 0>>, 12>>,
      <<<<192, 168, 0, 0>>, 16>>, <<<<127, 0, 0, 0>>, 8>>, <<<<169, 254, 0, 0>>, 16>>,
      <<<<100, 64, 0, 0>>, 10>>, <<<<224, 0, 0, 0>>, 4>>, <<<<240, 0, 0, 0>>, 4>>,
      <<<<224, 0, 0, 0>>, 24>> }

(* net.IPNet.Contains: the first len bits of ip equal those of net. *)
CIDRContains(cidr, ip) ==
    \A k \in 1..4 :
        LET bits == IF cidr[2] >= 8 * k THEN 8
                    ELSE IF cidr[2] <= 8 * (k - 1) THEN 0 ELSE cidr[2] - 8 * (k - 1)
        IN  ip[k] \div 2^(8 - bits) = cidr[1][k] \div 2^(8 - bits)

(* IsPrivateIP of a non-nil address (LookupIP returns no nil entries). *)
IsPrivateIP(ip) == \E cidr \in PrivateCIDRs : CIDRContains(cidr, ip)

ResolveReturnsFirst(lookup) ==
    LET pub == {i \in DOMAIN lookup.ips : ~IsPrivateIP(lookup.ips[i])}
    IN  IF lookup.err \/ pub = {} THEN [ok |-> FALSE]
        ELSE [ok |-> TRUE, ip |-> lookup.ips[1]]

(* ResolveAndCheck on what LookupIP returned (an error, or addresses): a  *)
(* lookup error or no public address is DNS_DENIED; otherwise the first  *)
(* public address.                                                         *)
ResolveAndCheck(lookup) ==
    LET pub == {i \in DOMAIN lookup.ips : ~IsPrivateIP(lookup.ips[i])}
    IN  IF lookup.err \/ pub = {} THEN [ok |-> FALSE]
        ELSE [ok |-> TRUE, ip |-> lookup.ips[Min(pub)]]

=============================================================================
