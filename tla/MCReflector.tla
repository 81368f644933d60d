---------------------------- MODULE MCReflector ----------------------------
EXTENDS ReflectorSafety

CONSTANTS p1, p2, pid1, pod, host, svid, evil, bare, odd, call, c1, c2

(* A process of a pod, and one elsewhere that is given its PID once it is  *)
(* free                                                                    *)
PIDs == [p \in {p1, p2} |-> pid1]
Namespaces == p1 :> pod @@ p2 :> host

(* A server of the first process and a client of the second.  The keys     *)
(* differ from the bytes of a packet.                                      *)
Sockets ==
    c1 :> [family |-> "inet", ns |-> pod, proc |-> p1, role |-> "server",
           src |-> <<10, 0, 0, 1>>, sport |-> <<31, 144>>, dst |-> <<10, 0, 0, 3>>, dport |-> <<200, 7>>] @@
    c2 :> [family |-> "inet", ns |-> host, proc |-> p2, role |-> "client",
           src |-> <<10, 0, 1, 1>>, sport |-> <<200, 2>>, dst |-> <<10, 0, 0, 2>>, dport |-> <<1, 187>>]

(* Certificates of a trusted and of an untrusted domain, one with the      *)
(* trusted domain and no path, and one the policy file below spoils.  As   *)
(* plaintext, the first buffer is an OTLP export over gRPC and the second  *)
(* one over HTTP, each with two entries; the last is a request with a      *)
(* token and a tool call.                                                  *)
Entry(tag, end, service) == [tag |-> tag, end |-> end, service |-> service]
OTLPEntries == <<Entry(1, 3, "a"), Entry(4, 6, "b")>>
Message(path, length) ==
    [path |-> path, line |-> 2, header |-> 4, length |-> length, frame |-> 6,
     entries |-> OTLPEntries, marks |-> {}]
Contents ==
    svid :> Message("grpc", 11) @@ evil :> Message("http", 6) @@
    bare :> Message("other", 0) @@ odd :> Message("other", 0) @@
    call :> [Message("other", 3) EXCEPT !.marks = {[kind |-> "JWT", seen |-> 3],
                                                   [kind |-> "MCP", seen |-> 7]}]
Ids ==
    call :> None @@ svid :> "spiffe://cluster.local/a" @@ evil :> "spiffe://evil.corp/b" @@
    bare :> "spiffe://cluster.local" @@ odd :> "spiffe://cluster.local/c"
Domains ==
    "spiffe://cluster.local/a" :> "cluster.local" @@ "spiffe://evil.corp/b" :> "evil.corp" @@
    "spiffe://cluster.local" :> "cluster.local" @@ "spiffe://cluster.local/c" :> "cluster.local"

(* A policy file: default.rego with a rule that misspells allow for one ID *)
Misspelt ==
    [x \in (DOMAIN Domains) \X {pid1} |->
        Decision(IF x[1] = Ids[odd] THEN "unset" ELSE IF deny(x[1]) = {} THEN "true" ELSE "false")]

(* Exports that are complete or cut by the capture limit, in the prefix or *)
(* in the body, and a call with a token; a trusted and two refused         *)
(* certificates, and one that is too long                                  *)
Seen(b, n, orig) == [pid |-> pid1, buf |-> b, len |-> n, orig |-> orig]
Requests ==
    {Seen(call, 7, 7), Seen(evil, 10, 10), Seen(evil, 8, 10), Seen(svid, 15, 15), Seen(svid, 7, 15)}
Certs == {Seen(svid, 2, 2), Seen(bare, 2, 2), Seen(odd, 2, 2), Seen(evil, 2, 3)}
=============================================================================
