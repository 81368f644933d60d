---------------------------- MODULE Enforcement ----------------------------
(***************************************************************************)
(* Enforcement of a policy decision: the connections of a process as       *)
(* /proc/<pid>/net/tcp shows them (proc_conn.go), the deny map the TC      *)
(* loader writes (tc_loader.go) and the classifier that looks every packet *)
(* up in it (tc_drop.c).  Processes come and go, and the kernel gives the  *)
(* PID of one that has exited to another.                                  *)
(*                                                                         *)
(* Addresses and ports are sequences of bytes in network order.  Go and    *)
(* the BPF program share the memory of a key, so an integer field stands   *)
(* for the bytes a little-endian machine stores it as: the build has       *)
(* little-endian targets only.                                             *)
(***************************************************************************)
EXTENDS Integers, Sequences, FiniteSets, SequencesExt

CONSTANTS
    Processes,
    PID,        \* [Processes -> the PID each has while it is alive]
    NetNS,      \* [Processes -> network namespaces]
    Running,    \* processes older than the reflector
    Conns,      \* TCP connections
    Sock,       \* [Conns -> the socket: family, ns, proc, role, addresses]
    Existing,   \* connections older than the reflector
    MaxDeny     \* max_entries of the deny map

ASSUME EnforcementAssumption ==
    /\ MaxDeny \in Nat \ {0}
    /\ Running \subseteq Processes
    /\ \A p, q \in Running : PID[p] = PID[q] => p = q
    /\ Existing \subseteq {c \in Conns : Sock[c].proc \in Running}
    /\ \A c \in Conns : Sock[c].proc \in Processes /\ Sock[c].ns = NetNS[Sock[c].proc]

VARIABLES
    alive,     \* processes that run
    born,      \* when each was started, 0 before; no code keeps it
    starts,    \* the last start
    tcp,       \* state of each connection
    denyMap    \* keys in the deny map, as bytes

procVars == <<alive, born, starts>>
enforceVars == <<alive, born, starts, tcp, denyMap>>

Byte == 256

EnforcementInit ==
    /\ alive = Running
    /\ born = [p \in Processes |-> IF p \in Running THEN 1 ELSE 0]
    /\ starts = 1
    /\ tcp = [c \in Conns |-> IF c \in Existing THEN "ESTABLISHED" ELSE "CLOSED"]
    /\ denyMap = {}

-----------------------------------------------------------------------------
(* Conversions                                                             *)

(* binary.BigEndian.Uint32, Uint16                                         *)
BigEndian(bytes) == FoldLeft(LAMBDA acc, b : acc * Byte + b, 0, bytes)

(* The bytes of an integer of n bytes in memory                            *)
InMemory(v, n) == [i \in 1 .. n |-> (v \div Byte ^ (i - 1)) % Byte]

(* The kernel prints the u32 it holds in network order as a host integer.  *)
ProcNetTCP(bytes) == Reverse(bytes)

parseHexAddr(hex) == Reverse(hex)

-----------------------------------------------------------------------------
(* /proc/<pid>/net/tcp lists the IPv4 sockets of the network namespace of  *)
(* whoever has the PID now; if nobody has, there is no such file.          *)
ConnsByPID(pid) ==
    {c \in Conns : /\ tcp[c] = "ESTABLISHED" /\ Sock[c].family = "inet"
                   /\ \E p \in alive : PID[p] = pid /\ Sock[c].ns = NetNS[p]}

TCPConn(c) ==
    [src |-> parseHexAddr(ProcNetTCP(Sock[c].src)),
     dst |-> parseHexAddr(ProcNetTCP(Sock[c].dst)),
     dport |-> BigEndian(Sock[c].dport)]

makeFlowKey(conn) ==
    [src |-> InMemory(BigEndian(conn.src), 4),
     dst |-> InMemory(BigEndian(conn.dst), 4),
     dport |-> InMemory(conn.dport, 2)]

(* The LRU map makes room for a new key by dropping one it holds.          *)
Put(key) ==
    IF key \in denyMap \/ Cardinality(denyMap) < MaxDeny
    THEN denyMap' = denyMap \cup {key}
    ELSE \E victim \in denyMap : denyMap' = (denyMap \ {victim}) \cup {key}

DenyFlow(conn) == Put(makeFlowKey(conn))

-----------------------------------------------------------------------------
(* A packet of a connection, as the classifier sees it on its way out of   *)
(* the node or in                                                          *)
PacketOf(c, direction) ==
    IF direction = "egress"
    THEN [family |-> Sock[c].family, src |-> Sock[c].src, dst |-> Sock[c].dst, dport |-> Sock[c].dport]
    ELSE [family |-> Sock[c].family, src |-> Sock[c].dst, dst |-> Sock[c].src, dport |-> Sock[c].sport]

(* check_and_drop: anything but TCP over IPv4 passes.                      *)
check_and_drop(p) ==
    IF /\ p.family = "inet"
       /\ [src |-> p.src, dst |-> p.dst, dport |-> p.dport] \in denyMap
    THEN "TC_ACT_SHOT" ELSE "TC_ACT_OK"

=============================================================================
