------------------------------ MODULE CertLoader ------------------------------
(***************************************************************************)
(* The certificate loader of the reflector (cert_loader.go): it hooks      *)
(* d2i_X509 in the primary libcrypto, and a scanner goroutine (main.go,    *)
(* proc_scanner.go) looks for more of them in /proc/<pid>/maps every 30    *)
(* seconds.  main closes the loader on shutdown while the scanner may be   *)
(* in the middle of a scan; no lock protects attachedInodes.               *)
(*                                                                         *)
(* Processes, the file system and the kernel's probes are external.  A     *)
(* path is resolved anew by stat, by OpenExecutable and by the attachment  *)
(* of each probe, always in the reflector's own mount namespace.           *)
(***************************************************************************)
EXTENDS Integers, FiniteSets, Sequences

CONSTANTS
    Processes,
    Paths,
    Files,           \* libcrypto images
    None,
    Inode,           \* [Files -> inode numbers]; the device is not looked at
    LibPath,         \* [Processes -> Paths]: where a process has its libcrypto
    OwnFile,         \* [Processes -> Files \cup {None}]: its container's, if any
    Installed,       \* [Paths -> Files \cup {None}] at the start
    libCryptoPath,   \* the primary libcrypto
    MaxChanges,      \* bound: processes started, libraries replaced
    MaxFailures      \* bound: failing calls

Inodes == {Inode[f] : f \in Files}
Sides == {"entry", "return"}

ASSUME CertLoaderAssumption ==
    /\ None \notin Files \cup Paths \cup [Sides -> Files]
    /\ IsFiniteSet(Files)
    /\ LibPath \in [Processes -> Paths]
    /\ OwnFile \in [Processes -> Files \cup {None}]
    /\ Installed \in [Paths -> Files \cup {None}]
    /\ libCryptoPath \in Paths
    /\ MaxChanges \in Nat /\ MaxFailures \in Nat

VARIABLES
    proc,             \* the libcrypto each process has mapped
    hostfs,           \* what the reflector sees at each path
    probes,           \* live probes on each file
    attachedInodes,   \* inode -> the files its two links are attached to
    attach,           \* the call of AttachToExecutable in progress
    scanner,          \* the scanner goroutine
    main,             \* the main goroutine
    ctx,              \* the context of main
    swapped,          \* files a probe got onto although stat saw another
    budget            \* changes and failures so far

nodeVars == <<proc, hostfs>>
certVars == <<proc, hostfs, probes, attachedInodes, attach, scanner, main, ctx, swapped, budget>>

NoCall == [pc |-> "none", path |-> None, inode |-> None, link |-> [s \in Sides |-> None]]
Call(path) == [NoCall EXCEPT !.pc = "stat", !.path = path]

NoScan == [pc |-> "off", todo |-> {}, found |-> <<>>]

(* Load has loaded the programs, or could not.                             *)
CertLoaderInit ==
    /\ proc = [p \in Processes |-> None]
    /\ hostfs = Installed
    /\ probes = [f \in Files |-> [s \in Sides |-> 0]]
    /\ attachedInodes = [i \in Inodes |-> None]
    /\ scanner = NoScan
    /\ \/ main = [pc |-> "load", todo |-> {}] /\ attach = Call(libCryptoPath)
       \/ main = [pc |-> "failed", todo |-> {}] /\ attach = NoCall
    /\ ctx = "running"
    /\ swapped = {}
    /\ budget = [changes |-> 0, failures |-> 0]

-----------------------------------------------------------------------------
(* The node                                                                *)

Change ==
    /\ main.pc # "exited"
    /\ budget.changes < MaxChanges
    /\ budget' = [budget EXCEPT !.changes = @ + 1]
    /\ UNCHANGED <<probes, attachedInodes, attach, scanner, main, ctx, swapped>>

Start(p) ==
    /\ Change
    /\ proc[p] = None
    /\ LET own == IF OwnFile[p] # None THEN OwnFile[p] ELSE hostfs[LibPath[p]]
       IN  /\ own # None
           /\ proc' = [proc EXCEPT ![p] = own]
    /\ UNCHANGED hostfs

Exit(p) ==
    /\ proc[p] # None
    /\ proc' = [proc EXCEPT ![p] = None]
    /\ UNCHANGED <<hostfs, probes, attachedInodes, attach, scanner, main, ctx, swapped, budget>>

(* A library is installed, replaced or removed; who has it mapped keeps it.*)
Install(path, f) ==
    /\ Change
    /\ hostfs[path] # f
    /\ hostfs' = [hostfs EXCEPT ![path] = f]
    /\ UNCHANGED proc

-----------------------------------------------------------------------------
(* AttachToExecutable.  Load calls it, then the scanner: never both.       *)

(* objs.Close has not been called: there are programs to attach.           *)
Programs == main.pc \notin {"failed", "closed", "exited"}

(* Variant with a defect: links without a look at the table                *)
NeverAttached(inode) == FALSE

AlreadyAttached(inode) == attachedInodes[inode] # None

Stat ==
    /\ attach.pc = "stat"
    /\ LET f == hostfs[attach.path]
       IN  attach' = IF f = None THEN [attach EXCEPT !.pc = "error"]
                     ELSE IF AlreadyAttached(Inode[f]) THEN [attach EXCEPT !.pc = "ok"]
                     ELSE [attach EXCEPT !.pc = "open", !.inode = Inode[f]]
    /\ UNCHANGED <<nodeVars, probes, attachedInodes, scanner, main, ctx, swapped, budget>>

(* ensureExecutable and OpenExecutable                                     *)
Open ==
    /\ attach.pc = "open"
    /\ hostfs[attach.path] # None
    /\ attach' = [attach EXCEPT !.pc = "entry"]
    /\ UNCHANGED <<nodeVars, probes, attachedInodes, scanner, main, ctx, swapped, budget>>

(* Uprobe, then Uretprobe                                                  *)
Probe(side) ==
    LET f == hostfs[attach.path]
    IN  /\ attach.pc = side
        /\ Programs
        /\ f # None
        /\ probes' = [probes EXCEPT ![f][side] = @ + 1]
        /\ attach' = [attach EXCEPT !.pc = IF side = "entry" THEN "return" ELSE "record",
                                    !.link[side] = f]
        /\ swapped' = IF Inode[f] # attach.inode THEN swapped \cup {f} ELSE swapped
        /\ UNCHANGED <<nodeVars, attachedInodes, scanner, main, ctx, budget>>

(* Variant with a defect: a failure leaves the entry probe where it is.    *)
AfterFailureKeep == probes

(* up.Close if the return probe could not be attached                      *)
AfterFailure ==
    IF attach.link["entry"] # None
    THEN [probes EXCEPT ![attach.link["entry"]]["entry"] = @ - 1] ELSE probes

(* Variant with a defect: the inode is noted before the probes are on it.  *)
TableAfterFailureNoted ==
    [attachedInodes EXCEPT ![attach.inode] = [s \in Sides |-> hostfs[attach.path]]]

TableAfterFailure == attachedInodes

(* A call fails, because the file is gone, the programs are, or otherwise. *)
AttachFails ==
    /\ attach.pc \in {"open"} \cup Sides
    /\ \/ /\ hostfs[attach.path] = None \/ (attach.pc \in Sides /\ ~Programs)
          /\ UNCHANGED budget
       \/ /\ budget.failures < MaxFailures
          /\ budget' = [budget EXCEPT !.failures = @ + 1]
    /\ probes' = AfterFailure
    /\ attachedInodes' = TableAfterFailure
    /\ attach' = [attach EXCEPT !.pc = "error", !.link = NoCall.link]
    /\ UNCHANGED <<nodeVars, scanner, main, ctx, swapped>>

Record ==
    /\ attach.pc = "record"
    /\ attachedInodes' = [attachedInodes EXCEPT ![attach.inode] = attach.link]
    /\ attach' = [NoCall EXCEPT !.pc = "ok"]
    /\ UNCHANGED <<nodeVars, probes, scanner, main, ctx, swapped, budget>>

Attaching == Stat \/ Open \/ (\E s \in Sides : Probe(s)) \/ AttachFails \/ Record

-----------------------------------------------------------------------------
(* runLibCryptoScanner and ScanProcForLibCrypto                            *)

Running == {p \in Processes : proc[p] # None}

(* The first scan, and those the ticker starts; select may choose it over  *)
(* a cancelled context.                                                    *)
Glob ==
    /\ scanner.pc \in {"scan", "wait"}
    /\ scanner' = [pc |-> "maps", todo |-> Running, found |-> <<>>]
    /\ UNCHANGED <<nodeVars, probes, attachedInodes, attach, main, ctx, swapped, budget>>

FoundInodes == {scanner.found[i].inode : i \in DOMAIN scanner.found}

(* scanMapsFile: the path in the process's maps, the inode the reflector's *)
(* stat gives for it.  A process that ended meanwhile is skipped.          *)
ReadMaps(p) ==
    LET f == hostfs[LibPath[p]]
        listed == proc[p] # None /\ f # None /\ Inode[f] \notin FoundInodes
    IN  /\ scanner.pc = "maps"
        /\ p \in scanner.todo
        /\ scanner' = [scanner EXCEPT !.todo = @ \ {p},
              !.found = IF listed THEN Append(@, [path |-> LibPath[p], inode |-> Inode[f]]) ELSE @]
        /\ UNCHANGED <<nodeVars, probes, attachedInodes, attach, main, ctx, swapped, budget>>

(* The next instance; errors of AttachToExecutable are logged.             *)
NextInstance ==
    /\ scanner.pc = "maps"
    /\ scanner.todo = {}
    /\ attach.pc \in {"none", "ok", "error"}
    /\ IF scanner.found = <<>>
       THEN /\ scanner' = [scanner EXCEPT !.pc = "wait"]
            /\ attach' = NoCall
       ELSE /\ scanner' = [scanner EXCEPT !.found = Tail(@)]
            /\ attach' = Call(Head(scanner.found).path)
    /\ UNCHANGED <<nodeVars, probes, attachedInodes, main, ctx, swapped, budget>>

ScannerEnds ==
    /\ scanner.pc = "wait"
    /\ ctx = "cancelled"
    /\ scanner' = [scanner EXCEPT !.pc = "off"]
    /\ UNCHANGED <<nodeVars, probes, attachedInodes, attach, main, ctx, swapped, budget>>

Scanner ==
    \/ Glob
    \/ \E p \in Processes : ReadMaps(p)
    \/ NextInstance
    \/ ScannerEnds
    \/ scanner.pc # "off" /\ Attaching

-----------------------------------------------------------------------------
(* main: Load, the wait for a signal, Close                                *)

(* A link is closed by the call that made it or by closeLinks.             *)
Closed(links) == [f \in Files |-> [s \in Sides |-> probes[f][s] - (IF links[s] = f THEN 1 ELSE 0)]]

Without(inode) == [attachedInodes EXCEPT ![inode] = None]

Attached == {i \in Inodes : attachedInodes[i] # None}

LoadAttached ==
    /\ main.pc = "load"
    /\ attach.pc = "ok"
    /\ main' = [main EXCEPT !.pc = "reader"]
    /\ attach' = NoCall
    /\ UNCHANGED <<nodeVars, probes, attachedInodes, scanner, ctx, swapped, budget>>

LoadFails ==
    /\ main.pc = "load"
    /\ attach.pc = "error"
    /\ main' = [main EXCEPT !.pc = "failed"]
    /\ attach' = NoCall
    /\ UNCHANGED <<nodeVars, probes, attachedInodes, scanner, ctx, swapped, budget>>

(* NewReader; the loops and the scanner are started.                       *)
OpenReader ==
    /\ main.pc = "reader"
    /\ main' = [main EXCEPT !.pc = "running"]
    /\ scanner' = [scanner EXCEPT !.pc = "scan"]
    /\ UNCHANGED <<nodeVars, probes, attachedInodes, attach, ctx, swapped, budget>>

(* It fails: closeLinks and objs.Close.  Nobody else has the loader yet.   *)
ReaderFails ==
    /\ main.pc = "reader"
    /\ budget.failures < MaxFailures
    /\ budget' = [budget EXCEPT !.failures = @ + 1]
    /\ main' = [main EXCEPT !.pc = "failed"]
    /\ probes' = [f \in Files |-> [s \in Sides |-> 0]]
    /\ attachedInodes' = [i \in Inodes |-> None]
    /\ UNCHANGED <<nodeVars, attach, scanner, ctx, swapped>>

Cancel ==
    /\ ctx = "running"
    /\ ctx' = "cancelled"
    /\ UNCHANGED <<nodeVars, probes, attachedInodes, attach, scanner, main, swapped, budget>>

(* The metrics server is down; Close runs closeLinks over what is there.   *)
BeginClose ==
    /\ main.pc = "running"
    /\ ctx = "cancelled"
    /\ main' = [pc |-> "closing", todo |-> Attached]
    /\ UNCHANGED <<nodeVars, probes, attachedInodes, attach, scanner, ctx, swapped, budget>>

(* An inode that is added meanwhile may be visited or not.                 *)
CloseLinks(i) ==
    /\ main.pc = "closing"
    /\ i \in Attached
    /\ probes' = Closed(attachedInodes[i])
    /\ attachedInodes' = Without(i)
    /\ main' = [main EXCEPT !.todo = @ \ {i}]
    /\ UNCHANGED <<nodeVars, attach, scanner, ctx, swapped, budget>>

(* objs.Close                                                              *)
Unload ==
    /\ main.pc = "closing"
    /\ main.todo = {}
    /\ main' = [main EXCEPT !.pc = "closed"]
    /\ UNCHANGED <<nodeVars, probes, attachedInodes, attach, scanner, ctx, swapped, budget>>

(* The kernel takes back what the process had.                             *)
Gone ==
    /\ probes' = [f \in Files |-> [s \in Sides |-> 0]]
    /\ attachedInodes' = [i \in Inodes |-> None]
    /\ attach' = NoCall
    /\ scanner' = NoScan
    /\ main' = [pc |-> "exited", todo |-> {}]
    /\ UNCHANGED <<nodeVars, ctx, swapped, budget>>

ProcessExits ==
    /\ main.pc \in {"closed", "failed"}
    /\ ctx = "cancelled"
    /\ Gone

(* Go ends the process when it notices that a map is read or written by    *)
(* one goroutine while another one writes it or iterates over it.          *)
FatalMapRace ==
    /\ main.pc = "closing"
    /\ attach.pc \in {"stat", "record"}
    /\ Gone

Main ==
    \/ main.pc = "load" /\ Attaching
    \/ LoadAttached \/ LoadFails \/ OpenReader \/ ReaderFails
    \/ BeginClose \/ (\E i \in Inodes : CloseLinks(i)) \/ Unload \/ ProcessExits

CertLoaderNext ==
    \/ \E p \in Processes : Start(p) \/ Exit(p)
    \/ \E path \in Paths, f \in Files \cup {None} : Install(path, f)
    \/ Main
    \/ Scanner
    \/ FatalMapRace
    \/ Cancel

CertLoaderSpec == CertLoaderInit /\ [][CertLoaderNext]_certVars

(* Both goroutines go on when they can, and the ticker fires.              *)
FairCertLoaderSpec ==
    CertLoaderSpec /\ WF_certVars(Main) /\ WF_certVars(Scanner)

=============================================================================
