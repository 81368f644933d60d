-------------------------- MODULE CertLoaderProofs --------------------------
(***************************************************************************)
(* Proofs about the certificate loader for any processes, libraries and    *)
(* inode numbers, any number of changes to the node and of failing calls.  *)
(* The argument: a call that is past its stat works for an inode that the  *)
(* table has no links for, and nobody else adds links meanwhile (Load and  *)
(* the scanner never run at the same time).  So Record overwrites nothing, *)
(* and probes can be counted: those of the table and those in hand.        *)
(***************************************************************************)
EXTENDS CertLoaderSafety, SequenceTheorems, FiniteSetTheorems, TLAPS

LinkPairs == [Sides -> Files]

Calls ==
    [pc : {"none", "stat", "open", "entry", "return", "record", "ok", "error"},
     path : Paths \cup {None}, inode : Inodes \cup {None},
     link : [Sides -> Files \cup {None}]]

Instances == [path : Paths, inode : Inodes]

LoaderTypeOK ==
    /\ hostfs \in [Paths -> Files \cup {None}]
    /\ probes \in [Files -> [Sides -> Int]]
    /\ attachedInodes \in [Inodes -> LinkPairs \cup {None}]
    /\ attach \in Calls
    /\ scanner \in [pc : {"off", "scan", "maps", "wait"}, todo : SUBSET Processes,
                    found : Seq(Instances)]
    /\ main \in [pc : {"load", "failed", "reader", "running", "closing", "closed", "exited"},
                 todo : SUBSET Inodes]
    /\ swapped \subseteq Files

(* Where a call of AttachToExecutable is, and what it has in hand          *)
CallSound ==
    /\ attach.pc \in {"stat", "open", "entry", "return", "record"} => attach.path \in Paths
    /\ attach.pc \in {"open", "entry", "return", "record"} =>
          attach.inode \in Inodes /\ attachedInodes[attach.inode] = None
    /\ attach.link["entry"] # None <=> attach.pc \in {"return", "record"}
    /\ attach.link["return"] # None <=> attach.pc = "record"

(* Until Load is done there is no scanner                                  *)
LoadAlone ==
    /\ main.pc \in {"load", "reader"} => scanner.pc = "off"
    /\ main.pc = "reader" => attach = NoCall

(* Links are on the image whose inode number stat saw, or it was swapped   *)
OnItsInode ==
    \A f \in Files, s \in Sides : f \notin swapped =>
        /\ Owners(f, s) \subseteq {Inode[f]}
        /\ attach.link[s] = f => attach.inode = Inode[f]

LoaderInv == LoaderTypeOK /\ CallSound /\ LoadAlone /\ LinksAccounted /\ OnItsInode

-----------------------------------------------------------------------------
LEMMA NoneApart == None \notin Files /\ None \notin Paths /\ None \notin LinkPairs
  BY CertLoaderAssumption DEF LinkPairs

LEMMA InodeOf == \A f \in Files : Inode[f] \in Inodes
  BY DEF Inodes

LEMMA InodesFinite == IsFiniteSet(Inodes)
  <1> DEFINE g == [f \in Files |-> Inode[f]]
  <1>1. g \in Surjection(Files, Inodes)
    BY DEF Surjection, Inodes
  <1> QED BY <1>1, FS_Surjection, CertLoaderAssumption

LEMMA OwnersFinite ==
    ASSUME NEW f, NEW s
    PROVE  IsFiniteSet(Owners(f, s)) /\ Cardinality(Owners(f, s)) \in Nat
  <1>1. Owners(f, s) \in SUBSET Inodes
    BY DEF Owners
  <1>2. IsFiniteSet(Owners(f, s))
    BY <1>1, InodesFinite, FS_Subset
  <1> QED BY <1>2, FS_CardinalityType

LEMMA NoCallFacts ==
    /\ NoCall \in Calls /\ NoCall.pc = "none" /\ \A s \in Sides : NoCall.link[s] = None
    /\ \A p \in Paths : /\ Call(p) \in Calls /\ Call(p).pc = "stat" /\ Call(p).path = p
                        /\ \A s \in Sides : Call(p).link[s] = None
  BY DEF NoCall, Call, Calls, Sides

(* A step that leaves the probes and the links alone keeps the accounts    *)
LEMMA AccountsStay ==
    ASSUME LoaderInv, UNCHANGED <<probes, attachedInodes, swapped>>,
           \A s \in Sides : attach'.link[s] = attach.link[s],
           \A s \in Sides : attach.link[s] # None => attach'.inode = attach.inode
    PROVE  LinksAccounted' /\ OnItsInode'
  <1>1. \A f, s : Owners(f, s)' = Owners(f, s)
    BY DEF Owners
  <1>2. LinksAccounted'
    BY <1>1 DEF LoaderInv, LinksAccounted
  <1>3. OnItsInode'
    BY <1>1, NoneApart DEF LoaderInv, OnItsInode
  <1> QED BY <1>2, <1>3

(* All links closed                                                        *)
LEMMA AccountsEmpty ==
    ASSUME probes' = [f \in Files |-> [s \in Sides |-> 0]],
           attachedInodes' = [i \in Inodes |-> None],
           \A s \in Sides : attach'.link[s] = None
    PROVE  LinksAccounted' /\ OnItsInode'
  <1>1. \A f, s : Owners(f, s)' = {}
    BY DEF Owners
  <1>2. Cardinality({}) = 0
    BY FS_EmptySet
  <1> QED BY <1>1, <1>2, NoneApart DEF LinksAccounted, OnItsInode

-----------------------------------------------------------------------------
(* Steps of the node and of the scanner between two calls                  *)

LEMMA QuietStep ==
    ASSUME LoaderInv, LoaderTypeOK', LoadAlone',
           UNCHANGED <<probes, attachedInodes, attach, swapped>>
    PROVE  LoaderInv'
  <1>1. CallSound'
    BY DEF LoaderInv, CallSound
  <1>2. LinksAccounted' /\ OnItsInode'
    BY AccountsStay
  <1> QED BY <1>1, <1>2 DEF LoaderInv

LEMMA NodeStep ==
    ASSUME LoaderInv,
           \/ \E p \in Processes : Start(p) \/ Exit(p)
           \/ \E path \in Paths, f \in Files \cup {None} : Install(path, f)
    PROVE  LoaderInv'
  <1>1. UNCHANGED <<probes, attachedInodes, attach, scanner, main, swapped>>
    BY DEF Start, Exit, Install, Change
  <1>2. hostfs' \in [Paths -> Files \cup {None}]
    BY DEF Start, Exit, Install, LoaderInv, LoaderTypeOK
  <1>3. LoaderTypeOK' /\ LoadAlone'
    BY <1>1, <1>2 DEF LoaderInv, LoaderTypeOK, LoadAlone
  <1> QED BY <1>1, <1>3, QuietStep

LEMMA ScanStep ==
    ASSUME LoaderInv, Glob \/ (\E p \in Processes : ReadMaps(p)) \/ ScannerEnds
    PROVE  LoaderInv'
  <1>0. /\ UNCHANGED <<hostfs, probes, attachedInodes, attach, main, swapped>>
        /\ scanner.pc # "off"
    BY DEF Glob, ReadMaps, ScannerEnds, nodeVars
  <1>1. scanner' \in [pc : {"off", "scan", "maps", "wait"}, todo : SUBSET Processes,
                      found : Seq(Instances)]
    <2>1. CASE Glob
      BY <2>1 DEF Glob, Running
    <2>2. ASSUME NEW p \in Processes, ReadMaps(p)
          PROVE  scanner' \in [pc : {"off", "scan", "maps", "wait"}, todo : SUBSET Processes,
                               found : Seq(Instances)]
      <3> DEFINE f == hostfs[LibPath[p]]
                 i == [path |-> LibPath[p], inode |-> Inode[f]]
                 listed == proc[p] # None /\ f # None /\ Inode[f] \notin FoundInodes
                 found == IF listed THEN Append(scanner.found, i) ELSE scanner.found
      <3>1. LibPath[p] \in Paths /\ f \in Files \cup {None}
        BY CertLoaderAssumption DEF LoaderInv, LoaderTypeOK
      <3>2. listed => i \in Instances
        BY <3>1, InodeOf DEF Instances
      <3>3. scanner.found \in Seq(Instances)
        BY DEF LoaderInv, LoaderTypeOK
      <3>4. scanner' = [scanner EXCEPT !.todo = @ \ {p}, !.found = found]
        BY <2>2 DEF ReadMaps
      <3> HIDE DEF i, listed
      <3>5. found \in Seq(Instances)
        BY <3>2, <3>3
      <3> HIDE DEF found
      <3> QED BY <3>4, <3>5 DEF LoaderInv, LoaderTypeOK
    <2>3. CASE ScannerEnds
      BY <2>3 DEF ScannerEnds, LoaderInv, LoaderTypeOK
    <2> QED BY <2>1, <2>2, <2>3
  <1>2. LoaderTypeOK' /\ LoadAlone'
    BY <1>0, <1>1 DEF LoaderInv, LoaderTypeOK, LoadAlone
  <1> QED BY <1>0, <1>2, QuietStep

(* A call begins or ends                                                   *)
LEMMA CallStep ==
    ASSUME LoaderInv, UNCHANGED <<hostfs, probes, attachedInodes, swapped>>,
           attach.pc \in {"none", "ok", "error"},
           attach' = NoCall \/ \E p \in Paths : attach' = Call(p),
           LoaderTypeOK', LoadAlone'
    PROVE  LoaderInv'
  <1>1. \A s \in Sides : attach'.link[s] = None
    BY NoCallFacts
  <1>2. \A s \in Sides : attach.link[s] = None
    BY DEF LoaderInv, CallSound, Sides
  <1>3. attach'.pc \in {"none", "stat"} /\ (attach'.pc = "stat" => attach'.path \in Paths)
    BY NoCallFacts
  <1>4. CallSound'
    BY <1>1, <1>3 DEF CallSound, Sides
  <1>5. LinksAccounted' /\ OnItsInode'
    BY <1>1, <1>2, AccountsStay
  <1> QED BY <1>4, <1>5 DEF LoaderInv

LEMMA NextInstanceStep ==
    ASSUME LoaderInv, NextInstance
    PROVE  LoaderInv'
  <1>0. /\ UNCHANGED <<hostfs, probes, attachedInodes, main, swapped>>
        /\ scanner.pc = "maps" /\ attach.pc \in {"none", "ok", "error"}
    BY DEF NextInstance, nodeVars
  <1>1. scanner.found \in Seq(Instances)
    BY DEF LoaderInv, LoaderTypeOK
  <1>2. /\ scanner' \in [pc : {"off", "scan", "maps", "wait"}, todo : SUBSET Processes,
                         found : Seq(Instances)]
        /\ attach' = NoCall \/ \E p \in Paths : attach' = Call(p)
    <2>1. CASE scanner.found = <<>>
      BY <2>1 DEF NextInstance, LoaderInv, LoaderTypeOK
    <2>2. CASE scanner.found # <<>>
      <3>0. PICK found \in Seq(Instances) : found = scanner.found /\ found # <<>>
        BY <1>1, <2>2
      <3>1. PICK i \in Instances : i = Head(scanner.found)
        BY <3>0
      <3>2. PICK t \in Seq(Instances) : t = Tail(scanner.found)
        <4>1. Tail(found) \in Seq(Instances)
          BY <3>0, HeadTailProperties
        <4> QED BY <3>0, <4>1
      <3>3. scanner' = [scanner EXCEPT !.found = t] /\ attach' = Call(i.path)
        BY <2>2, <3>1, <3>2 DEF NextInstance
      <3>4. i.path \in Paths
        BY DEF Instances
      <3> QED BY <3>3, <3>4 DEF LoaderInv, LoaderTypeOK
    <2> QED BY <2>1, <2>2
  <1>3. LoaderTypeOK' /\ LoadAlone'
    BY <1>0, <1>2, NoCallFacts DEF LoaderInv, LoaderTypeOK, LoadAlone
  <1> QED BY <1>0, <1>2, <1>3, CallStep

LEMMA LoadEndsStep ==
    ASSUME LoaderInv, LoadAttached \/ LoadFails
    PROVE  LoaderInv'
  <1>0. /\ UNCHANGED <<hostfs, probes, attachedInodes, scanner, swapped>>
        /\ main.pc = "load" /\ attach' = NoCall
        /\ attach.pc \in {"none", "ok", "error"}
        /\ \E pc \in {"reader", "failed"} : main' = [main EXCEPT !.pc = pc]
    BY DEF LoadAttached, LoadFails, nodeVars
  <1>1. /\ main' \in [pc : {"load", "failed", "reader", "running", "closing", "closed", "exited"},
                      todo : SUBSET Inodes]
    BY <1>0 DEF LoaderInv, LoaderTypeOK
  <1>2. LoaderTypeOK'
    BY <1>0, <1>1, NoCallFacts DEF LoaderInv, LoaderTypeOK
  <1>3. LoadAlone'
    BY <1>0 DEF LoaderInv, LoadAlone
  <1> QED BY <1>0, <1>2, <1>3, CallStep

LEMMA MainStep ==
    ASSUME LoaderInv, OpenReader \/ BeginClose \/ Unload
    PROVE  LoaderInv'
  <1>0. UNCHANGED <<hostfs, probes, attachedInodes, attach, swapped>>
    BY DEF OpenReader, BeginClose, Unload, nodeVars
  <1>1. LoaderTypeOK' /\ main'.pc \notin {"load", "reader"}
    <2>1. CASE OpenReader
      BY <1>0, <2>1 DEF OpenReader, LoaderInv, LoaderTypeOK
    <2>2. CASE BeginClose
      BY <1>0, <2>2 DEF BeginClose, LoaderInv, LoaderTypeOK, Attached
    <2>3. CASE Unload
      BY <1>0, <2>3 DEF Unload, LoaderInv, LoaderTypeOK
    <2> QED BY <2>1, <2>2, <2>3
  <1>2. LoadAlone'
    BY <1>1 DEF LoadAlone
  <1> QED BY <1>0, <1>1, <1>2, QuietStep

(* Everything is closed: NewReader fails, or the process ends              *)
LEMMA EmptyStep ==
    ASSUME LoaderInv, ReaderFails \/ ProcessExits \/ FatalMapRace
    PROVE  LoaderInv'
  <1>0. /\ UNCHANGED <<hostfs, swapped>>
        /\ probes' = [f \in Files |-> [s \in Sides |-> 0]]
        /\ attachedInodes' = [i \in Inodes |-> None]
        /\ attach' = NoCall
        /\ main'.pc \in {"failed", "exited"}
        /\ scanner' \in {scanner, NoScan}
        /\ main' \in [pc : {"load", "failed", "reader", "running", "closing", "closed", "exited"},
                      todo : SUBSET Inodes]
    <2>1. CASE ReaderFails
      <3>1. attach = NoCall /\ attach' = attach
        BY <2>1 DEF ReaderFails, LoaderInv, LoadAlone
      <3> QED BY <2>1, <3>1 DEF ReaderFails, nodeVars, LoaderInv, LoaderTypeOK
    <2>2. CASE Gone
      BY <2>2 DEF Gone, nodeVars
    <2> QED BY <2>1, <2>2 DEF ProcessExits, FatalMapRace
  <1>1. NoScan \in [pc : {"off", "scan", "maps", "wait"}, todo : SUBSET Processes,
                    found : Seq(Instances)]
    BY DEF NoScan
  <1>2. LoaderTypeOK'
    BY <1>0, <1>1, NoCallFacts DEF LoaderInv, LoaderTypeOK
  <1>3. CallSound' /\ LoadAlone'
    BY <1>0, NoCallFacts DEF CallSound, LoadAlone, Sides
  <1>4. LinksAccounted' /\ OnItsInode'
    BY <1>0, NoCallFacts, AccountsEmpty
  <1> QED BY <1>2, <1>3, <1>4 DEF LoaderInv

-----------------------------------------------------------------------------
(* Steps of a call.  It has the loader to itself, but for closeLinks.      *)

LEMMA CallTypes ==
    ASSUME LoaderInv
    PROVE  /\ attach \in Calls /\ attach.link \in [Sides -> Files \cup {None}]
           /\ attach.pc \in {"stat", "open", "entry", "return", "record"} =>
                 attach.path \in Paths /\ hostfs[attach.path] \in Files \cup {None}
           /\ probes \in [Files -> [Sides -> Int]]
           /\ \A f \in Files, s \in Sides : probes[f][s] \in Int
           /\ attachedInodes \in [Inodes -> LinkPairs \cup {None}]
  BY DEF LoaderInv, LoaderTypeOK, CallSound, Calls

LEMMA StatStep ==
    ASSUME LoaderInv, Stat, main.pc = "load" \/ scanner.pc # "off"
    PROVE  LoaderInv'
  <1>0. /\ UNCHANGED <<hostfs, probes, attachedInodes, scanner, main, swapped>>
        /\ attach.pc = "stat"
    BY DEF Stat, nodeVars
  <1>1. PICK a \in Calls : a = attach
    BY CallTypes
  <1>2. /\ attach' \in Calls
        /\ attach'.link = attach.link /\ attach'.path = attach.path
        /\ \/ attach'.pc \in {"error", "ok"}
           \/ /\ attach'.pc = "open" /\ attach'.inode \in Inodes
              /\ attachedInodes[attach'.inode] = None
    <2>1. CASE hostfs[a.path] = None
      <3>1. attach' = [a EXCEPT !.pc = "error"]
        BY <1>1, <2>1 DEF Stat
      <3> QED BY <1>1, <3>1 DEF Calls
    <2>2. CASE hostfs[a.path] # None
      <3>1. PICK i \in Inodes : i = Inode[hostfs[a.path]]
        BY <1>0, <1>1, <2>2, CallTypes, InodeOf
      <3>2. CASE AlreadyAttached(i)
        <4>1. attach' = [a EXCEPT !.pc = "ok"]
          BY <1>1, <2>2, <3>1, <3>2 DEF Stat
        <4> QED BY <1>1, <4>1 DEF Calls
      <3>3. CASE ~AlreadyAttached(i)
        <4>1. attach' = [a EXCEPT !.pc = "open", !.inode = i]
          BY <1>1, <2>2, <3>1, <3>3 DEF Stat
        <4>2. attachedInodes[i] = None
          BY <3>3 DEF AlreadyAttached
        <4> QED BY <1>1, <4>1, <4>2 DEF Calls
      <3> QED BY <3>2, <3>3
    <2> QED BY <2>1, <2>2
  <1>3. \A s \in Sides : attach.link[s] = None
    BY <1>0 DEF LoaderInv, CallSound, Sides
  <1>4. LoaderTypeOK'
    BY <1>0, <1>2 DEF LoaderInv, LoaderTypeOK
  <1>5. CallSound'
    BY <1>0, <1>2, <1>3 DEF LoaderInv, CallSound, Sides
  <1>6. LoadAlone'
    BY <1>0 DEF LoaderInv, LoadAlone
  <1>7. LinksAccounted' /\ OnItsInode'
    BY <1>0, <1>2, <1>3, AccountsStay
  <1> QED BY <1>4, <1>5, <1>6, <1>7 DEF LoaderInv

LEMMA OpenStep ==
    ASSUME LoaderInv, Open, main.pc = "load" \/ scanner.pc # "off"
    PROVE  LoaderInv'
  <1>0. /\ UNCHANGED <<hostfs, probes, attachedInodes, scanner, main, swapped>>
        /\ attach.pc = "open"
        /\ attach' = [attach EXCEPT !.pc = "entry"]
    BY DEF Open, nodeVars
  <1>1. /\ attach' \in Calls /\ attach'.pc = "entry"
        /\ attach'.link = attach.link /\ attach'.path = attach.path /\ attach'.inode = attach.inode
    BY <1>0, CallTypes DEF Calls
  <1>2. LoaderTypeOK'
    BY <1>0, <1>1 DEF LoaderInv, LoaderTypeOK
  <1>3. CallSound'
    BY <1>0, <1>1 DEF LoaderInv, CallSound
  <1>4. LoadAlone'
    BY <1>0 DEF LoaderInv, LoadAlone
  <1>5. LinksAccounted' /\ OnItsInode'
    BY <1>0, <1>1, AccountsStay
  <1> QED BY <1>2, <1>3, <1>4, <1>5 DEF LoaderInv

(* One more probe, one more link in hand                                   *)
LEMMA ProbeStep ==
    ASSUME LoaderInv, NEW side \in Sides, Probe(side), main.pc = "load" \/ scanner.pc # "off"
    PROVE  LoaderInv'
  <1>0. /\ UNCHANGED <<hostfs, attachedInodes, scanner, main>>
        /\ attach.pc = side
    BY DEF Probe, nodeVars
  <1>1. PICK a \in Calls : a = attach
    BY CallTypes
  <1>2. PICK f \in Files : f = hostfs[a.path]
    BY <1>0, <1>1, CallTypes DEF Probe, Sides
  <1>3. PICK pc \in {"return", "record"} : pc = IF side = "entry" THEN "return" ELSE "record"
    OBVIOUS
  <1>4. /\ attach' = [a EXCEPT !.pc = pc, !.link = [a.link EXCEPT ![side] = f]]
        /\ probes' = [probes EXCEPT ![f] = [probes[f] EXCEPT ![side] = probes[f][side] + 1]]
        /\ swapped' = IF Inode[f] # a.inode THEN swapped \cup {f} ELSE swapped
    BY <1>1, <1>2, <1>3 DEF Probe, Calls
  <1>5. a.link \in [Sides -> Files \cup {None}] /\ a.link[side] = None
    BY <1>0, <1>1, CallTypes DEF LoaderInv, CallSound, Sides
  <1>6. /\ attach' \in Calls /\ attach'.pc = pc /\ attach'.path = a.path /\ attach'.inode = a.inode
        /\ attach'.link = [a.link EXCEPT ![side] = f]
    <2>1. PICK l \in [Sides -> Files \cup {None}] : l = [a.link EXCEPT ![side] = f]
      BY <1>5
    <2>2. attach' = [a EXCEPT !.pc = pc, !.link = l]
      BY <1>4, <2>1
    <2> QED BY <2>1, <2>2 DEF Calls
  <1>7. \A s \in Sides : attach'.link[s] = IF s = side THEN f ELSE a.link[s]
    BY <1>5, <1>6
  <1>8. \A g \in Files, s \in Sides :
           probes'[g][s] = IF g = f /\ s = side THEN probes[g][s] + 1 ELSE probes[g][s]
    BY <1>4, CallTypes
  <1>9. probes' \in [Files -> [Sides -> Int]]
    BY <1>4, CallTypes
  <1>10. LoaderTypeOK'
    BY <1>0, <1>4, <1>6, <1>9 DEF LoaderInv, LoaderTypeOK
  <1>11. CallSound'
    BY <1>0, <1>1, <1>3, <1>6, <1>7, NoneApart DEF LoaderInv, CallSound, Sides
  <1>12. LoadAlone'
    BY <1>0 DEF LoaderInv, LoadAlone
  <1>13. \A g, s : Owners(g, s)' = Owners(g, s)
    BY <1>0 DEF Owners
  <1>14. LinksAccounted'
    <2> SUFFICES ASSUME NEW g \in Files, NEW s \in Sides
                 PROVE  probes'[g][s] = Cardinality(Owners(g, s)) + (IF attach'.link[s] = g THEN 1 ELSE 0)
      BY <1>13 DEF LinksAccounted
    <2>1. /\ probes[g][s] = Cardinality(Owners(g, s)) + (IF a.link[s] = g THEN 1 ELSE 0)
          /\ Cardinality(Owners(g, s)) \in Nat
      BY <1>1, OwnersFinite DEF LoaderInv, LinksAccounted
    <2>2. CASE s # side
      BY <1>7, <1>8, <2>1, <2>2
    <2>3. CASE s = side /\ g # f
      BY <1>5, <1>7, <1>8, <2>1, <2>3, NoneApart
    <2>4. CASE s = side /\ g = f
      BY <1>5, <1>7, <1>8, <2>1, <2>4, NoneApart
    <2> QED BY <2>2, <2>3, <2>4
  <1>15. OnItsInode'
    <2>1. \A g \in Files : g \notin swapped' => g \notin swapped /\ (g = f => a.inode = Inode[f])
      BY <1>4
    <2> QED BY <1>1, <1>6, <1>7, <1>13, <2>1 DEF LoaderInv, OnItsInode
  <1> QED BY <1>10, <1>11, <1>12, <1>14, <1>15 DEF LoaderInv

(* The call fails and takes back the entry probe                           *)
LEMMA AttachFailsStep ==
    ASSUME LoaderInv, AttachFails, main.pc = "load" \/ scanner.pc # "off"
    PROVE  LoaderInv'
  <1>0. /\ UNCHANGED <<hostfs, attachedInodes, scanner, main, swapped>>
        /\ attach.pc \in {"open", "entry", "return"}
        /\ attach' = [attach EXCEPT !.pc = "error", !.link = NoCall.link]
        /\ probes' = AfterFailure
    BY DEF AttachFails, nodeVars, TableAfterFailure, Sides
  <1>1. PICK l \in [Sides -> Files \cup {None}] : l = attach.link
    BY CallTypes
  <1>2. l["return"] = None /\ l["entry"] \in Files \cup {None}
    BY <1>0, <1>1 DEF LoaderInv, CallSound, Sides
  <1>3. /\ attach' \in Calls /\ attach'.pc = "error"
        /\ \A s \in Sides : attach'.link[s] = None
    <2>1. NoCall.link \in [Sides -> Files \cup {None}] /\ \A s \in Sides : NoCall.link[s] = None
      BY NoCallFacts DEF Calls
    <2> QED BY <1>0, <2>1, CallTypes DEF Calls
  <1>4. \A g \in Files, s \in Sides :
           probes'[g][s] = IF l[s] = g THEN probes[g][s] - 1 ELSE probes[g][s]
    <2>1. CASE l["entry"] = None
      <3>1. \A s \in Sides : l[s] = None
        BY <1>2, <2>1 DEF Sides
      <3> QED BY <1>0, <1>1, <2>1, <3>1, NoneApart DEF AfterFailure
    <2>2. CASE l["entry"] # None
      <3>1. PICK f \in Files : f = l["entry"]
        BY <1>2, <2>2
      <3>2. probes' = [probes EXCEPT ![f] = [probes[f] EXCEPT !["entry"] = probes[f]["entry"] - 1]]
        BY <1>0, <1>1, <2>2, <3>1 DEF AfterFailure
      <3>3. \A g \in Files, s \in Sides :
              probes'[g][s] = IF g = f /\ s = "entry" THEN probes[g][s] - 1 ELSE probes[g][s]
        BY <3>2, CallTypes DEF Sides
      <3>4. \A g \in Files, s \in Sides : l[s] = g <=> g = f /\ s = "entry"
        BY <1>2, <3>1, NoneApart DEF Sides
      <3> QED BY <3>3, <3>4
    <2> QED BY <2>1, <2>2
  <1>5. probes' \in [Files -> [Sides -> Int]]
    <2>1. CASE l["entry"] = None
      BY <1>0, <1>1, <2>1, CallTypes DEF AfterFailure
    <2>2. CASE l["entry"] # None
      <3>1. PICK f \in Files : f = l["entry"]
        BY <1>2, <2>2
      <3>2. probes' = [probes EXCEPT ![f] = [probes[f] EXCEPT !["entry"] = probes[f]["entry"] - 1]]
        BY <1>0, <1>1, <2>2, <3>1 DEF AfterFailure
      <3> QED BY <3>2, CallTypes DEF Sides
    <2> QED BY <2>1, <2>2
  <1>6. LoaderTypeOK'
    BY <1>0, <1>3, <1>5 DEF LoaderInv, LoaderTypeOK
  <1>7. CallSound' /\ LoadAlone'
    BY <1>0, <1>3 DEF LoaderInv, CallSound, LoadAlone, Sides
  <1>8. \A g, s : Owners(g, s)' = Owners(g, s)
    BY <1>0 DEF Owners
  <1>9. LinksAccounted'
    <2> SUFFICES ASSUME NEW g \in Files, NEW s \in Sides
                 PROVE  probes'[g][s] = Cardinality(Owners(g, s)) + 0
      BY <1>3, <1>8, NoneApart DEF LinksAccounted
    <2>1. /\ probes[g][s] = Cardinality(Owners(g, s)) + (IF l[s] = g THEN 1 ELSE 0)
          /\ Cardinality(Owners(g, s)) \in Nat
      BY <1>1, OwnersFinite DEF LoaderInv, LinksAccounted
    <2> QED BY <1>4, <2>1
  <1>10. OnItsInode'
    BY <1>0, <1>3, <1>8, NoneApart DEF LoaderInv, OnItsInode
  <1> QED BY <1>6, <1>7, <1>9, <1>10 DEF LoaderInv

(* Both links go from the call into the table, over nobody's               *)
LEMMA RecordStep ==
    ASSUME LoaderInv, Record, main.pc = "load" \/ scanner.pc # "off"
    PROVE  LoaderInv'
  <1>0. /\ UNCHANGED <<hostfs, probes, scanner, main, swapped>>
        /\ attach.pc = "record"
        /\ attach' = [NoCall EXCEPT !.pc = "ok"]
    BY DEF Record, nodeVars
  <1>1. PICK l \in LinkPairs : l = attach.link
    <2>1. \A s \in Sides : attach.link[s] \in Files
      BY <1>0, CallTypes DEF LoaderInv, CallSound, Sides
    <2> QED BY <2>1, CallTypes DEF LinkPairs
  <1>2. PICK i \in Inodes : i = attach.inode /\ attachedInodes[i] = None
    BY <1>0 DEF LoaderInv, CallSound
  <1>3. attachedInodes' = [attachedInodes EXCEPT ![i] = l]
    BY <1>1, <1>2 DEF Record
  <1>4. /\ attach' \in Calls /\ attach'.pc = "ok"
        /\ \A s \in Sides : attach'.link[s] = None
    BY <1>0, NoCallFacts DEF Calls
  <1>5. /\ attachedInodes' \in [Inodes -> LinkPairs \cup {None}]
        /\ \A j \in Inodes : attachedInodes'[j] = IF j = i THEN l ELSE attachedInodes[j]
    BY <1>3, CallTypes
  <1>6. LoaderTypeOK'
    BY <1>0, <1>4, <1>5 DEF LoaderInv, LoaderTypeOK
  <1>7. CallSound' /\ LoadAlone'
    BY <1>0, <1>4 DEF LoaderInv, CallSound, LoadAlone, Sides
  <1>8. ASSUME NEW g \in Files, NEW s \in Sides
        PROVE  /\ i \notin Owners(g, s)
               /\ Owners(g, s)' = IF l[s] = g THEN Owners(g, s) \cup {i} ELSE Owners(g, s)
    BY <1>2, <1>5, NoneApart DEF Owners
  <1>9. LinksAccounted'
    <2> SUFFICES ASSUME NEW g \in Files, NEW s \in Sides
                 PROVE  probes[g][s] = Cardinality(Owners(g, s)') + 0
      BY <1>0, <1>4, NoneApart DEF LinksAccounted
    <2>1. /\ probes[g][s] = Cardinality(Owners(g, s)) + (IF l[s] = g THEN 1 ELSE 0)
          /\ Cardinality(Owners(g, s)) \in Nat /\ IsFiniteSet(Owners(g, s))
      BY <1>1, OwnersFinite DEF LoaderInv, LinksAccounted
    <2>2. Cardinality(Owners(g, s) \cup {i}) = Cardinality(Owners(g, s)) + 1
      BY <1>8, <2>1, FS_AddElement
    <2>3. Owners(g, s)' = IF l[s] = g THEN Owners(g, s) \cup {i} ELSE Owners(g, s)
      BY <1>8
    <2>4. CASE l[s] = g
      BY <2>1, <2>2, <2>3, <2>4
    <2>5. CASE l[s] # g
      BY <2>1, <2>3, <2>5
    <2> QED BY <2>4, <2>5
  <1>10. OnItsInode'
    <2> SUFFICES ASSUME NEW g \in Files, NEW s \in Sides, g \notin swapped
                 PROVE  Owners(g, s)' \subseteq {Inode[g]}
      BY <1>0, <1>4, NoneApart DEF OnItsInode
    <2>1. Owners(g, s) \subseteq {Inode[g]} /\ (l[s] = g => i = Inode[g])
      BY <1>1, <1>2 DEF LoaderInv, OnItsInode
    <2> QED BY <1>8, <2>1
  <1> QED BY <1>6, <1>7, <1>9, <1>10 DEF LoaderInv

(* closeLinks, also while the scanner has a call in progress               *)
LEMMA CloseLinksStep ==
    ASSUME LoaderInv, NEW i \in Inodes, CloseLinks(i)
    PROVE  LoaderInv'
  <1>0. /\ UNCHANGED <<hostfs, attach, scanner, swapped>>
        /\ main.pc = "closing" /\ main' = [main EXCEPT !.todo = @ \ {i}]
        /\ attachedInodes[i] # None
        /\ probes' = Closed(attachedInodes[i])
        /\ attachedInodes' = [attachedInodes EXCEPT ![i] = None]
    BY DEF CloseLinks, nodeVars, Attached, Without
  <1>1. PICK l \in LinkPairs : l = attachedInodes[i]
    BY <1>0, CallTypes
  <1>2. \A g \in Files, s \in Sides :
           probes'[g][s] = IF l[s] = g THEN probes[g][s] - 1 ELSE probes[g][s] - 0
    BY <1>0, <1>1 DEF Closed
  <1>3. probes' \in [Files -> [Sides -> Int]]
    BY <1>0, <1>1, CallTypes DEF Closed
  <1>4. /\ attachedInodes' \in [Inodes -> LinkPairs \cup {None}]
        /\ \A j \in Inodes : attachedInodes'[j] = IF j = i THEN None ELSE attachedInodes[j]
    BY <1>0, CallTypes
  <1>5. LoaderTypeOK'
    BY <1>0, <1>3, <1>4 DEF LoaderInv, LoaderTypeOK
  <1>6. CallSound'
    BY <1>0, <1>4 DEF LoaderInv, CallSound
  <1>7. LoadAlone'
    BY <1>0 DEF LoaderInv, LoaderTypeOK, LoadAlone
  <1>8. ASSUME NEW g \in Files, NEW s \in Sides
        PROVE  /\ l[s] = g <=> i \in Owners(g, s)
               /\ Owners(g, s)' = Owners(g, s) \ {i}
    BY <1>0, <1>1, <1>4, NoneApart DEF Owners
  <1>9. LinksAccounted'
    <2> SUFFICES ASSUME NEW g \in Files, NEW s \in Sides
                 PROVE  probes'[g][s] = Cardinality(Owners(g, s)') + (IF attach.link[s] = g THEN 1 ELSE 0)
      BY <1>0 DEF LinksAccounted
    <2>1. /\ probes[g][s] = Cardinality(Owners(g, s)) + (IF attach.link[s] = g THEN 1 ELSE 0)
          /\ Cardinality(Owners(g, s)) \in Nat /\ IsFiniteSet(Owners(g, s))
      BY OwnersFinite DEF LoaderInv, LinksAccounted
    <2>2. Cardinality(Owners(g, s) \ {i}) =
            IF i \in Owners(g, s) THEN Cardinality(Owners(g, s)) - 1 ELSE Cardinality(Owners(g, s))
      BY <2>1, FS_RemoveElement
    <2>3. Owners(g, s)' = Owners(g, s) \ {i} /\ (l[s] = g <=> i \in Owners(g, s))
      BY <1>8
    <2>4. probes'[g][s] = IF l[s] = g THEN probes[g][s] - 1 ELSE probes[g][s] - 0
      BY <1>2
    <2>5. PICK before, after : before = Cardinality(Owners(g, s)) /\ after = Cardinality(Owners(g, s)')
      OBVIOUS
    <2>6. after = IF l[s] = g THEN before - 1 ELSE before
      BY <2>2, <2>3, <2>5
    <2> QED BY <2>1, <2>4, <2>5, <2>6
  <1>10. OnItsInode'
    BY <1>0, <1>8 DEF LoaderInv, OnItsInode
  <1> QED BY <1>5, <1>6, <1>7, <1>9, <1>10 DEF LoaderInv

-----------------------------------------------------------------------------
LEMMA LoaderInit == CertLoaderInit => LoaderInv
  <1> SUFFICES ASSUME CertLoaderInit PROVE LoaderInv
    OBVIOUS
  <1> USE DEF CertLoaderInit
  <1>1. attach \in Calls /\ attach.pc \in {"none", "stat"}
        /\ (attach.pc = "stat" => attach.path \in Paths) /\ \A s \in Sides : attach.link[s] = None
    BY NoCallFacts, CertLoaderAssumption
  <1>2. LoaderTypeOK
    BY <1>1, CertLoaderAssumption DEF LoaderTypeOK, NoScan
  <1>3. CallSound /\ LoadAlone
    BY <1>1 DEF CallSound, LoadAlone, Sides, NoScan
  <1>4. \A f, s : Owners(f, s) = {}
    BY DEF Owners
  <1>5. Cardinality({}) = 0
    BY FS_EmptySet
  <1>6. \A f \in Files, s \in Sides : probes[f][s] = 0 /\ attach.link[s] # f
    BY <1>1, NoneApart
  <1>7. LinksAccounted
    <2>1. \A f, s : Cardinality(Owners(f, s)) = 0
      BY <1>4, <1>5
    <2> HIDE DEF CertLoaderInit
    <2> QED BY <1>6, <2>1 DEF LinksAccounted
  <1>8. OnItsInode
    BY <1>4, <1>6 DEF OnItsInode
  <1> QED BY <1>2, <1>3, <1>7, <1>8 DEF LoaderInv

LEMMA LoaderStep == LoaderInv /\ [CertLoaderNext]_certVars => LoaderInv'
  <1> SUFFICES ASSUME LoaderInv, [CertLoaderNext]_certVars PROVE LoaderInv'
    OBVIOUS
  <1>1. CASE Attaching /\ (main.pc = "load" \/ scanner.pc # "off")
    BY <1>1, StatStep, OpenStep, ProbeStep, AttachFailsStep, RecordStep DEF Attaching
  <1>2. CASE Main
    BY <1>1, <1>2, LoadEndsStep, MainStep, EmptyStep, CloseLinksStep DEF Main
  <1>3. CASE Scanner
    BY <1>1, <1>3, ScanStep, NextInstanceStep DEF Scanner
  <1>4. CASE Cancel \/ UNCHANGED certVars
    <2>1. UNCHANGED <<hostfs, probes, attachedInodes, attach, scanner, main, swapped>>
      BY <1>4 DEF Cancel, certVars, nodeVars
    <2> QED BY <2>1, QuietStep DEF LoaderInv, LoaderTypeOK, LoadAlone
  <1> QED BY <1>2, <1>3, <1>4, NodeStep, EmptyStep DEF CertLoaderNext

(* The inductive invariant of the loader, the scanner and Close *)
THEOREM LoaderInvariant == CertLoaderSpec => []LoaderInv
  BY LoaderInit, LoaderStep, PTL DEF CertLoaderSpec

(* No probe is lost and no link closed twice, whatever fails and however   *)
(* the scanner and Close interleave (LinksAccounted).                      *)
THEOREM LinksCorrect == CertLoaderSpec => []LinksAccounted
  <1>1. LoaderInv => LinksAccounted
    BY DEF LoaderInv
  <1> QED BY <1>1, LoaderInvariant, PTL

(* A file has at most one pair of probes unless it was swapped in between  *)
(* stat and attachment (HookedOnce).                                       *)
THEOREM HookedOnceCorrect == CertLoaderSpec => []HookedOnce
  <1>1. LoaderInv => HookedOnce
    <2> SUFFICES ASSUME LoaderInv, NEW f \in Files, NEW s \in Sides, f \notin swapped
                 PROVE  probes[f][s] <= 1
      BY DEF HookedOnce
    <2>1. /\ probes[f][s] = Cardinality(Owners(f, s)) + (IF attach.link[s] = f THEN 1 ELSE 0)
          /\ Cardinality(Owners(f, s)) \in Nat
      BY OwnersFinite DEF LoaderInv, LinksAccounted
    <2>2. Owners(f, s) \subseteq {Inode[f]} /\ (attach.link[s] = f => attach.inode = Inode[f])
      BY DEF LoaderInv, OnItsInode
    <2>3. Cardinality({}) = 0 /\ Cardinality({Inode[f]}) = 1
      BY FS_EmptySet, FS_Singleton
    <2>4. Owners(f, s) = {} \/ Owners(f, s) = {Inode[f]}
      BY <2>2
    <2>5. attach.link[s] = f => Owners(f, s) = {}
      <3>1. ASSUME attach.link[s] = f PROVE Owners(f, s) = {}
        <4>1. attach.pc \in {"return", "record"}
          BY <3>1, NoneApart DEF LoaderInv, CallSound, Sides
        <4>2. attachedInodes[Inode[f]] = None
          BY <2>2, <3>1, <4>1 DEF LoaderInv, CallSound
        <4> QED BY <2>2, <4>2 DEF Owners
      <3> QED BY <3>1
    <2>6. CASE attach.link[s] = f
      <3>1. Cardinality(Owners(f, s)) = 0
        BY <2>3, <2>5, <2>6
      <3> QED BY <2>1, <2>6, <3>1
    <2>7. CASE attach.link[s] # f
      <3>1. Cardinality(Owners(f, s)) = 0 \/ Cardinality(Owners(f, s)) = 1
        BY <2>3, <2>4
      <3> QED BY <2>1, <2>7, <3>1
    <2> QED BY <2>6, <2>7
  <1> QED BY <1>1, LoaderInvariant, PTL
=============================================================================
