-------------------------- MODULE CertLoaderSafety --------------------------
(* Properties of the certificate loader and its scanner                    *)
EXTENDS CertLoader

(* No live probe is lost and no link is closed twice: a probe's link is in *)
(* the table that closeLinks walks, or in the hands of the call that       *)
(* attached it, whatever fails on the way and however the scanner and      *)
(* Close interleave (cert_loader.go:128-148, 179-186).  A link recorded    *)
(* after closeLinks stays until the process exits.                         *)
Owners(f, s) == {i \in Inodes : attachedInodes[i] # None /\ attachedInodes[i][s] = f}

LinksAccounted ==
    \A f \in Files, s \in Sides :
        probes[f][s] = Cardinality(Owners(f, s)) + (IF attach.link[s] = f THEN 1 ELSE 0)

(* At most one pair of probes per binary image (proc_scanner.go:15): a     *)
(* certificate is not captured twice.  The exception is an image that was  *)
(* installed at its path between the stat and the attachment.              *)
HookedOnce ==
    \A f \in Files, s \in Sides : f \notin swapped => probes[f][s] <= 1

Hooked(f) == \A s \in Sides : probes[f][s] > 0

(* The table has links on another image under the image's inode number.    *)
InodeTaken(f) == attachedInodes[Inode[f]] \notin {None, [s \in Sides |-> f]}

(* A library that a running process has at its path, and that the          *)
(* reflector sees there, gets hooked, although calls fail and processes    *)
(* come and go during the scans (main.go:555-585), unless its inode number *)
(* is taken.                                                               *)
VisibleLibraryIsHooked ==
    \A p \in Processes, f \in Files :
        LET wanted == /\ main.pc = "running"
                      /\ ctx = "running"
                      /\ proc[p] # None
                      /\ hostfs[LibPath[p]] = f
        IN  wanted ~> (~wanted \/ Hooked(f) \/ InodeTaken(f))

=============================================================================
