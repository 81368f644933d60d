------------------------------- MODULE Probes -------------------------------
(***************************************************************************)
(* The eBPF programs that observe OpenSSL and the loaders that attach      *)
(* them: pairs of entry and return probes on SSL_write and SSL_read        *)
(* (tls_hook.c) and on d2i_X509 (cert_hook.c).  The entry probe leaves the *)
(* arguments of a call in a scratch map, the return probe picks them up,   *)
(* copies the data and submits an event to a ring buffer.                  *)
(*                                                                         *)
(* The traced processes, the uprobe mechanism and the BPF maps are         *)
(* external.  A call is traced from end to end only if both probes were    *)
(* attached when it was entered and are attached when it returns.          *)
(***************************************************************************)
EXTENDS Integers, Sequences, FiniteSets

CONSTANTS
    Threads,      \* threads of the traced processes
    ProcessOf,    \* [Threads -> processes]
    Buffers,      \* what the buffers handed to the traced calls hold
    Sizes,        \* lengths and results of calls
    None,         \* nil, NULL
    MaxCapture,   \* MAX_CAPTURE_BYTES
    CaptureMod,   \* 0x10000, the mask on the length of a TLS record
    MaxDER,       \* MAX_DER_BYTES
    MaxCertLen,   \* longest certificate the entry probe accepts
    ScratchCap,   \* max_entries of a scratch map
    RingCap,      \* events a ring buffer holds
    MaxCalls      \* bound: traced calls

Args == [buf : Buffers, len : Int]

(* traced: both probes were attached at the entry; stored: the entry probe *)
(* saved the arguments.  No program keeps these two.                       *)
CallRecords == [buf : Buffers, len : Int, traced : BOOLEAN, stored : BOOLEAN]

ASSUME NoneAssumption == None \notin Args \cup CallRecords

ASSUME ProbesAssumption ==
    /\ IsFiniteSet(Threads)
    /\ ProcessOf \in [Threads -> {ProcessOf[t] : t \in Threads}]
    /\ Sizes \subseteq Int
    /\ {MaxCapture, MaxDER, MaxCertLen, ScratchCap, RingCap, CaptureMod} \subseteq Nat \ {0}
    /\ MaxCalls \in Nat

VARIABLES
    loader,     \* progress of TLSLoader.Load and CertLoader.Load
    attached,   \* probes of each hook: none, entry, entry and return
    call,       \* the call each thread is in, per traced function
    scratch,    \* ssl_write_args, ssl_read_args, d2i_active
    ring,       \* tls_events, cert_events
    half,       \* hooks and threads with a call that only one probe saw
    calls       \* traced calls so far

probeVars == <<loader, attached, call, scratch, ring, half, calls>>

Hooks == {"SSL_write", "SSL_read", "d2i_X509"}
Loaders == {"tls", "cert"}

LoaderOf(h) == IF h = "d2i_X509" THEN "cert" ELSE "tls"

ProbesInit ==
    /\ loader = [l \in Loaders |-> "loading"]
    /\ attached = [h \in Hooks |-> 0]
    /\ call = [h \in Hooks |-> [t \in Threads |-> None]]
    /\ scratch = [h \in Hooks |-> [t \in Threads |-> None]]
    /\ ring = [l \in Loaders |-> <<>>]
    /\ half = {}
    /\ calls = 0

-----------------------------------------------------------------------------
(* Loading.  main loads the TLS hook before the certificate hook; Load     *)
(* attaches the entry probe of a function before its return probe.         *)

Predecessor(h) ==
    CASE h = "SSL_write" -> TRUE
      [] h = "SSL_read"  -> attached["SSL_write"] = 2
      [] h = "d2i_X509"  -> loader["tls"] # "loading"

Attach(h) ==
    /\ loader[LoaderOf(h)] = "loading"
    /\ Predecessor(h)
    /\ attached[h] < 2
    /\ attached' = [attached EXCEPT ![h] = @ + 1]
    /\ UNCHANGED <<loader, call, scratch, ring, half, calls>>

Loaded(l) ==
    /\ loader[l] = "loading"
    /\ \A h \in Hooks : LoaderOf(h) = l => attached[h] = 2
    /\ loader' = [loader EXCEPT ![l] = "loaded"]
    /\ UNCHANGED <<attached, call, scratch, ring, half, calls>>

(* closeLinks and objs.Close: no probe is left, and the maps are gone.     *)
Detached(l) ==
    /\ attached' = [h \in Hooks |-> IF LoaderOf(h) = l THEN 0 ELSE attached[h]]
    /\ scratch' = [h \in Hooks |->
                     IF LoaderOf(h) = l THEN [t \in Threads |-> None] ELSE scratch[h]]
    /\ ring' = [ring EXCEPT ![l] = <<>>]
    /\ half' = {p \in half : LoaderOf(p[1]) # l}
    /\ UNCHANGED <<call, calls>>

(* A step of Load failed: main goes on without the hook.                   *)
LoadFails(l) ==
    /\ loader[l] = "loading"
    /\ l = "cert" => loader["tls"] # "loading"
    /\ loader' = [loader EXCEPT ![l] = "failed"]
    /\ Detached(l)

Unload(l) ==
    /\ loader[l] = "loaded"
    /\ loader' = [loader EXCEPT ![l] = "closed"]
    /\ Detached(l)

-----------------------------------------------------------------------------
(* Probes on calls.                                                        *)

(* Variant with a defect: the key leaves out the thread ID.                *)
ScratchKeyOfProcess(t) == CHOOSE u \in Threads : ProcessOf[u] = ProcessOf[t]

(* bpf_get_current_pid_tgid                                                *)
ScratchKey(t) == t

InUse(h) == {k \in Threads : scratch[h][k] # None}

(* bpf_map_update_elem: a full map refuses a new key.                      *)
Fits(h, k) == scratch[h][k] # None \/ Cardinality(InUse(h)) < ScratchCap

(* The lengths uprobe_d2i_x509 goes on with; the SSL probes look at none.  *)
EntryAccepts(h, n) == h = "d2i_X509" => n > 0 /\ n <= MaxCertLen

(* The entry probe saves the address of the buffer.  readable: the pointer *)
(* to it could be read (d2i_X509 only).                                    *)
Enter(t, h, b, n, readable) ==
    LET k == ScratchKey(t)
        stored == /\ attached[h] > 0
                  /\ EntryAccepts(h, n)
                  /\ h = "d2i_X509" => readable
                  /\ Fits(h, k)
    IN  /\ call[h][t] = None
        /\ calls < MaxCalls
        /\ calls' = calls + 1
        /\ call' = [call EXCEPT ![h][t] =
                      [buf |-> b, len |-> n, traced |-> attached[h] = 2, stored |-> stored]]
        /\ scratch' = IF stored THEN [scratch EXCEPT ![h][k] = [buf |-> b, len |-> n]] ELSE scratch
        /\ UNCHANGED <<loader, attached, ring, half>>

Least(a, b) == IF a < b THEN a ELSE b

(* Variant with a defect: the length is masked and not capped.             *)
CaptureUncapped(h, n) == IF h = "d2i_X509" THEN n ELSE n % CaptureMod

(* The bytes an event carries of the original n.                           *)
Capture(h, n) ==
    IF h = "d2i_X509" THEN Least(n, MaxDER) ELSE Least(n % CaptureMod, MaxCapture)

(* The length of the data at the return: OpenSSL returns it for SSL_*, and *)
(* the certificate hook takes the saved argument.                          *)
OriginalLen(h, args, ret) == IF h = "d2i_X509" THEN args.len ELSE ret

Succeeded(ret) == ret > 0

(* Variant with a defect: a failed call leaves the probe early.            *)
CleanedOnSuccess(h, k, ret) == scratch[h][k] # None /\ Succeeded(ret)

(* Every path of a return probe that found arguments deletes them, and     *)
(* d2i_X509's deletes them after a failed call without looking.            *)
Cleaned(h, k, ret) == scratch[h][k] # None

(* The event of a return probe, if it submits one: the call succeeded, the *)
(* ring had room, there is something to capture and it could be read.  The *)
(* field of is the call that returns; no program knows it.                 *)
Submitted(t, h, ret, readable) ==
    LET args == scratch[h][ScratchKey(t)]
        n == OriginalLen(h, args, ret)
    IN  IF /\ args # None
           /\ Succeeded(ret)
           /\ Len(ring[LoaderOf(h)]) < RingCap
           /\ h # "d2i_X509" => Capture(h, n) > 0
           /\ readable
        THEN <<[hook |-> h, thread |-> t, buf |-> args.buf, len |-> Capture(h, n),
                orig |-> n, of |-> call[h][t]]>>
        ELSE <<>>

Return(t, h, ret, readable) ==
    LET k == ScratchKey(t)
        runs == call[h][t].traced /\ attached[h] = 2
    IN  /\ call[h][t] # None
        /\ call' = [call EXCEPT ![h][t] = None]
        /\ scratch' = IF runs /\ Cleaned(h, k, ret) THEN [scratch EXCEPT ![h][k] = None] ELSE scratch
        /\ ring' = IF runs
                   THEN [ring EXCEPT ![LoaderOf(h)] = @ \o Submitted(t, h, ret, readable)]
                   ELSE ring
        /\ half' = IF ~runs /\ call[h][t].stored /\ attached[h] > 0
                   THEN half \cup {<<h, t>>} ELSE half
        /\ UNCHANGED <<loader, attached, calls>>

Results(h) == IF h = "d2i_X509" THEN {0, 1} ELSE Sizes
Lengths(h) == IF h = "d2i_X509" THEN Sizes ELSE {1}

Traced(t, h) ==
    \/ \E b \in Buffers, n \in Lengths(h), readable \in BOOLEAN : Enter(t, h, b, n, readable)
    \/ \E ret \in Results(h), readable \in BOOLEAN : Return(t, h, ret, readable)

(* The reflector's loop takes an event from a ring buffer.                 *)
Take(l) ==
    /\ loader[l] = "loaded"
    /\ ring[l] # <<>>
    /\ ring' = [ring EXCEPT ![l] = Tail(@)]
    /\ UNCHANGED <<loader, attached, call, scratch, half, calls>>

ProbesNext ==
    \/ \E h \in Hooks : Attach(h)
    \/ \E l \in Loaders : Loaded(l) \/ LoadFails(l) \/ Unload(l) \/ Take(l)
    \/ \E t \in Threads, h \in Hooks : Traced(t, h)

ProbesSpec == ProbesInit /\ [][ProbesNext]_probeVars

=============================================================================
