------------------------------- MODULE Extract -------------------------------
(***************************************************************************)
(* What the extractors (internal/extract) find in captured plaintext.  A   *)
(* captured call is a prefix of the bytes one SSL_write or SSL_read moved: *)
(* the hook copies at most 4096 of them.  A message stands for the bytes   *)
(* by the offsets that decide:                                             *)
(*   path      "http" or "grpc" for an OTLP export, "other" otherwise      *)
(*   line      end of "POST <path> "; header  end of the blank line        *)
(*   length    the Content-Length, 0 when none is stated                   *)
(*   frame     the message length in the gRPC prefix                       *)
(*   entries   the top-level fields 1 of the protobuf body, each with the  *)
(*             ends of its tag and of itself and its service.name          *)
(*   marks     tokens and tool calls, with the bytes it takes to see them: *)
(*             a JWT up to its second dot, a Boundary token up to the end  *)
(*             of its prefix, a tool call up to the end of the JSON body   *)
(* Character-level parsing, encodings and the other fields of the results  *)
(* are left out.                                                           *)
(***************************************************************************)
EXTENDS Integers, Sequences, FiniteSets

NoService == ""
NoBody == [start |-> 0, bytes |-> 0]
NotOTLP == [found |-> FALSE]
Signal(truncated, raw, service, batch) ==
    [found |-> TRUE, truncated |-> truncated, raw |-> raw, service |-> service, batch |-> batch]

GRPCPrefix == 5

(* The offset of the body, if the capture gets as far as the blank line    *)
findHeaderEnd(msg, captured) == IF msg.header <= captured THEN msg.header ELSE -1

(* protoFirstMessage: the first entry, unless it is cut off                *)
protoFirstMessage(msg, bytes) ==
    IF msg.entries # <<>> /\ msg.entries[1].end <= bytes THEN {msg.entries[1]} ELSE {}

(* extractServiceName looks into the first entry only.                     *)
extractServiceName(msg, bytes) ==
    IF protoFirstMessage(msg, bytes) = {} THEN NoService ELSE msg.entries[1].service

(* countTopLevelEntries counts an entry when it has read its tag.          *)
countTopLevelEntries(msg, bytes) ==
    Cardinality({i \in DOMAIN msg.entries : msg.entries[i].tag <= bytes})

(* Variant with a defect: the header counts as body                        *)
IsTruncatedWithHeader(msg, captured) == msg.length > 0 /\ captured < msg.length

IsTruncated(msg, captured) == msg.length > 0 /\ captured - msg.header < msg.length

(* The protobuf message in a body of so many bytes: all of it, or what     *)
(* follows the gRPC prefix.  NoBody for a partial frame.                   *)
ProtoBody(msg, body) ==
    IF msg.path # "grpc" \/ body < GRPCPrefix THEN [start |-> 0, bytes |-> body]
    ELSE IF msg.frame > 0 /\ body >= GRPCPrefix + msg.frame
         THEN [start |-> GRPCPrefix, bytes |-> msg.frame]
    ELSE NoBody

(* A piece of the prefix is no protobuf.                                   *)
Parsable(msg, proto) == msg.path = "grpc" => proto.start = GRPCPrefix

ExtractOTLPFromTLS(msg, captured) ==
    LET proto == ProtoBody(msg, captured - msg.header)
        known == IF Parsable(msg, proto) THEN proto.bytes ELSE 0
    IN  IF msg.path = "other" \/ captured < msg.line THEN NotOTLP
        ELSE IF findHeaderEnd(msg, captured) \in {-1, captured} \/ proto = NoBody
             THEN Signal(TRUE, NoBody, NoService, 0)
        ELSE Signal(IsTruncated(msg, captured),
                    IF IsTruncated(msg, captured) THEN NoBody ELSE proto,
                    extractServiceName(msg, known), countTopLevelEntries(msg, known))

(* One extractor's find: a mark of its kind, if the capture reaches it     *)
Visible(msg, captured, kind) ==
    IF \E m \in msg.marks : m.kind = kind /\ m.seen <= captured THEN <<kind>> ELSE <<>>

(* ExtractIdentitiesFromTLS: OTLP alone, otherwise what the captured bytes *)
(* let the extractors see, in the order the loop sends it.  A request has  *)
(* one bearer token, which is a JWT or perhaps Boundary's.                 *)
ExtractIdentitiesFromTLS(msg, captured) ==
    IF ExtractOTLPFromTLS(msg, captured).found THEN <<"OTLP">>
    ELSE Visible(msg, captured, "JWT") \o Visible(msg, captured, "MCP")
           \o Visible(msg, captured, "BOUNDARY")
=============================================================================
