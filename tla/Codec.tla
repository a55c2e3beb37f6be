------------------------------- MODULE Codec --------------------------------
(***************************************************************************)
(* A builtin object on its way through a codec: serialized, perhaps        *)
(* changed on the way (cut short, carrying a field of a newer producer,    *)
(* concatenated with a second serialization, which protobuf defines as a   *)
(* merge), and deserialized.                                               *)
(***************************************************************************)
EXTENDS BuiltinReaders

CONSTANTS
    Samples,        \* the objects that are sent, by type
    UnknownFields,  \* encoded fields that no decoder maps
    UnknownInTime,  \* those that a Timestamp may carry
    CutTypes        \* the batch types, whose buffers may be cut short

VARIABLES
    type,   \* the codec in use, "none" before the first object
    msg,    \* the objects that were serialized into wire
    wire,   \* the buffer
    edit,   \* what happened to it on the way
    result  \* what deserialize returned, <<>> before

vars == <<type, msg, wire, edit, result>>

Init == type = "none" /\ msg = <<>> /\ wire = <<>> /\ edit = "none" /\ result = <<>>

Serialize(t, m) ==
    /\ type = "none"
    /\ type' = t /\ msg' = <<m>> /\ wire' = serialize(t, m)
    /\ UNCHANGED <<edit, result>>

Sent == type # "none" /\ edit = "none" /\ result = <<>>

(* A producer with a newer schema adds a field, before or after the others.*)
AddUnknown(u) ==
    /\ Sent /\ edit' = "unknown"
    /\ wire' \in {u \o wire, wire \o u}
    /\ UNCHANGED <<type, msg, result>>

(* ... or inside the first object of a batch.                              *)
AddNestedUnknown(u) ==
    LET t == readTag(wire)
        body == readBytes(t.r)
    IN  /\ Sent /\ wire # <<>> /\ type \in Strict /\ edit' = "unknown"
        /\ wire' = message(t.field, body.v \o u) \o body.r
        /\ UNCHANGED <<type, msg, result>>

(* ... or inside the Timestamp an object begins with.                      *)
AddTimestampUnknown(u) ==
    LET t == readTag(wire)
        body == readBytes(t.r)
    IN  /\ Sent /\ wire # <<>> /\ t.field = 1 /\ Decoders[type].fields[1].arg = "Timestamp"
        /\ edit' = "unknown"
        /\ wire' \in {message(1, inner) \o body.r : inner \in {u \o body.v, body.v \o u}}
        /\ UNCHANGED <<type, msg, result>>

Merge(m) ==
    /\ Sent /\ edit' = "merge"
    /\ msg' = Append(msg, m) /\ wire' = wire \o serialize(type, m)
    /\ UNCHANGED <<type, result>>

Cut(n) ==
    /\ Sent /\ type \in CutTypes /\ edit' = "cut"
    /\ wire' = SubSeq(wire, 1, n)
    /\ UNCHANGED <<type, msg, result>>

Deserialize ==
    /\ type # "none" /\ result = <<>>
    /\ result' = <<deserialize(type, wire)>>
    /\ UNCHANGED <<type, msg, wire, edit>>

NextObject ==
    /\ result # <<>>
    /\ type' = "none" /\ msg' = <<>> /\ wire' = <<>> /\ edit' = "none" /\ result' = <<>>

Next ==
    \/ \E t \in DOMAIN Samples : \E m \in Samples[t] : Serialize(t, m)
    \/ \E u \in UnknownFields : AddUnknown(u) \/ AddNestedUnknown(u)
    \/ \E u \in UnknownInTime : AddTimestampUnknown(u)
    \/ Sent /\ \E m \in Samples[type] : Merge(m)
    \/ \E n \in 1 .. Len(wire) - 1 : Cut(n)
    \/ Deserialize
    \/ NextObject

Spec == Init /\ [][Next]_vars

-----------------------------------------------------------------------------
(* Type invariant: a decoded object has the members of its struct.         *)
TypeOK ==
    /\ type \in DOMAIN Samples \union {"none"}
    /\ \A i \in DOMAIN wire : wire[i] \in 0 .. 255
    /\ edit \in {"none", "unknown", "merge", "cut"}
    /\ result # <<>> => DOMAIN result[1].v = DOMAIN Decoders[type].initial

(* The part of an object its codec carries: annotations travel without     *)
(* their timestamp and topic (image_annotations_codec.hpp).                *)
Carried(t, m) ==
    IF t = "ImageAnnotations" THEN [m EXCEPT !.timestamp = 0, !.image_topic = <<>>] ELSE m

(* What deserialize makes of a buffer equals what was serialized into it,  *)
(* for every codec, and serializes to the same bytes again.  An empty      *)
(* batch has no bytes, and no bytes are an error.                          *)
RoundTrip ==
    /\ TypeOK
    /\ result # <<>> /\ edit = "none" =>
          IF wire = <<>> THEN ~result[1].ok
          ELSE /\ result[1].ok
               /\ result[1].v = Carried(type, msg[1])
               /\ serialize(type, result[1].v) = wire

(* A field no decoder maps changes nothing, whatever its wire type, beside *)
(* the fields of an object, of an object of a batch or of a timestamp      *)
(* ("false to let the loop skip the field", parseFields).  A varint inside *)
(* a Timestamp is another matter: the handler of decodeTimestamp has read  *)
(* it when it returns false, and the loop skips a second one.              *)
UnknownFieldsSkipped ==
    result # <<>> /\ edit = "unknown" =>
        result[1].ok /\ result[1].v = Carried(type, msg[1])

ListMembers ==
    {"fields", "transforms", "points", "circles", "texts", "deletions", "entities", "D"}
OptionalMembers ==
    {"time_origin_ns", "start_ns", "end_ns", "compressed_depth_min", "compressed_depth_max"}

(* protobuf's merge: repeated members are concatenated, others take the    *)
(* last value that is present.                                             *)
Merged(m, n) ==
    [f \in DOMAIN m |->
        IF f \in ListMembers THEN m[f] \o n[f]
        ELSE IF f \in OptionalMembers /\ n[f] = <<>> THEN m[f] ELSE n[f]]

(* Two serializations one after the other decode as their merge: no        *)
(* element of a list that arrives in two pieces is lost (the comment on D  *)
(* in deserializeCameraInfo).                                              *)
ConcatenationMerges ==
    result # <<>> /\ edit = "merge" /\ wire # <<>> =>
        result[1].ok /\ result[1].v = Carried(type, Merged(msg[1], msg[2]))

RECURSIVE WholeFields(_)
WholeFields(r) ==
    r = <<>> \/ LET t == readTag(r)
                    s == skip(t.type, t.r)
                IN  t.ok /\ s.ok /\ WholeFields(s.r)

(* A batch whose buffer ends inside one of its objects is refused, and one *)
(* that ends between two of them yields a prefix of the batch.             *)
CutBatchRefused ==
    result # <<>> /\ edit = "cut" /\ type \in CutTypes =>
        IF WholeFields(wire)
        THEN /\ result[1].ok
             /\ \A f \in ListMembers \cap DOMAIN msg[1] : IsPrefix(result[1].v[f], msg[1][f])
        ELSE ~result[1].ok
=============================================================================
