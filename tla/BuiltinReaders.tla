--------------------------- MODULE BuiltinReaders ---------------------------
(***************************************************************************)
(* The deserialize side of the builtin codecs.  Every decode function is a *)
(* loop that reads a tag, dispatches on the field number and skips what it *)
(* does not handle; it is given here by its dispatch table, a sequence     *)
(* indexed by field number, and run by one loop.  The loop comes in two    *)
(* forms: parseFields, which skips a field whenever its handler returns    *)
(* false, and the explicit loop of the batch and annotation decoders,      *)
(* which fails when a field it handles cannot be read.                     *)
(***************************************************************************)
EXTENDS BuiltinWriters

(* Entries of a dispatch table: the member a field is stored to, the wire  *)
(* type the handler insists on, and how the value is read.                 *)
Entry(name, type, kind, arg) == [name |-> name, type |-> type, kind |-> kind, arg |-> arg]

Double(name) == Entry(name, kFixed64, "double", "")
Diameter(name) == Entry(name, kFixed64, "diameter", "")
OptFloat(name) == Entry(name, kFixed32, "optFloat", "")
Varint(name, conversion) == Entry(name, kVarint, "varint", conversion)
Bytes(name) == Entry(name, kLengthDelimited, "bytes", "")
Packed32(name) == Entry(name, kLengthDelimited, "packed32", "")
PackedD(name) == Entry(name, kLengthDelimited, "packedDouble", "")
ArrayD(name, n) == Entry(name, kLengthDelimited, "arrayDouble", n)
Nested(name, type) == Entry(name, kLengthDelimited, "message", type)
OptNested(name, type) == Entry(name, kLengthDelimited, "optMessage", type)
Repeated(name, type) == Entry(name, kLengthDelimited, "repeated", type)
Unmapped == Entry("", -1, "", "")

-----------------------------------------------------------------------------
(* Conversions of a varint.                                                *)
lineTypeFromWire(v) == CASE v = 2 -> "kLineLoop" [] v = 3 -> "kLineList" [] OTHER -> "kLineStrip"

mapTopology(v) ==
    CASE v = 2 -> "kLineLoop" [] v = 3 -> "kLineStrip" [] v = 4 -> "kLineList"
      [] OTHER -> "kPoints"

datatypeFromWire(v) == IF v + 1 \in DOMAIN Datatypes THEN Datatypes[v + 1] ELSE "kUnknown"

levelFromWire(v) == IF v + 1 \in DOMAIN Levels THEN Levels[v + 1] ELSE "kUnknown"

convert(conversion, v) ==
    CASE conversion = "uint32" -> v % Two32
      [] conversion = "int32" -> asInt32(v)
      [] conversion = "int64" -> asInt64(v)
      [] conversion = "optInt64" -> <<asInt64(v)>>
      [] conversion = "bool" -> v # 0
      [] conversion = "lineType" -> lineTypeFromWire(v)
      [] conversion = "topology" -> mapTopology(v)
      [] conversion = "datatype" -> datatypeFromWire(v)
      [] conversion = "level" -> levelFromWire(v)
      [] conversion = "deletion" -> IF v = 1 THEN "kAll" ELSE "kMatchingId"

-----------------------------------------------------------------------------
(* Dispatch tables of the geometry decoders.                               *)
decodeTimestampFields == <<Varint("seconds", "int64"), Varint("nanos", "int32")>>
decodeVector3Fields == <<Double("x"), Double("y"), Double("z")>>
decodePoint3Fields == <<Double("x"), Double("y"), Double("z")>>
decodePoint2Fields == <<Double("x"), Double("y")>>
decodeQuaternionFields == <<Double("x"), Double("y"), Double("z"), Double("w")>>
decodePoseFields == <<Nested("position", "Vector3"), Nested("orientation", "Quaternion")>>
decodeColorFields == <<Double("r"), Double("g"), Double("b"), Double("a")>>
decodeAnnotationColorFields == <<Double("r"), Double("g"), Double("b"), Double("a")>>

(* Scene primitives.                                                       *)
decodeArrowPrimitiveFields ==
    <<Nested("pose", "Pose"), Double("shaft_length"), Double("shaft_diameter"),
      Double("head_length"), Double("head_diameter"), Nested("color", "Color")>>

decodeCubePrimitiveFields ==
    <<Nested("pose", "Pose"), Nested("size", "Vector3"), Nested("color", "Color")>>

decodeSpherePrimitiveFields ==
    <<Nested("pose", "Pose"), Nested("size", "Vector3"), Nested("color", "Color")>>

(* Slip: the two scales are swapped.                                       *)
decodeCylinderSwappedFields ==
    <<Nested("pose", "Pose"), Nested("size", "Vector3"), Double("top_scale"),
      Double("bottom_scale"), Nested("color", "Color")>>

decodeCylinderPrimitiveFields ==
    <<Nested("pose", "Pose"), Nested("size", "Vector3"), Double("bottom_scale"),
      Double("top_scale"), Nested("color", "Color")>>

decodeLinePrimitiveFields ==
    <<Varint("type", "lineType"), Nested("pose", "Pose"), Double("thickness"),
      Varint("scale_invariant", "bool"), Repeated("points", "Point3"),
      Nested("color", "Color"), Repeated("colors", "Color"), Packed32("indices")>>

decodeTrianglePrimitiveFields ==
    <<Nested("pose", "Pose"), Repeated("points", "Point3"), Nested("color", "Color"),
      Repeated("colors", "Color"), Packed32("indices")>>

decodeTextPrimitiveFields ==
    <<Nested("pose", "Pose"), Varint("billboard", "bool"), Double("font_size"),
      Varint("scale_invariant", "bool"), Nested("color", "Color"), Bytes("text")>>

decodeAxesPrimitiveFields ==
    <<Nested("pose", "Pose"), Double("length"), Double("thickness"),
      Varint("scale_invariant", "bool")>>

decodeModelPrimitiveFields ==
    <<Nested("pose", "Pose"), Nested("scale", "Vector3"), Nested("color", "Color"),
      Varint("override_color", "bool"), Bytes("url"), Bytes("media_type"), Bytes("data")>>

decodeSceneEntityDeletionFields ==
    <<Nested("timestamp", "Timestamp"), Varint("type", "deletion"), Bytes("id")>>

decodeKeyValuePairFields == <<Bytes("key"), Bytes("value")>>

decodeSceneEntityFields ==
    <<Nested("timestamp", "Timestamp"), Bytes("frame_id"), Bytes("id"),
      Nested("lifetime_ns", "Timestamp"), Varint("frame_locked", "bool"),
      Repeated("metadata", "KeyValuePair"), Repeated("arrows", "ArrowPrimitive"),
      Repeated("cubes", "CubePrimitive"), Repeated("spheres", "SpherePrimitive"),
      Repeated("cylinders", "CylinderPrimitive"), Repeated("lines", "LinePrimitive"),
      Repeated("triangles", "TrianglePrimitive"), Repeated("texts", "TextPrimitive"),
      Repeated("models", "ModelPrimitive"), Repeated("axes", "AxesPrimitive")>>

deserializeSceneEntitiesFields ==
    <<Repeated("deletions", "SceneEntityDeletion"), Repeated("entities", "SceneEntity")>>

(* Image annotations; field 1 of each is a timestamp nobody maps.          *)
decodePointsAnnotationFields ==
    <<Unmapped, Varint("topology", "topology"), Repeated("points", "Point2"),
      Nested("color", "AnnotationColor"), Repeated("colors", "AnnotationColor"),
      Nested("fill_color", "AnnotationColor"), Double("thickness")>>

decodeCircleAnnotationFields ==
    <<Unmapped, Nested("center", "Point2"), Diameter("radius"), Double("thickness"),
      Nested("fill_color", "AnnotationColor"), Nested("color", "AnnotationColor")>>

decodeTextAnnotationFields ==
    <<Unmapped, Nested("position", "Point2"), Bytes("text"), Double("font_size"),
      Nested("color", "AnnotationColor")>>

deserializeImageAnnotationsFields ==
    <<Repeated("circles", "CircleAnnotation"), Repeated("points", "PointsAnnotation"),
      Repeated("texts", "TextAnnotation")>>

(* The other codecs.                                                       *)
decodeFrameTransformFields ==
    <<Nested("timestamp", "Timestamp"), Bytes("parent_frame_id"), Bytes("child_frame_id"),
      Nested("translation", "Vector3"), Nested("rotation", "Quaternion")>>

deserializeFrameTransformsFields == <<Repeated("transforms", "FrameTransform")>>

decodePointFieldFields ==
    <<Bytes("name"), Varint("offset", "uint32"), Varint("datatype", "datatype"),
      Varint("count", "uint32")>>

deserializePointCloudFields ==
    <<Nested("timestamp_ns", "Timestamp"), Varint("width", "uint32"), Varint("height", "uint32"),
      Varint("point_step", "uint32"), Varint("row_step", "uint32"),
      Varint("is_bigendian", "bool"), Varint("is_dense", "bool"),
      Repeated("fields", "PointField"), Bytes("data"), Bytes("frame_id")>>

deserializeCompressedPointCloudFields ==
    <<Nested("timestamp_ns", "Timestamp"), Bytes("frame_id"), Bytes("format"), Bytes("data")>>

deserializeVideoFrameFields ==
    <<Nested("timestamp_ns", "Timestamp"), Bytes("frame_id"), Bytes("format"), Bytes("data")>>

deserializeImageFields ==
    <<Nested("timestamp_ns", "Timestamp"), Varint("width", "uint32"), Varint("height", "uint32"),
      Bytes("encoding"), Varint("row_step", "uint32"), Varint("is_bigendian", "bool"),
      Bytes("data"), OptFloat("compressed_depth_min"), OptFloat("compressed_depth_max")>>

deserializeDepthImageFields ==
    <<Nested("timestamp_ns", "Timestamp"), Varint("width", "uint32"), Varint("height", "uint32"),
      Bytes("encoding"), Bytes("data"), ArrayD("K", 9), Bytes("distortion_model"), PackedD("D")>>

(* Slip: D is replaced instead of appended to, as the fixed arrays are.    *)
deserializeCameraInfoReplacingFields ==
    <<Nested("timestamp_ns", "Timestamp"), Bytes("frame_id"), Varint("width", "uint32"),
      Varint("height", "uint32"), Bytes("distortion_model"), ArrayD("D", 2), ArrayD("K", 9),
      ArrayD("R", 9), ArrayD("P", 12)>>

deserializeCameraInfoFields ==
    <<Nested("timestamp_ns", "Timestamp"), Bytes("frame_id"), Varint("width", "uint32"),
      Varint("height", "uint32"), Bytes("distortion_model"), PackedD("D"), ArrayD("K", 9),
      ArrayD("R", 9), ArrayD("P", 12)>>

deserializeOccupancyGridFields ==
    <<Nested("timestamp_ns", "Timestamp"), Bytes("frame_id"), Nested("origin", "Pose"),
      Double("resolution"), Varint("width", "uint32"), Varint("height", "uint32"), Bytes("data")>>

deserializeOccupancyGridUpdateFields ==
    <<Nested("timestamp_ns", "Timestamp"), Bytes("frame_id"), Varint("x", "int32"),
      Varint("y", "int32"), Varint("width", "uint32"), Varint("height", "uint32"), Bytes("data")>>

deserializeMesh3DFields ==
    <<Nested("timestamp_ns", "Timestamp"), Bytes("frame_id"), Bytes("id"), Nested("pose", "Pose"),
      Nested("scale", "Vector3"), Bytes("format"), Bytes("data"), Bytes("url"),
      Nested("color", "Color"), Varint("override_color", "bool")>>

deserializeAssetVideoFields ==
    <<OptNested("time_origin_ns", "Timestamp"), Unmapped, Bytes("file_path"), Bytes("media_type"),
      Varint("width", "uint32"), Varint("height", "uint32"), Double("frame_rate"),
      Varint("start_ns", "optInt64"), Varint("end_ns", "optInt64")>>

deserializeLogFields ==
    <<Nested("timestamp_ns", "Timestamp"), Varint("level", "level"), Bytes("message"),
      Bytes("name")>>

-----------------------------------------------------------------------------
(* The value a decode function starts from and its table.                  *)
Decoder(initial, fields) == [initial |-> initial, fields |-> fields]

Decoders ==
    [Timestamp |-> Decoder([seconds |-> 0, nanos |-> 0], decodeTimestampFields),
     Color |-> Decoder([r |-> 0, g |-> 0, b |-> 0, a |-> 0], decodeColorFields),
     AnnotationColor |->
         Decoder([r |-> 0, g |-> 0, b |-> 0, a |-> One], decodeAnnotationColorFields),
     Vector3 |-> Decoder(Vector3, decodeVector3Fields),
     Point3 |-> Decoder(Point3, decodePoint3Fields),
     Point2 |-> Decoder(Point2, decodePoint2Fields),
     Quaternion |-> Decoder(Quaternion, decodeQuaternionFields),
     Pose |-> Decoder(Pose, decodePoseFields),
     ArrowPrimitive |-> Decoder(ArrowPrimitive, decodeArrowPrimitiveFields),
     CubePrimitive |-> Decoder(CubePrimitive, decodeCubePrimitiveFields),
     SpherePrimitive |-> Decoder(SpherePrimitive, decodeSpherePrimitiveFields),
     CylinderPrimitive |-> Decoder(CylinderPrimitive, decodeCylinderPrimitiveFields),
     LinePrimitive |-> Decoder(LinePrimitive, decodeLinePrimitiveFields),
     TrianglePrimitive |-> Decoder(TrianglePrimitive, decodeTrianglePrimitiveFields),
     TextPrimitive |-> Decoder(TextPrimitive, decodeTextPrimitiveFields),
     AxesPrimitive |-> Decoder(AxesPrimitive, decodeAxesPrimitiveFields),
     ModelPrimitive |-> Decoder(ModelPrimitive, decodeModelPrimitiveFields),
     KeyValuePair |-> Decoder(KeyValuePair, decodeKeyValuePairFields),
     SceneEntityDeletion |-> Decoder(SceneEntityDeletion, decodeSceneEntityDeletionFields),
     SceneEntity |-> Decoder(SceneEntity, decodeSceneEntityFields),
     SceneEntities |-> Decoder(SceneEntities, deserializeSceneEntitiesFields),
     PointsAnnotation |-> Decoder(PointsAnnotation, decodePointsAnnotationFields),
     CircleAnnotation |-> Decoder(CircleAnnotation, decodeCircleAnnotationFields),
     TextAnnotation |-> Decoder(TextAnnotation, decodeTextAnnotationFields),
     ImageAnnotations |-> Decoder(ImageAnnotations, deserializeImageAnnotationsFields),
     FrameTransform |-> Decoder(FrameTransform, decodeFrameTransformFields),
     FrameTransforms |-> Decoder(FrameTransforms, deserializeFrameTransformsFields),
     PointField |-> Decoder(PointField, decodePointFieldFields),
     PointCloud |-> Decoder(PointCloud, deserializePointCloudFields),
     CompressedPointCloud |->
         Decoder(CompressedPointCloud, deserializeCompressedPointCloudFields),
     VideoFrame |-> Decoder(VideoFrame, deserializeVideoFrameFields),
     Image |-> Decoder(Image, deserializeImageFields),
     DepthImage |-> Decoder(DepthImage, deserializeDepthImageFields),
     CameraInfo |-> Decoder(CameraInfo, deserializeCameraInfoFields),
     OccupancyGrid |-> Decoder(OccupancyGrid, deserializeOccupancyGridFields),
     OccupancyGridUpdate |-> Decoder(OccupancyGridUpdate, deserializeOccupancyGridUpdateFields),
     Mesh3D |-> Decoder(Mesh3D, deserializeMesh3DFields),
     AssetVideo |-> Decoder(AssetVideo, deserializeAssetVideoFields),
     Log |-> Decoder(Log, deserializeLogFields)]

(* Slip: every decoder is the generic loop, which skips what it could not  *)
(* read.                                                                   *)
StrictNone == {}

(* The decoders with an explicit loop.                                     *)
Strict ==
    {"SceneEntities", "FrameTransforms", "ImageAnnotations", "PointsAnnotation",
     "CircleAnnotation", "TextAnnotation", "Point2", "AnnotationColor"}

(* What a decode function leaves in its out parameter once its loop ended. *)
finish(type, old, m) ==
    CASE type = "Timestamp" -> combineTimestamp(m)
      [] type \in {"Color", "AnnotationColor"} ->
             [ok |-> TRUE, v |-> [c \in DOMAIN m |-> normalizedToByte(m[c])]]
      [] OTHER -> [ok |-> TRUE, v |-> m]

(* The decoders that build their result in locals: a failure leaves the    *)
(* out parameter alone.  The others fill it as they go.                    *)
Buffered == {"Timestamp", "Color", "AnnotationColor"}

RECURSIVE decode(_, _, _), parseFields(_, _, _), dispatch(_, _, _, _),
          handled(_, _, _, _, _), skipped(_, _, _), readField(_, _, _)

(* A member after its handler read x and would store v.                    *)
scalar(x, v, old) == [ok |-> x.ok, v |-> IF x.ok THEN v ELSE old, r |-> x.r]
asRead(x, old) == scalar(x, x.v, old)
halved(x, old) == scalar(x, x.v \div 2, old)
optional(x, old) == scalar(x, <<x.v>>, old)
converted(x, conversion, old) == scalar(x, convert(conversion, x.v), old)
appended(x, old) == scalar(x, old \o x.v, old)

(* The same for a nested message, decoded as m; a message that is decoded  *)
(* in place keeps what was read of it before it failed.                    *)
stored(kind, m, r, old) ==
    [ok |-> m.ok, r |-> r,
     v |-> CASE kind = "message" -> m.v
             [] kind = "repeated" -> IF m.ok THEN Append(old, m.v) ELSE old
             [] kind = "optMessage" -> IF m.ok THEN <<m.v>> ELSE old]

readNested(entry, nested, old) ==
    IF ~nested.ok THEN [ok |-> FALSE, v |-> old, r |-> nested.r]
    ELSE stored(entry.kind,
                decode(entry.arg, nested.v,
                       IF entry.kind = "message" THEN old ELSE Decoders[entry.arg].initial),
                nested.r, old)

(* One field into the member that holds old; on failure v is what the      *)
(* member holds then.                                                      *)
readField(entry, r, old) ==
    LET kind == entry.kind
    IN  CASE kind = "double" -> asRead(readDouble(r), old)
          [] kind = "diameter" -> halved(readDouble(r), old)
          [] kind = "optFloat" -> optional(readFloat(r), old)
          [] kind = "varint" -> converted(readVarint(r), entry.arg, old)
          [] kind = "bytes" -> asRead(readBytes(r), old)
          [] kind = "packed32" -> appended(readPackedFixed32(r), old)
          [] kind = "packedDouble" -> appended(readPackedDouble(r), old)
          [] kind = "arrayDouble" -> asRead(readPackedDoubleArray(r, entry.arg), old)
          [] kind \in {"message", "optMessage", "repeated"} -> readNested(entry, readBytes(r), old)

(* The loop goes on behind a field that was skipped, or ends.              *)
skipped(type, s, m) ==
    IF s.ok THEN parseFields(type, s.r, m) ELSE [ok |-> FALSE, v |-> m]

(* ... or behind one its handler read.  parseFields skips a field whose    *)
(* handler returned false, also when the handler had consumed it.          *)
handled(type, wireType, name, field, m) ==
    LET filled == [m EXCEPT ![name] = field.v]
    IN  IF field.ok THEN parseFields(type, field.r, filled)
        ELSE IF type \in Strict THEN [ok |-> FALSE, v |-> filled]
        ELSE skipped(type, skip(wireType, field.r), filled)

(* The handler of the field t names; that of Timestamp reads a varint      *)
(* before it looks at the field number.                                    *)
dispatch(type, fields, t, m) ==
    LET entry == fields[t.field]
    IN  IF ~t.ok THEN [ok |-> FALSE, v |-> m]
        ELSE IF t.field \in DOMAIN fields /\ entry.type = t.type
        THEN handled(type, t.type, entry.name, readField(entry, t.r, m[entry.name]), m)
        ELSE skipped(type, skip(t.type, IF type = "Timestamp" /\ t.type = kVarint
                                        THEN readVarint(t.r).r ELSE t.r), m)

parseFields(type, r, m) ==
    IF r = <<>> THEN [ok |-> TRUE, v |-> m]
    ELSE dispatch(type, Decoders[type].fields, readTag(r), m)

(* The end of a decode function, after its loop.                           *)
decoded(type, old, parsed) ==
    LET done == finish(type, old, parsed.v)
    IN  IF parsed.ok /\ done.ok THEN [ok |-> TRUE, v |-> done.v]
        ELSE [ok |-> FALSE, v |-> IF type \in Buffered THEN old ELSE parsed.v]

decode(type, r, old) ==
    decoded(type, old,
            parseFields(type, r, IF type \in Buffered THEN Decoders[type].initial ELSE old))

(* deserialize of every codec: an empty buffer is an error.                *)
deserialize(type, data) ==
    IF data = <<>> THEN [ok |-> FALSE, v |-> Decoders[type].initial]
    ELSE decode(type, data, Decoders[type].initial)
=============================================================================
