--------------------------- MODULE BuiltinWriters ---------------------------
(***************************************************************************)
(* The serialize side of the builtin codecs (pj_base/src/builtin): the     *)
(* bytes each write function appends and each serialize function returns.  *)
(***************************************************************************)
EXTENDS BuiltinObjects

(* for (x : xs) writer.message(field, write x), on the written bodies.     *)
messages(field, bodies) == FlattenSeq([i \in DOMAIN bodies |-> message(field, bodies[i])])

flag(b) == IF b THEN 1 ELSE 0

-----------------------------------------------------------------------------
(* Geometry.                                                               *)
writeVector3(v) == doubleField(1, v.x) \o doubleField(2, v.y) \o doubleField(3, v.z)
writePoint3(p) == doubleField(1, p.x) \o doubleField(2, p.y) \o doubleField(3, p.z)
writePoint2(p) == doubleField(1, p.x) \o doubleField(2, p.y)

writeQuaternion(q) ==
    doubleField(1, q.x) \o doubleField(2, q.y) \o doubleField(3, q.z) \o doubleField(4, q.w)

writePose(p) == message(1, writeVector3(p.position)) \o message(2, writeQuaternion(p.orientation))

writeColor(c) ==
    doubleField(1, byteToNormalized(c.r)) \o doubleField(2, byteToNormalized(c.g))
    \o doubleField(3, byteToNormalized(c.b)) \o doubleField(4, byteToNormalized(c.a))

-----------------------------------------------------------------------------
(* Enumerations.  An SDK enumerator is its name.                           *)
lineTypeToWire(type) ==
    CASE type = "kLineStrip" -> 1 [] type = "kLineLoop" -> 2 [] type = "kLineList" -> 3

topologyToEnum(topology) ==
    CASE topology = "kPoints" -> 1 [] topology = "kLineLoop" -> 2
      [] topology = "kLineStrip" -> 3 [] topology = "kLineList" -> 4

Datatypes ==
    <<"kUnknown", "kInt8", "kUint8", "kInt16", "kUint16", "kInt32", "kUint32", "kFloat32",
      "kFloat64">>

datatypeToWire(dt) == (CHOOSE i \in DOMAIN Datatypes : Datatypes[i] = dt) - 1

Levels == <<"kUnknown", "kDebug", "kInfo", "kWarning", "kError", "kFatal">>

levelToWire(level) == (CHOOSE i \in DOMAIN Levels : Levels[i] = level) - 1

-----------------------------------------------------------------------------
(* Scene primitives.                                                       *)
writeArrowPrimitive(p) ==
    message(1, writePose(p.pose)) \o doubleField(2, p.shaft_length)
    \o doubleField(3, p.shaft_diameter) \o doubleField(4, p.head_length)
    \o doubleField(5, p.head_diameter) \o message(6, writeColor(p.color))

writeCubePrimitive(p) ==
    message(1, writePose(p.pose)) \o message(2, writeVector3(p.size))
    \o message(3, writeColor(p.color))

writeSpherePrimitive(p) ==
    message(1, writePose(p.pose)) \o message(2, writeVector3(p.size))
    \o message(3, writeColor(p.color))

writeCylinderPrimitive(p) ==
    message(1, writePose(p.pose)) \o message(2, writeVector3(p.size))
    \o doubleField(3, p.bottom_scale) \o doubleField(4, p.top_scale)
    \o message(5, writeColor(p.color))

writeLinePrimitive(p) ==
    varint(1, lineTypeToWire(p.type)) \o message(2, writePose(p.pose))
    \o doubleField(3, p.thickness) \o varint(4, flag(p.scale_invariant))
    \o messages(5, [i \in DOMAIN p.points |-> writePoint3(p.points[i])])
    \o message(6, writeColor(p.color))
    \o messages(7, [i \in DOMAIN p.colors |-> writeColor(p.colors[i])])
    \o packedFixed32(8, p.indices)

writeTrianglePrimitive(p) ==
    message(1, writePose(p.pose))
    \o messages(2, [i \in DOMAIN p.points |-> writePoint3(p.points[i])])
    \o message(3, writeColor(p.color))
    \o messages(4, [i \in DOMAIN p.colors |-> writeColor(p.colors[i])])
    \o packedFixed32(5, p.indices)

writeTextPrimitive(p) ==
    message(1, writePose(p.pose)) \o varint(2, flag(p.billboard)) \o doubleField(3, p.font_size)
    \o varint(4, flag(p.scale_invariant)) \o message(5, writeColor(p.color)) \o string(6, p.text)

writeAxesPrimitive(p) ==
    message(1, writePose(p.pose)) \o doubleField(2, p.length) \o doubleField(3, p.thickness)
    \o varint(4, flag(p.scale_invariant))

writeModelPrimitive(p) ==
    message(1, writePose(p.pose)) \o message(2, writeVector3(p.scale))
    \o message(3, writeColor(p.color)) \o varint(4, flag(p.override_color)) \o string(5, p.url)
    \o string(6, p.media_type) \o (IF p.data = <<>> THEN <<>> ELSE bytes(7, p.data))

writeSceneEntityDeletion(d) ==
    message(1, writeTimestamp(d.timestamp)) \o varint(2, flag(d.type = "kAll"))
    \o string(3, d.id)

writeKeyValuePair(kv) == string(1, kv.key) \o string(2, kv.value)

writeSceneEntity(e) ==
    message(1, writeTimestamp(e.timestamp)) \o string(2, e.frame_id) \o string(3, e.id)
    \o message(4, writeTimestamp(e.lifetime_ns)) \o varint(5, flag(e.frame_locked))
    \o messages(6, [i \in DOMAIN e.metadata |-> writeKeyValuePair(e.metadata[i])])
    \o messages(7, [i \in DOMAIN e.arrows |-> writeArrowPrimitive(e.arrows[i])])
    \o messages(8, [i \in DOMAIN e.cubes |-> writeCubePrimitive(e.cubes[i])])
    \o messages(9, [i \in DOMAIN e.spheres |-> writeSpherePrimitive(e.spheres[i])])
    \o messages(10, [i \in DOMAIN e.cylinders |-> writeCylinderPrimitive(e.cylinders[i])])
    \o messages(11, [i \in DOMAIN e.lines |-> writeLinePrimitive(e.lines[i])])
    \o messages(12, [i \in DOMAIN e.triangles |-> writeTrianglePrimitive(e.triangles[i])])
    \o messages(13, [i \in DOMAIN e.texts |-> writeTextPrimitive(e.texts[i])])
    \o messages(14, [i \in DOMAIN e.models |-> writeModelPrimitive(e.models[i])])
    \o messages(15, [i \in DOMAIN e.axes |-> writeAxesPrimitive(e.axes[i])])

(* deletions are field 1, entities field 2.                                *)
serializeSceneEntities(s) ==
    messages(1, [i \in DOMAIN s.deletions |-> writeSceneEntityDeletion(s.deletions[i])])
    \o messages(2, [i \in DOMAIN s.entities |-> writeSceneEntity(s.entities[i])])

-----------------------------------------------------------------------------
(* Image annotations; the timestamp and the image topic are not written.   *)
writePointsAnnotation(a) ==
    varint(2, topologyToEnum(a.topology))
    \o messages(3, [i \in DOMAIN a.points |-> writePoint2(a.points[i])])
    \o message(4, writeColor(a.color))
    \o messages(5, [i \in DOMAIN a.colors |-> writeColor(a.colors[i])])
    \o message(6, writeColor(a.fill_color)) \o doubleField(7, a.thickness)

writeCircleAnnotation(a) ==
    message(2, writePoint2(a.center)) \o doubleField(3, a.radius * 2)
    \o doubleField(4, a.thickness) \o message(5, writeColor(a.fill_color))
    \o message(6, writeColor(a.color))

writeTextAnnotation(a) ==
    message(2, writePoint2(a.position)) \o string(3, a.text) \o doubleField(4, a.font_size)
    \o message(5, writeColor(a.color))

serializeImageAnnotations(a) ==
    messages(1, [i \in DOMAIN a.circles |-> writeCircleAnnotation(a.circles[i])])
    \o messages(2, [i \in DOMAIN a.points |-> writePointsAnnotation(a.points[i])])
    \o messages(3, [i \in DOMAIN a.texts |-> writeTextAnnotation(a.texts[i])])

-----------------------------------------------------------------------------
(* The other codecs.                                                       *)
writeFrameTransform(t) ==
    message(1, writeTimestamp(t.timestamp)) \o string(2, t.parent_frame_id)
    \o string(3, t.child_frame_id) \o message(4, writeVector3(t.translation))
    \o message(5, writeQuaternion(t.rotation))

serializeFrameTransforms(t) ==
    messages(1, [i \in DOMAIN t.transforms |-> writeFrameTransform(t.transforms[i])])

writePointField(f) ==
    string(1, f.name) \o varint(2, f.offset) \o varint(3, datatypeToWire(f.datatype))
    \o varint(4, f.count)

serializePointCloud(c) ==
    message(1, writeTimestamp(c.timestamp_ns)) \o varint(2, c.width) \o varint(3, c.height)
    \o varint(4, c.point_step) \o varint(5, c.row_step) \o varint(6, flag(c.is_bigendian))
    \o varint(7, flag(c.is_dense))
    \o messages(8, [i \in DOMAIN c.fields |-> writePointField(c.fields[i])])
    \o bytes(9, c.data) \o string(10, c.frame_id)

serializeCompressedPointCloud(c) ==
    message(1, writeTimestamp(c.timestamp_ns)) \o string(2, c.frame_id) \o string(3, c.format)
    \o bytes(4, c.data)

serializeVideoFrame(f) ==
    message(1, writeTimestamp(f.timestamp_ns)) \o string(2, f.frame_id) \o string(3, f.format)
    \o bytes(4, f.data)

serializeImage(m) ==
    message(1, writeTimestamp(m.timestamp_ns)) \o varint(2, m.width) \o varint(3, m.height)
    \o string(4, m.encoding) \o varint(5, m.row_step) \o varint(6, flag(m.is_bigendian))
    \o bytes(7, m.data)
    \o (IF m.compressed_depth_min = <<>> THEN <<>> ELSE floatField(8, m.compressed_depth_min[1]))
    \o (IF m.compressed_depth_max = <<>> THEN <<>> ELSE floatField(9, m.compressed_depth_max[1]))

serializeDepthImage(d) ==
    message(1, writeTimestamp(d.timestamp_ns)) \o varint(2, d.width) \o varint(3, d.height)
    \o string(4, d.encoding) \o bytes(5, d.data) \o packedDouble(6, d.K)
    \o string(7, d.distortion_model) \o packedDouble(8, d.D)

serializeCameraInfo(c) ==
    message(1, writeTimestamp(c.timestamp_ns)) \o string(2, c.frame_id) \o varint(3, c.width)
    \o varint(4, c.height) \o string(5, c.distortion_model) \o packedDouble(6, c.D)
    \o packedDouble(7, c.K) \o packedDouble(8, c.R) \o packedDouble(9, c.P)

serializeOccupancyGrid(g) ==
    message(1, writeTimestamp(g.timestamp_ns)) \o string(2, g.frame_id)
    \o message(3, writePose(g.origin)) \o doubleField(4, g.resolution) \o varint(5, g.width)
    \o varint(6, g.height) \o bytes(7, g.data)

(* The offsets are signed: their 32-bit pattern is written.                *)
serializeOccupancyGridUpdate(u) ==
    message(1, writeTimestamp(u.timestamp_ns)) \o string(2, u.frame_id)
    \o varint(3, u.x % Two32) \o varint(4, u.y % Two32) \o varint(5, u.width)
    \o varint(6, u.height) \o bytes(7, u.data)

serializeMesh3D(m) ==
    message(1, writeTimestamp(m.timestamp_ns)) \o string(2, m.frame_id) \o string(3, m.id)
    \o message(4, writePose(m.pose)) \o message(5, writeVector3(m.scale)) \o string(6, m.format)
    \o bytes(7, m.data) \o string(8, m.url) \o message(9, writeColor(m.color))
    \o varint(10, flag(m.override_color))

(* The optional fields are left out when they are empty.                   *)
serializeAssetVideo(a) ==
    (IF a.time_origin_ns = <<>> THEN <<>> ELSE message(1, writeTimestamp(a.time_origin_ns[1])))
    \o string(3, a.file_path) \o string(4, a.media_type) \o varint(5, a.width)
    \o varint(6, a.height) \o doubleField(7, a.frame_rate)
    \o (IF a.start_ns = <<>> THEN <<>> ELSE varint(8, a.start_ns[1] % Two64))
    \o (IF a.end_ns = <<>> THEN <<>> ELSE varint(9, a.end_ns[1] % Two64))

serializeLog(l) ==
    message(1, writeTimestamp(l.timestamp_ns)) \o varint(2, levelToWire(l.level))
    \o string(3, l.message) \o string(4, l.name)

serialize(type, m) ==
    CASE type = "Image" -> serializeImage(m)
      [] type = "DepthImage" -> serializeDepthImage(m)
      [] type = "CameraInfo" -> serializeCameraInfo(m)
      [] type = "PointCloud" -> serializePointCloud(m)
      [] type = "CompressedPointCloud" -> serializeCompressedPointCloud(m)
      [] type = "VideoFrame" -> serializeVideoFrame(m)
      [] type = "AssetVideo" -> serializeAssetVideo(m)
      [] type = "Log" -> serializeLog(m)
      [] type = "Mesh3D" -> serializeMesh3D(m)
      [] type = "OccupancyGrid" -> serializeOccupancyGrid(m)
      [] type = "OccupancyGridUpdate" -> serializeOccupancyGridUpdate(m)
      [] type = "FrameTransforms" -> serializeFrameTransforms(m)
      [] type = "ImageAnnotations" -> serializeImageAnnotations(m)
      [] type = "SceneEntities" -> serializeSceneEntities(m)
=============================================================================
