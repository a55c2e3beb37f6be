--------------------------- MODULE BuiltinObjects ---------------------------
(***************************************************************************)
(* The builtin objects of the SDK (pj_base/builtin): each definition is    *)
(* the default-constructed value of the struct of that name.  Strings and  *)
(* byte spans are sequences of bytes, vectors are sequences, an optional   *)
(* is the empty sequence or the sequence of its one value; the anchor of a *)
(* byte-backed object carries no data and is left out.                     *)
(***************************************************************************)
EXTENDS Wire

Vector3 == [x |-> 0, y |-> 0, z |-> 0]
Point3 == [x |-> 0, y |-> 0, z |-> 0]
Point2 == [x |-> 0, y |-> 0]
Quaternion == [x |-> 0, y |-> 0, z |-> 0, w |-> One]
Pose == [position |-> Vector3, orientation |-> Quaternion]
ColorRGBA == [r |-> 0, g |-> 0, b |-> 0, a |-> 255]

kGreen == [r |-> 0, g |-> 255, b |-> 0, a |-> 255]
kWhite == [r |-> 255, g |-> 255, b |-> 255, a |-> 255]
kClear == [r |-> 0, g |-> 0, b |-> 0, a |-> 0]

zeros(n) == [i \in 1 .. n |-> 0]

-----------------------------------------------------------------------------
(* Byte-backed and scalar objects.                                         *)
Image ==
    [width |-> 0, height |-> 0, encoding |-> <<>>, row_step |-> 0, is_bigendian |-> FALSE,
     data |-> <<>>, compressed_depth_min |-> <<>>, compressed_depth_max |-> <<>>,
     timestamp_ns |-> 0]

DepthImage ==
    [width |-> 0, height |-> 0, encoding |-> <<>>, data |-> <<>>, K |-> zeros(9),
     distortion_model |-> <<>>, D |-> <<>>, timestamp_ns |-> 0]

CameraInfo ==
    [timestamp_ns |-> 0, frame_id |-> <<>>, width |-> 0, height |-> 0,
     distortion_model |-> <<>>, D |-> <<>>, K |-> zeros(9), R |-> zeros(9), P |-> zeros(12)]

PointField == [name |-> <<>>, offset |-> 0, datatype |-> "kUnknown", count |-> 1]

PointCloud ==
    [width |-> 0, height |-> 1, point_step |-> 0, row_step |-> 0, is_bigendian |-> FALSE,
     is_dense |-> TRUE, frame_id |-> <<>>, fields |-> <<>>, data |-> <<>>, timestamp_ns |-> 0]

CompressedPointCloud ==
    [timestamp_ns |-> 0, frame_id |-> <<>>, format |-> <<>>, data |-> <<>>]

VideoFrame == [timestamp_ns |-> 0, frame_id |-> <<>>, format |-> <<>>, data |-> <<>>]

AssetVideo ==
    [time_origin_ns |-> <<>>, start_ns |-> <<>>, end_ns |-> <<>>, file_path |-> <<>>,
     media_type |-> <<>>, width |-> 0, height |-> 0, frame_rate |-> 0]

Log == [timestamp_ns |-> 0, level |-> "kUnknown", message |-> <<>>, name |-> <<>>]

Mesh3D ==
    [timestamp_ns |-> 0, frame_id |-> <<>>, id |-> <<>>, pose |-> Pose,
     scale |-> [x |-> One, y |-> One, z |-> One], format |-> <<>>, data |-> <<>>, url |-> <<>>,
     color |-> ColorRGBA, override_color |-> FALSE]

OccupancyGrid ==
    [timestamp_ns |-> 0, frame_id |-> <<>>, origin |-> Pose, resolution |-> 0, width |-> 0,
     height |-> 0, data |-> <<>>]

OccupancyGridUpdate ==
    [timestamp_ns |-> 0, frame_id |-> <<>>, x |-> 0, y |-> 0, width |-> 0, height |-> 0,
     data |-> <<>>]

-----------------------------------------------------------------------------
(* Batches of owned objects.                                               *)
FrameTransform ==
    [timestamp |-> 0, parent_frame_id |-> <<>>, child_frame_id |-> <<>>,
     translation |-> Vector3, rotation |-> Quaternion]

FrameTransforms == [transforms |-> <<>>]

PointsAnnotation ==
    [topology |-> "kPoints", points |-> <<>>, thickness |-> 2 * One, color |-> kGreen,
     colors |-> <<>>, fill_color |-> kClear]

CircleAnnotation ==
    [center |-> Point2, radius |-> One, thickness |-> 2 * One, color |-> kGreen,
     fill_color |-> kClear]

TextAnnotation == [position |-> Point2, font_size |-> 14 * One, color |-> kWhite, text |-> <<>>]

ImageAnnotations ==
    [timestamp |-> 0, image_topic |-> <<>>, points |-> <<>>, circles |-> <<>>, texts |-> <<>>]

ArrowPrimitive ==
    [pose |-> Pose, shaft_length |-> 0, shaft_diameter |-> 0, head_length |-> 0,
     head_diameter |-> 0, color |-> ColorRGBA]

CubePrimitive == [pose |-> Pose, size |-> Vector3, color |-> ColorRGBA]
SpherePrimitive == [pose |-> Pose, size |-> Vector3, color |-> ColorRGBA]

CylinderPrimitive ==
    [pose |-> Pose, size |-> Vector3, bottom_scale |-> One, top_scale |-> One,
     color |-> ColorRGBA]

LinePrimitive ==
    [type |-> "kLineStrip", pose |-> Pose, thickness |-> 0, scale_invariant |-> FALSE,
     points |-> <<>>, color |-> ColorRGBA, colors |-> <<>>, indices |-> <<>>]

TrianglePrimitive ==
    [pose |-> Pose, points |-> <<>>, color |-> ColorRGBA, colors |-> <<>>, indices |-> <<>>]

TextPrimitive ==
    [pose |-> Pose, billboard |-> FALSE, font_size |-> 0, scale_invariant |-> FALSE,
     color |-> ColorRGBA, text |-> <<>>]

AxesPrimitive == [pose |-> Pose, length |-> 0, thickness |-> 0, scale_invariant |-> FALSE]

ModelPrimitive ==
    [pose |-> Pose, scale |-> Vector3, color |-> ColorRGBA, override_color |-> FALSE,
     url |-> <<>>, media_type |-> <<>>, data |-> <<>>]

KeyValuePair == [key |-> <<>>, value |-> <<>>]

SceneEntity ==
    [timestamp |-> 0, frame_id |-> <<>>, id |-> <<>>, lifetime_ns |-> 0, frame_locked |-> FALSE,
     metadata |-> <<>>, arrows |-> <<>>, cubes |-> <<>>, spheres |-> <<>>, cylinders |-> <<>>,
     lines |-> <<>>, triangles |-> <<>>, texts |-> <<>>, models |-> <<>>, axes |-> <<>>]

SceneEntityDeletion == [type |-> "kMatchingId", timestamp |-> 0, id |-> <<>>]

SceneEntities == [entities |-> <<>>, deletions |-> <<>>]
=============================================================================
