------------------------------ MODULE MCCodec -------------------------------
(* Objects of every builtin type: the default one and one whose members    *)
(* all differ from their defaults and from each other.                     *)
EXTENDS Codec

Vec(s) == [x |-> s, y |-> s + 1, z |-> s + 2]
Quat(s) == [x |-> s, y |-> s + 1, z |-> s + 2, w |-> s + 3]
PoseOf(s) == [position |-> Vec(s), orientation |-> Quat(-s)]
ColorOf(s) == [r |-> s, g |-> 255 - s, b |-> 127, a |-> 128 + s]
P2(s) == [x |-> s, y |-> -s]

(* Timestamps at the limits of the int64 and around zero.                  *)
FirstExact == quotient(Min64, NanosPerSecond) * NanosPerSecond
Timestamps == {FirstExact, -NanosPerSecond - 1, -NanosPerSecond, -1, 0, 1, NanosPerSecond, Max64}

Clouds ==
    [PointCloud EXCEPT !.width = 2, !.height = 3, !.point_step = 4, !.row_step = 200,
        !.is_bigendian = TRUE, !.is_dense = FALSE, !.frame_id = <<7>>, !.data = <<1, 200, 3>>,
        !.timestamp_ns = -5,
        !.fields = <<[name |-> <<9>>, offset |-> 1, datatype |-> "kInt8", count |-> 2],
                     [name |-> <<>>, offset |-> 0, datatype |-> "kFloat64", count |-> 0]>>]

Lines ==
    [LinePrimitive EXCEPT !.type = "kLineList", !.pose = PoseOf(3), !.thickness = 8,
        !.scale_invariant = TRUE, !.points = <<Vec(1), Vec(2)>>, !.color = ColorOf(9),
        !.colors = <<ColorOf(1), ColorOf(2)>>, !.indices = <<5, 250, 7>>]

Entity ==
    [SceneEntity EXCEPT !.timestamp = 150, !.frame_id = <<1>>, !.id = <<2, 3>>,
        !.lifetime_ns = -70, !.frame_locked = TRUE,
        !.metadata = <<[key |-> <<4>>, value |-> <<5>>]>>,
        !.arrows = <<[pose |-> PoseOf(1), shaft_length |-> 2, shaft_diameter |-> 3,
                      head_length |-> 4, head_diameter |-> 5, color |-> ColorOf(6)]>>,
        !.cubes = <<[pose |-> PoseOf(2), size |-> Vec(7), color |-> ColorOf(8)]>>,
        !.spheres = <<[pose |-> PoseOf(4), size |-> Vec(9), color |-> ColorOf(10)]>>,
        !.cylinders = <<[pose |-> PoseOf(5), size |-> Vec(3), bottom_scale |-> 6,
                         top_scale |-> 7, color |-> ColorOf(11)]>>,
        !.lines = <<Lines, LinePrimitive>>,
        !.triangles = <<[pose |-> PoseOf(6), points |-> <<Vec(4)>>, color |-> ColorOf(12),
                         colors |-> <<ColorOf(13)>>, indices |-> <<1>>]>>,
        !.texts = <<[pose |-> PoseOf(7), billboard |-> TRUE, font_size |-> 9,
                     scale_invariant |-> FALSE, color |-> ColorOf(14), text |-> <<8>>]>>,
        !.models = <<[pose |-> PoseOf(8), scale |-> Vec(5), color |-> ColorOf(15),
                      override_color |-> TRUE, url |-> <<1>>, media_type |-> <<2>>,
                      data |-> <<3>>]>>,
        !.axes = <<[pose |-> PoseOf(9), length |-> 1, thickness |-> 2,
                    scale_invariant |-> TRUE]>>]

Deletion == [type |-> "kAll", timestamp |-> 101, id |-> <<6>>]

Annotations ==
    [ImageAnnotations EXCEPT !.timestamp = 9, !.image_topic = <<1>>,
        !.circles = <<[center |-> P2(1), radius |-> 3, thickness |-> 4, color |-> ColorOf(5),
                       fill_color |-> ColorOf(6)], CircleAnnotation>>,
        !.points = <<[topology |-> "kLineLoop", points |-> <<P2(2), P2(3)>>, thickness |-> 5,
                      color |-> ColorOf(7), colors |-> <<ColorOf(8)>>,
                      fill_color |-> ColorOf(9)],
                     [PointsAnnotation EXCEPT !.topology = "kLineList"]>>,
        !.texts = <<[position |-> P2(4), font_size |-> 6, color |-> ColorOf(10),
                     text |-> <<2, 2>>]>>]

Transform ==
    [timestamp |-> -101, parent_frame_id |-> <<1>>, child_frame_id |-> <<2>>,
     translation |-> Vec(3), rotation |-> Quat(4)]

TheSamples ==
    [Image |-> {[Image EXCEPT !.timestamp_ns = t] : t \in Timestamps} \union
               {[Image EXCEPT !.width = 1, !.height = 129, !.encoding = <<2>>, !.row_step = 3,
                   !.is_bigendian = TRUE, !.data = <<4, 5>>, !.compressed_depth_min = <<-6>>,
                   !.compressed_depth_max = <<7>>]},
     DepthImage |-> {DepthImage,
               [DepthImage EXCEPT !.width = 1, !.height = 2, !.encoding = <<3>>, !.data = <<4>>,
                   !.K = [i \in 1 .. 9 |-> i], !.distortion_model = <<5>>, !.D = <<6, -7>>]},
     CameraInfo |-> {CameraInfo,
               [CameraInfo EXCEPT !.timestamp_ns = 1, !.frame_id = <<2>>, !.width = 3,
                   !.height = 4, !.distortion_model = <<5>>, !.D = <<6, -7>>,
                   !.K = [i \in 1 .. 9 |-> i], !.R = [i \in 1 .. 9 |-> -i],
                   !.P = [i \in 1 .. 12 |-> 2 * i]]},
     PointCloud |-> {PointCloud, Clouds},
     CompressedPointCloud |-> {CompressedPointCloud,
               [timestamp_ns |-> 1, frame_id |-> <<2>>, format |-> <<3>>, data |-> <<4>>]},
     VideoFrame |-> {VideoFrame,
               [timestamp_ns |-> 1, frame_id |-> <<2>>, format |-> <<3>>, data |-> <<1, 4, 5>>]},
     AssetVideo |-> {AssetVideo,
               [time_origin_ns |-> <<-1>>, start_ns |-> <<Min64>>, end_ns |-> <<Max64>>,
                file_path |-> <<1>>, media_type |-> <<2>>, width |-> 3, height |-> 4,
                frame_rate |-> 5]},
     Log |-> {[Log EXCEPT !.level = Levels[i], !.message = <<i>>, !.name = <<1, 1>>] :
                  i \in DOMAIN Levels},
     Mesh3D |-> {Mesh3D,
               [timestamp_ns |-> 1, frame_id |-> <<2>>, id |-> <<3>>, pose |-> PoseOf(4),
                scale |-> Vec(5), format |-> <<6>>, data |-> <<7>>, url |-> <<8>>,
                color |-> ColorOf(9), override_color |-> TRUE]},
     OccupancyGrid |-> {OccupancyGrid,
               [timestamp_ns |-> 1, frame_id |-> <<2>>, origin |-> PoseOf(3), resolution |-> 4,
                width |-> 5, height |-> 6, data |-> <<7, 8>>]},
     OccupancyGridUpdate |-> {OccupancyGridUpdate,
               [timestamp_ns |-> 1, frame_id |-> <<2>>, x |-> -1, y |-> -(Two32 \div 2),
                width |-> 5, height |-> 6, data |-> <<7, 8>>]},
     FrameTransforms |-> {FrameTransforms, [transforms |-> <<Transform>>],
                          [transforms |-> <<FrameTransform, Transform>>]},
     ImageAnnotations |-> {ImageAnnotations, Annotations},
     SceneEntities |-> {SceneEntities, [entities |-> <<Entity>>, deletions |-> <<Deletion>>],
                        [entities |-> <<SceneEntity>>, deletions |-> <<>>]}]

(* A field of each wire type, with a number no decoder maps.               *)
TheUnknownFields ==
    {varint(20, 3), doubleField(20, 3), bytes(20, <<9, 9>>), floatField(20, 3)}

(* Those that decodeTimestamp skips: it reads a varint and skips another.  *)
NoVarints == {doubleField(20, 3), bytes(20, <<9, 9>>), floatField(20, 3)}
=============================================================================
