------------------------------ MODULE GoalMap ------------------------------
(***************************************************************************)
(* The grid map of the navigation goals (obstacle_map.GridMap): a pose is  *)
(* valid when a patch of the map around it holds no obstacle.  Poses are   *)
(* followed by the cell of the map they lie in, counted in pixels from the *)
(* origin at the bottom left; rows of the image are counted from the top.  *)
(***************************************************************************)
EXTENDS Integers, FiniteSets

CONSTANTS
  Width, Height, \* of the image
  FreeThresh     \* free_thresh, in 255ths

ASSUME MapAssumption ==
  /\ Width \in Nat \ {0} /\ Height \in Nat \ {0}
  /\ FreeThresh \in 0..254

Rows    == 0..Height - 1
Columns == 0..Width - 1

\* __get_raw_map: the occupied pixels <<row, column>> of an image of grey
\* values; the unknown is occupied, too.
RawMap(image, negate) ==
  {p \in Rows \X Columns : (IF negate THEN image[p] ELSE 255 - image[p]) > FreeThresh}

\* get_range: the cells the poses are drawn from.
Range_ == {<<x, y>> : x \in Columns, y \in Rows}

\* __transform_to_image_coordinates: the column, and the row from the top.
ImageCoordinates(pose) == <<pose[1], Height - pose[2]>>

\* The pixel a pose lies in.
PixelOf(pose) == <<Height - 1 - pose[2], pose[1]>>

\* What Python's a[from:to] selects from the indices 0..n - 1.
FromEnd(i, n)      == IF i < 0 THEN IF i + n < 0 THEN 0 ELSE i + n ELSE i
Slice(from, to, n) == {i \in 0..n - 1 : FromEnd(from, n) <= i /\ i < FromEnd(to, n)}

\* A mutant: the start of the patch counts from the other end of the map.
StartWrapped(i) == i

Start(i) == IF i < 0 THEN 0 ELSE i

\* __is_obstacle_in_distance
ObstacleInDistance(occupied, point, distance) ==
  \E row \in Slice(Start(point[2] - distance), point[2] + distance, Height),
     column \in Slice(Start(point[1] - distance), point[1] + distance, Width) :
    <<row, column>> \in occupied

\* is_valid_pose, the distance in pixels.
ValidPose(occupied, pose, distance) ==
  ~ObstacleInDistance(occupied, ImageCoordinates(pose), distance)
=============================================================================
