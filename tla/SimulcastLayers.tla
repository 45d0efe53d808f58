--------------------------- MODULE SimulcastLayers ---------------------------
(***************************************************************************)
(* Which simulcast layer of a video a subscriber gets.  The size of a      *)
(* picture is its width plus its height; the one of the full picture comes *)
(* from the metadata, the other one from the subscriber.                   *)
(***************************************************************************)
EXTENDS Integers, Sequences

Simulcast == {"Low", "Medium", "High"}

\* Zero stands for a size that is not known.  The code compares the ratio of
\* the sizes with one and two.
calculateDesiredLayer(fullSize, desiredSize) ==
  IF fullSize = 0 \/ desiredSize = 0 THEN "Low"
  ELSE IF fullSize <= desiredSize THEN "High"
  ELSE IF fullSize <= 2 * desiredSize THEN "Medium"
  ELSE "Low"

\* Seeded fault: tracks without layers are not told apart.
OptimalOfAll(layers, fullSize, desiredSize) ==
  LET desired == calculateDesiredLayer(fullSize, desiredSize)
  IN  IF desired \in layers THEN desired ELSE "Low"

\* The layer that is desired for the size of the picture, or else the first
\* one there is in the order medium, low, high.
getOptimalLayer(layers, fullSize, desiredSize) ==
  IF "None" \in layers \/ layers = {} THEN "None"
  ELSE LET priority == <<calculateDesiredLayer(fullSize, desiredSize),
                         "Medium", "Low", "High">>
           first == CHOOSE i \in DOMAIN priority :
                      /\ priority[i] \in layers
                      /\ \A j \in 1..(i - 1) : priority[j] \notin layers
       IN  priority[first]

Rank(layer) ==
  IF layer = "Low" THEN 0 ELSE IF layer = "Medium" THEN 1 ELSE 2

\* How far one layer is from another.
Distance(layer, other) ==
  IF Rank(layer) < Rank(other) THEN Rank(other) - Rank(layer)
  ELSE Rank(layer) - Rank(other)

=============================================================================
