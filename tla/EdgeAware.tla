----------------------------- MODULE EdgeAware -----------------------------
(***************************************************************************)
(* The "Edge Aware" expansion of a mosaic image (libdclalgo/src/           *)
(* EdgeAware.cpp).  Of a value only its origin is kept: the set of angles  *)
(* (numbered as the planes) of the pixels it was computed from, with Unset *)
(* for the zero an image is filled with.  What is computed in an estimate  *)
(* from the pixels it reads is left out, what it reads is not.             *)
(***************************************************************************)
EXTENDS Integers

CONSTANTS
  Size,          \* height and width of the image
  ImageBorder,   \* imageBorder
  Window         \* M of the covariances

Unset == -1
Grid  == (0..Size - 1) \X (0..Size - 1)

\* the angle at a pixel, and the one at its diagonal neighbours
Angle(p) == CASE p[1] % 2 = 1 /\ p[2] % 2 = 1 -> 0
              [] p[1] % 2 = 0 /\ p[2] % 2 = 1 -> 1
              [] p[1] % 2 = 0 /\ p[2] % 2 = 0 -> 2
              [] p[1] % 2 = 1 /\ p[2] % 2 = 0 -> 3
Opposite(k) == (k + 2) % 4

OriginalImage == [p \in Grid |-> {Angle(p)}]

\* the origins of the pixels an estimate at p reads in the image Im
Origins(Im, reads) == UNION {Im[q] : q \in reads}

-----------------------------------------------------------------------------
(* Edges.                                                                  *)

\* an edge spreads to its neighbours, clamped at the borders, stages - 1 times
getExtendedEdges(e, stages) ==
  LET Clamp(n) == IF n < 0 THEN 0 ELSE IF n > Size - 1 THEN Size - 1 ELSE n
      grown[stage \in 1..stages] == IF stage = 1 THEN e ELSE
        {<<Clamp(p[1] + d[1]), Clamp(p[2] + d[2])>> :
           p \in grown[stage - 1], d \in (-1..1) \X (-1..1)}
  IN  grown[stages]

\* the edges Canny (external) finds in a half size plane, at full size: cv::resize
\* interpolates between two pixels each way, and any part of an edge counts
getPreparedEdges(canny) ==
  LET nearest(n) == {(n - 1) \div 2, (n + 1) \div 2}
  IN  getExtendedEdges({p \in Grid : (nearest(p[1]) \X nearest(p[2])) \cap canny # {}}, 2)

-----------------------------------------------------------------------------
(* Estimates of one pixel.                                                 *)

Diagonal(p, d)  == {<<p[1] - d, p[2] - d>>, <<p[1] + d, p[2] - d>>,
                    <<p[1] + d, p[2] + d>>, <<p[1] - d, p[2] + d>>}
Straight(p, d)  == {<<p[1], p[2] - d>>, <<p[1] + d, p[2]>>,
                    <<p[1], p[2] + d>>, <<p[1] - d, p[2]>>}

\* the centres of the window, each with the four pixels it is regressed on
PixCovariance1(p, M) ==
  UNION {LET q == <<2 * n[1] + p[1] - M + 1, 2 * n[2] + p[2] - M + 1>>
         IN  {q} \cup Diagonal(q, 2) : n \in (0..M - 1) \X (0..M - 1)}

PixCovariance2(p, M) ==
  UNION {LET q == <<p[1] + n[1] - n[2], p[2] + 1 - M + n[1] + n[2]>>
         IN  {q} \cup Straight(q, 2) : n \in (0..M - 1) \X (0..M - 1)}

CovEstimate(Im, p, rhombus) ==
  Origins(Im, IF rhombus THEN PixCovariance2(p, Window) \cup Straight(p, 1)
              ELSE PixCovariance1(p, Window) \cup Diagonal(p, 1))

BlEstimate1(Im, p) == Origins(Im, Diagonal(p, 2))
\* variant: the diagonal neighbours, which are not set
BlEstimate2Diagonal(Im, p) == Origins(Im, Diagonal(p, 1))
BlEstimate2(Im, p) == Origins(Im, Straight(p, 1))

-----------------------------------------------------------------------------
(* The two stages.                                                         *)
Estimated ==
  {p \in Grid : \A n \in 1..2 : p[n] - ImageBorder >= 0 /\ p[n] + ImageBorder + 1 < Size}

\* the border is taken from the expanded planes; inside, plane k is set where
\* the mosaic has its angle or the opposite one
firstStageEdgesEstimation(edges) ==
  [k \in 0..3 |-> [p \in Grid |->
     CASE p \notin Estimated                          -> {k}
       [] p \in Estimated /\ Angle(p) = k             -> OriginalImage[p]
       [] p \in Estimated /\ Angle(p) = Opposite(k)   ->
            IF p \in edges[k] THEN CovEstimate(OriginalImage, p, FALSE)
            ELSE BlEstimate1(OriginalImage, p)
       [] OTHER                                       -> {Unset}]]

\* the other pixels of plane k, from a copy of the first stage
secondStageEdgesEstimation(edges, images) ==
  [k \in 0..3 |-> [p \in Grid |->
     IF p \in Estimated /\ Angle(p) \notin {k, Opposite(k)}
     THEN IF p \in edges[k] THEN CovEstimate(images[k], p, TRUE)
          ELSE BlEstimate2(images[k], p)
     ELSE images[k][p]]]

-----------------------------------------------------------------------------
(* Whatever edges are found, no estimate reads outside the image or a      *)
(* pixel that is not set yet; the pixels of an angle stay in its plane; an *)
(* estimate at an edge is made from the plane's own angle; and the second  *)
(* stage mixes in the opposite angle only, which comes from pixels of the  *)
(* first stage that are not at an edge (BlEstimate1 reads two pixels away, *)
(* where the mosaic has the pixel's own angle again).                      *)
PlanesOfOwnAngle(edges, second) ==
  LET mixed(k) == {p \in Estimated : Angle(p) = Opposite(k) /\ p \notin edges[k]}
      near(p, q) == \A n \in 1..2 : p[n] - q[n] \in -(Window + 1)..(Window + 1)
  IN  \A k \in 0..3 : \A p \in Estimated :
        /\ second[k][p] # {} /\ second[k][p] \subseteq {k, Opposite(k)}
        /\ Angle(p) = k => second[k][p] = {k}
        /\ Angle(p) = Opposite(k) =>
             second[k][p] = IF p \in mixed(k) THEN {Opposite(k)} ELSE {k}
        /\ (\A q \in mixed(k) : ~near(p, q)) => second[k][p] = {k}
=============================================================================
