------------------------------- MODULE Mosaic -------------------------------
(***************************************************************************)
(* How an image of a polarization camera becomes four planes, one for each *)
(* angle of its mosaic (libdclalgo/include/PolarExpand.h).  Plane 0 is     *)
(* 0 degrees, 1 is 45, 2 is 90 and 3 is 135.  An image is a function from  *)
(* <<row, column>>, both counted from 0, to values.                        *)
(***************************************************************************)
EXTENDS Integers, FiniteSets
LOCAL INSTANCE FiniteSetsExt
LOCAL INSTANCE Functions

CONSTANT MaxValue    \* IMAGE_DATA_MASK

Height(image) == Max({p[1] : p \in DOMAIN image}) + 1
Width(image)  == Max({p[2] : p \in DOMAIN image}) + 1
Grid(h, w)    == (0..h - 1) \X (0..w - 1)

\* the plane whose angle the mosaic has at a pixel
Angle(p) == CASE p[1] % 2 = 1 /\ p[2] % 2 = 1 -> 0
              [] p[1] % 2 = 0 /\ p[2] % 2 = 1 -> 1
              [] p[1] % 2 = 0 /\ p[2] % 2 = 0 -> 2
              [] p[1] % 2 = 1 /\ p[2] % 2 = 0 -> 3

-----------------------------------------------------------------------------
(* Nearest pixel, full size.                                               *)

\* mMosaics: where the pixel of a plane is next to one of a given parity
Shift(i, p) ==
  << IF p[1] % 2 = 0 THEN <<1, 0, 0, 1>>[i + 1] ELSE <<0, 1, 1, 0>>[i + 1],
     IF p[2] % 2 = 0 THEN <<1, 1, 0, 0>>[i + 1] ELSE <<0, 0, 1, 1>>[i + 1] >>

\* the last row and column keep the 0 they are filled with
expand(image) ==
  [i \in 0..3 |-> [p \in DOMAIN image |->
     IF p[1] < Height(image) - 1 /\ p[2] < Width(image) - 1
     THEN image[<<p[1] + Shift(i, p)[1], p[2] + Shift(i, p)[2]>>] ELSE 0]]

-----------------------------------------------------------------------------
(* Half size.  Planes 1 and 3 are exchanged: plane 1 takes what the table  *)
(* of the mosaic has as 135 degrees (PlanesAsLabelled, below); the tests   *)
(* have it as the code does.                                               *)

HalfGrid(image) == Grid(Height(image) \div 2, Width(image) \div 2)

expandEasy(image) ==
  [i \in 0..3 |-> [p \in HalfGrid(image) |->
     LET y0 == 2 * p[1] + 1
         x0 == 2 * p[2] + 1
     IN  image[<< <<y0, x0>>, <<y0, x0 - 1>>, <<y0 - 1, x0 - 1>>, <<y0 - 1, x0>> >>[i + 1]]]]

\* variant: a value below zero wraps
toUintWraps(a) == IF a < 0 THEN MaxValue ELSE IF a > MaxValue THEN MaxValue ELSE a

\* of an unsigned sum; below zero is far above the largest one
toUint(a) == IF a < 0 THEN 0 ELSE IF a > MaxValue THEN MaxValue ELSE a

\* the values of the planes at y0, x0 of the image; every other plane is
\* interpolated there, beyond the last row and column from one side
LitePixel(image, p, i) ==
  LET H == Height(image) \div 2
      W == Width(image) \div 2
      At(dy, dx) == image[<<2 * p[1] + 1 + dy, 2 * p[2] + 1 + dx>>]
      Beyond(dy, dx) == 3 * At(dy, dx) - At(3 * dy, 3 * dx)
      right  == p[2] = W - 1
      bottom == p[1] = H - 1
      corner == \/ right /\ p[1] \in {H - 2, H - 1}
                \/ bottom /\ p[2] = W - 2
  IN  CASE i = 0 -> At(0, 0)
        [] i = 1 -> IF right \/ corner THEN Beyond(0, -1) \div 2
                    ELSE (At(0, 1) + At(0, -1)) \div 2
        [] i = 3 -> IF bottom \/ corner THEN Beyond(-1, 0) \div 2
                    ELSE (At(-1, 0) + At(1, 0)) \div 2
        [] i = 2 ->
             CASE corner                        -> Beyond(-1, -1) \div 2
               [] bottom /\ ~corner /\ p[2] = 0 -> Beyond(-1, 1) \div 2
               [] right /\ ~corner /\ p[1] = 0  -> Beyond(1, -1) \div 2
               [] bottom /\ ~corner /\ p[2] # 0 -> (Beyond(-1, 1) + Beyond(-1, -1)) \div 4
               [] right /\ ~corner /\ p[1] # 0  -> (Beyond(-1, -1) + Beyond(1, -1)) \div 4
               [] OTHER -> (At(-1, -1) + At(1, -1) + At(-1, 1) + At(1, 1)) \div 4

expandLite(image) ==
  IF Height(image) < 6 \/ Width(image) < 6 THEN expandEasy(image)
  ELSE [i \in 0..3 |-> [p \in HalfGrid(image) |-> toUint(LitePixel(image, p, i))]]

-----------------------------------------------------------------------------
(* Interpolation in blocks of 3 x 3, full size.                            *)

\* what is beyond the border: away from v1 by a quarter of the difference, to
\* the bright side whichever value is larger
calculateValue(v1, v2) ==
  LET delta == v1 - (v1 + v2) \div 2
  IN  (v1 + (IF delta < 0 THEN -delta ELSE delta) \div 2) % (MaxValue + 1)

\* the corners of a block that begins at y, x; v takes what is read
calculateABCD(image, y, x) ==
  LET I(dy, dx) == image[<<y + dy, x + dx>>]
      V(dy, dx, ey, ex) == calculateValue(I(dy, dx), I(ey, ex))
      left   == x = -1
      right  == x = Width(image) - 2
      top    == y = -1
      bottom == y = Height(image) - 2
      inX    == ~left /\ ~right
      inY    == ~top /\ ~bottom
  IN  CASE left /\ top     -> <<V(2,2, 4,4), V(2,2, 4,2), V(2,2, 2,4), I(2,2)>>
        [] left /\ bottom  -> <<V(0,2, 0,4), V(0,2, -2,4), I(0,2), V(0,2, -4,2)>>
        [] left /\ inY     -> <<V(0,2, 0,4), I(0,2), V(2,2, 2,4), I(2,2)>>
        [] right /\ top    -> <<V(2,0, 4,0), V(2,0, 4,-2), I(2,0), V(2,0, 2,-4)>>
        [] right /\ bottom -> <<I(0,0), V(0,0, 0,-2), V(0,0, -2,0), V(0,0, -4,-4)>>
        [] right /\ inY    -> <<I(0,0), V(0,0, 0,-2), I(0,-2), V(0,-2, 0,-4)>>
        [] inX /\ top      -> <<V(2,0, 4,0), V(2,2, 4,2), I(2,0), I(2,2)>>
        [] inX /\ bottom   -> <<I(0,0), I(0,2), V(0,0, -2,0), V(0,2, -2,2)>>
        [] inX /\ inY      -> <<I(0,0), I(0,2), I(2,0), I(2,2)>>

\* biInterpolation, biInterpolation_fast: the value at p in the block at y, x
biInterpolation(image, y, x, p) ==
  LET q == calculateABCD(image, y, x)
      a == q[1]
      b == q[2]
      c == q[3]
      d == q[4]
  IN  CASE <<p[1] - y, p[2] - x>> = <<0, 1>> -> (2 * (a + b) + (c + d)) \div 6
        [] <<p[1] - y, p[2] - x>> = <<1, 0>> -> (2 * (a + c) + (b + d)) \div 6
        [] <<p[1] - y, p[2] - x>> = <<1, 1>> -> ((a + b) + (c + d)) \div 4
        [] <<p[1] - y, p[2] - x>> = <<1, 2>> -> ((a + c) + 2 * (b + d)) \div 6
        [] <<p[1] - y, p[2] - x>> = <<2, 1>> -> ((a + b) + 2 * (c + d)) \div 6
        [] OTHER -> image[p]

\* the first block of a plane, and the last one of its row or column that
\* covers k: later blocks write over the edge of earlier ones
First(i) == << <<-1, -1>>, <<0, -1>>, <<0, 0>>, <<-1, 0>> >>[i + 1]
Last(first, k, size) ==
  first + 2 * Min({(k - first) \div 2, (size - 2) \div 2})

expandDebayer(image) ==
  [i \in 0..3 |-> [p \in DOMAIN image |->
     biInterpolation(image, Last(First(i)[1], p[1], Height(image)),
                     Last(First(i)[2], p[2], Width(image)), p)]]

\* the first block inside: 1, 1 for plane 0, and so on; what no block covers
\* keeps the 0 it is filled with
Inside(i) == << <<1, 1>>, <<0, 1>>, <<0, 0>>, <<1, 0>> >>[i + 1]

expandDebayerWithoutBoundaries(image) ==
  [i \in 0..3 |-> [p \in DOMAIN image |->
     LET size == <<Height(image), Width(image)>>
         in(n) == Inside(i)[n] <= p[n] /\ p[n] <= Inside(i)[n] + size[n] - 2
     IN  IF in(1) /\ in(2)
         THEN biInterpolation(image, Last(Inside(i)[1], p[1], size[1] - 2),
                              Last(Inside(i)[2], p[2], size[2] - 2), p)
         ELSE 0]]

\* the inside, then the first and last rows and columns of blocks over it
expandDebayer_fast(image) ==
  [i \in 0..3 |-> [p \in DOMAIN image |->
     LET h == Height(image)
         w == Width(image)
         y == First(i)[1]
         x == First(i)[2]
         row == Last(y, p[1], h)
         col == Last(x, p[2], w)
     IN  CASE p[2] <= x + 2                        -> biInterpolation(image, row, x, p)
           [] p[2] > x + 2 /\ p[2] >= x + w - 2    -> biInterpolation(image, row, x + w - 2, p)
           [] x + 2 < p[2] /\ p[2] < x + w - 2 /\ p[1] >= y + h - 2
                                                   -> biInterpolation(image, y + h - 2, col, p)
           [] x + 2 < p[2] /\ p[2] < x + w - 2 /\ p[1] < y + h - 2 /\ p[1] <= y + 2
                                                   -> biInterpolation(image, y, col, p)
           [] OTHER -> expandDebayerWithoutBoundaries(image)[i][p]]]

-----------------------------------------------------------------------------
(* Every expansion.                                                        *)
Expansions == {"expand", "Easy", "Lite", "Debayer", "Debayer_fast", "WithoutBoundaries"}

Planes(how, image) ==
  CASE how = "expand" -> expand(image)
    [] how = "Easy" -> expandEasy(image)
    [] how = "Lite" -> expandLite(image)
    [] how = "Debayer" -> expandDebayer(image)
    [] how = "Debayer_fast" -> expandDebayer_fast(image)
    [] how = "WithoutBoundaries" -> expandDebayerWithoutBoundaries(image)

\* the angle a plane shows
Shown(how, i) == IF how \in {"Easy", "Lite"} THEN <<0, 3, 2, 1>>[i + 1] ELSE i

\* the pixels of a plane an expansion fills
Filled(how, image, i) ==
  CASE how = "expand" -> Grid(Height(image) - 1, Width(image) - 1)
    [] how \in {"Easy", "Lite"} -> HalfGrid(image)
    [] how = "WithoutBoundaries" ->
         {p \in DOMAIN image : \A n \in 1..2 :
            (p[n] = 0 => Inside(i)[n] = 0)
            /\ (p[n] = <<Height(image), Width(image)>>[n] - 1 => Inside(i)[n] = 1)}
    [] OTHER -> DOMAIN image

\* test images: one value for each angle, and a slope over them; or a value of
\* its own for every pixel
Sloped(h, w, values, down, across) ==
  [p \in Grid(h, w) |-> values[Angle(p) + 1] + down * p[1] + across * p[2]]
Numbered(h, w) == [p \in Grid(h, w) |-> p[1] * w + p[2]]

(* An image that is even in each angle gives even planes, whatever the     *)
(* border rule: each pixel that an expansion fills shows its own angle and *)
(* nothing of the others (PolarExpandTests.cpp, for one size and one set   *)
(* of values).                                                             *)
EvenStaysEven(how, h, w, values) ==
  LET image == Sloped(h, w, values, 0, 0)
  IN  \A i \in 0..3 : \A p \in Filled(how, image, i) :
        Planes(how, image)[i][p] = values[Shown(how, i) + 1]

(* Every plane shows the angle that its comment names, "// 45" for plane 1 *)
(* and "//135" for plane 3 (PolarExpand.h:612, 614, 677, 683) under the    *)
(* mosaic of PolarExpand.h:84-94.  The half size expansions do not.        *)
PlanesAsLabelled(how, h, w, values) ==
  LET image == Sloped(h, w, values, 0, 0)
  IN  \A i \in 0..3 : \A p \in Filled(how, image, i) :
        Planes(how, image)[i][p] = values[i + 1]

(* A full size plane keeps every pixel that the mosaic has of its angle;   *)
(* the other values of expand are such a pixel of the same 2 x 2 cell.     *)
OwnPixelsKept(how, h, w) ==
  LET image == Numbered(h, w)
      plane == Planes(how, image)
  IN  \A i \in 0..3 : \A p \in Filled(how, image, i) :
        IF how = "expand"
        THEN \E q \in DOMAIN image :
               Angle(q) = i /\ plane[i][p] = image[q] /\ q[1] - p[1] \in 0..1 /\ q[2] - p[2] \in 0..1
        ELSE Angle(p) = i => plane[i][p] = image[p]

(* The planes of expandLite lie on one another: over a slope each shows    *)
(* what its angle has at the pixel of plane 0, at the borders too, and     *)
(* what lies beyond the range of values is cut, never wrapped.             *)
LiteAligned(h, w, values, down, across) ==
  LET image == Sloped(h, w, values, down, across)
  IN  \A i \in 0..3 : \A p \in HalfGrid(image) :
        LET at == values[Shown("Lite", i) + 1] + down * (2 * p[1] + 1) + across * (2 * p[2] + 1)
        IN  expandLite(image)[i][p] = IF at < 0 THEN 0 ELSE Min({at, MaxValue})
=============================================================================
