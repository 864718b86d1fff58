------------------------------ MODULE DrawLine ------------------------------
(***************************************************************************)
(* draw_line and draw_pixel of library.c.  draw_line is Bresenham's loop   *)
(*   for(;;) { draw_pixel(img, x1, y1, c);                                 *)
(*             if (x1 == x2 && y1 == y2) break;                            *)
(*             e2 = 2*err;                                                 *)
(*             if (e2 >= dy) { err += dy; x1 += sx; }                      *)
(*             if (e2 <= dx) { err += dx; y1 += sy; } }                    *)
(* and one iteration is one step of this module.  A call starts from       *)
(* endpoints chosen in Coords, which include points just off each edge of  *)
(* the screen.                                                             *)
(*                                                                         *)
(* The screen is Width pixels (bitDepth/2, bitDepth being the line length  *)
(* in bytes of a 16-bit framebuffer) by YLength rows; an image is          *)
(* YLength*Width color_t cells.  draw_pixel stores into cell y*Width + x;  *)
(* `stored' is the set of cells the call stored into, whether or not they  *)
(* lie inside the image.  The colour plays no part and is left out.        *)
(* Coordinates stay far below the int range, so nothing overflows.         *)
(***************************************************************************)
EXTENDS Integers, Sequences, FiniteSets

CONSTANTS Width,      \* bitDepth/2: pixels per row
          YLength,    \* yLength: rows
          Coords,     \* the endpoint coordinates a caller may pass
          MaxPixels   \* bound on the iterations explored

ASSUME Width \in Nat \ {0} /\ YLength \in Nat \ {0} /\ Coords \subseteq Int
       /\ MaxPixels \in Nat

VARIABLES ends,    \* the arguments x1, y1, x2, y2 of the call
          x, y,    \* the local x1, y1 the loop advances
          err,     \* err
          pc,      \* "loop" or "done" (returned)
          drawn,   \* the points passed to draw_pixel, in order (history)
          stored   \* the image cells draw_pixel stored into

vars == <<ends, x, y, err, pc, drawn, stored>>

absoluteVal(number) == IF number >= 0 THEN number ELSE (-1) * number

\* The constants draw_line computes once from its arguments.
dx == absoluteVal(ends.x2 - ends.x1)
dy == -absoluteVal(ends.y2 - ends.y1)
\* The step directions: sx = x1<x2 ? 1 : -1, and sy likewise.
\* A step away from the end point.
DirectionReversed(a, b) == IF a > b THEN 1 ELSE -1
Direction(a, b) == IF a < b THEN 1 ELSE -1
sx == Direction(ends.x1, ends.x2)
sy == Direction(ends.y1, ends.y2)

\* A draw_pixel that does not reject negative coordinates.
DrawPixelNoLowerCheck(px, py) ==
    IF px > Width \/ py > YLength THEN {} ELSE {py * Width + px}

\* A draw_pixel whose row stride is bitDepth, the bytes per row, rather
\* than bitDepth/2 pixels.
DrawPixelByteStride(px, py) ==
    IF px < 0 \/ py < 0 THEN {}
    ELSE IF px > Width \/ py > YLength THEN {}
    ELSE {py * 2 * Width + px}

\* The cells draw_pixel(img, px, py, c) stores into: none when it returns
\* early, else castImg[y*(bitDepth/2)+x].
draw_pixel(px, py) ==
    IF px < 0 \/ py < 0 THEN {}
    ELSE IF px > Width \/ py > YLength THEN {}
    ELSE {py * Width + px}

Init ==
    /\ ends \in [x1 : Coords, y1 : Coords, x2 : Coords, y2 : Coords]
    /\ x = ends.x1
    /\ y = ends.y1
    /\ err = dx + dy
    /\ pc = "loop"
    /\ drawn = <<>>
    /\ stored = {}

\* The tests of the loop body: take the x step (e_xy+e_x > 0), take the
\* y step (e_xy+e_y < 0).
\* The x test copied from the y test's bound.
StepXWrongBound(e2) == e2 >= dx
StepX(e2) == e2 >= dy
StepY(e2) == e2 <= dx

\* One iteration of the for(;;) loop: draw, test for the end point, and
\* take the x step and the y step the error term calls for.
Iterate ==
    /\ pc = "loop"
    /\ Len(drawn) < MaxPixels
    /\ drawn' = Append(drawn, <<x, y>>)
    /\ stored' = stored \cup draw_pixel(x, y)
    /\ IF x = ends.x2 /\ y = ends.y2
          THEN pc' = "done" /\ UNCHANGED <<x, y, err>>
          ELSE LET e2 == 2 * err
                   stepX == StepX(e2)
                   stepY == StepY(e2)
               IN  /\ x' = IF stepX THEN x + sx ELSE x
                   /\ y' = IF stepY THEN y + sy ELSE y
                   /\ err' = err + (IF stepX THEN dy ELSE 0) + (IF stepY THEN dx ELSE 0)
                   /\ pc' = "loop"
    /\ UNCHANGED ends

Next == Iterate

\* draw_line runs in the calling thread from call to return.
Spec == Init /\ [][Next]_vars /\ WF_vars(Iterate)

-----------------------------------------------------------------------------
\* The variables keep their types; in particular draw_pixel never stores
\* before the start of the image.
TypeOK ==
    /\ ends \in [x1 : Coords, y1 : Coords, x2 : Coords, y2 : Coords]
    /\ x \in Int /\ y \in Int /\ err \in Int
    /\ pc \in {"loop", "done"}
    /\ drawn \in Seq(Int \X Int)
    /\ stored \subseteq Nat

MaxOf(a, b) == IF a >= b THEN a ELSE b

\* Twice the distance, measured along the minor axis and scaled by the
\* major extent, of point p from the ideal segment from (x1,y1) to (x2,y2).
Deviation(p) ==
    absoluteVal(2 * ((p[1] - ends.x1) * (ends.y2 - ends.y1)
                     - (p[2] - ends.y1) * (ends.x2 - ends.x1)))

\* draw_line draws a Bresenham line: every point drawn is a closest grid
\* point to the ideal segment (within half a pixel along the minor axis),
\* and when it returns it has drawn exactly one point per step of the
\* major axis, the first being (x1, y1) and the last (x2, y2).
LineIsBresenham ==
    /\ \A i \in 1..Len(drawn) :
          Deviation(drawn[i]) <= MaxOf(absoluteVal(ends.x2 - ends.x1),
                                       absoluteVal(ends.y2 - ends.y1))
    /\ pc = "done" =>
          /\ Len(drawn) = MaxOf(absoluteVal(ends.x2 - ends.x1),
                                absoluteVal(ends.y2 - ends.y1)) + 1
          /\ drawn[1] = <<ends.x1, ends.y1>>
          /\ drawn[Len(drawn)] = <<ends.x2, ends.y2>>

\* The for(;;) loop ends: whatever the endpoints, draw_line reaches
\* (x2, y2) and returns.
LineTerminates == <>(pc = "done")
=============================================================================
