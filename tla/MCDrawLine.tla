----------------------------- MODULE MCDrawLine -----------------------------
(* DrawLine for TLC: endpoint coordinates from one pixel before the first  *)
(* column and row to one pixel past the last column of a 3x2 screen.       *)
(* Beside it, on the same screen, driver.c's program (module Driver) with  *)
(* its three lines scaled to the screen.  The two share no variable, so     *)
(* GraphicsSpec explores every call of draw_line and every run of the       *)
(* driver side by side.                                                     *)
EXTENDS DrawLine

MCCoords == -1..3

VARIABLES dpc, dn, dbuf, dscreen

\* driver.c's (0,0)-(120,120), (120,67)-(321,399) and (31,62)-(520,310)
\* all run down and to the right: a diagonal, a steep and a shallow line.
\* On 3x2 they become the diagonal (0,0)-(1,1), the steep limit (1,0)-(1,1)
\* and the shallow (0,0)-(2,1); each leaves a pixel of the one before it
\* unlit.
MCLines == << [x1 |-> 0, y1 |-> 0, x2 |-> 1, y2 |-> 1],
              [x1 |-> 1, y1 |-> 0, x2 |-> 1, y2 |-> 1],
              [x1 |-> 0, y1 |-> 0, x2 |-> 2, y2 |-> 1] >>

Drv == INSTANCE Driver WITH pc <- dpc, n <- dn, buf <- dbuf, screen <- dscreen,
                            Lines <- MCLines

dvars == <<dpc, dn, dbuf, dscreen>>

\* The interleaving of the two: a draw_line iteration or a driver step.
GraphicsInit == Init /\ Drv!Init
GraphicsNext == \/ Next /\ UNCHANGED dvars
                \/ Drv!Next /\ UNCHANGED vars
\* DrawLine's fairness: the loop runs in its caller's thread to return.
GraphicsSpec == GraphicsInit /\ [][GraphicsNext]_<<vars, dvars>>
                /\ WF_<<vars, dvars>>(Iterate /\ UNCHANGED dvars)

\* In the driver's key loop the framebuffer, read back as pixels, is the
\* last line drawn and nothing else (Driver!ScreenShowsLine).
DriverScreenShowsLine == Drv!ScreenShowsLine
=============================================================================
