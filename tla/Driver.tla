------------------------------- MODULE Driver -------------------------------
(***************************************************************************)
(* driver.c over the library of library.c: init_graphics, an off-screen   *)
(* buffer from create_buffer, then a loop reading keys with getkey; each   *)
(* 'n' clears the buffer, draws the next of three lines into it with       *)
(* draw_line and blits it to the framebuffer; 'q' or the third line ends   *)
(* the loop and exit_graphics clears the screen.                           *)
(*                                                                         *)
(* An image is a function from the Width*YLength cells (yLength rows of    *)
(* bitDepth/2 16-bit pixels) to color_t values.  The lines are those of   *)
(* driver.c scaled to the screen; they lie on it, so draw_pixel's stores   *)
(* all land inside the image.  Keys other than 'n' and 'q' only sleep and  *)
(* change no state; sleep_ms, the terminal modes, munmap and close are     *)
(* left out.                                                               *)
(***************************************************************************)
EXTENDS Integers, Sequences, FiniteSets, Bitwise

CONSTANTS Width,      \* bitDepth/2: pixels per row
          YLength,    \* yres_virtual: rows
          Lines,      \* the three draw_line calls: <<[x1, y1, x2, y2], ...>>
          MaxPixels   \* a bound above the length of every line

ASSUME Len(Lines) = 3

VARIABLES pc,       \* "start", "top" (the do-while), "exit" or "done"
          n,        \* the count of 'n' keys
          buf,      \* the off-screen buffer
          screen    \* the framebuffer

vars == <<pc, n, buf, screen>>

\* size = yLength*bitDepth bytes, i.e. this many color_t cells.
Cells == 0 .. Width * YLength - 1

\* RGB(r, g, b): ((color_t)((r) << 11) | (g) << 5 | (b)); the cast applies
\* to r << 11 only, and the int result becomes a color_t at the call.
RGB(r, g, b) == ((((r * 2^11) % 2^16) | (g * 2^5)) | b) % 2^16

\* The colours driver.c passes with its three lines.
LineColour == <<RGB(12, 58, 21), RGB(0, 58, 21), RGB(12, 0, 21)>>

DL(e) == INSTANCE DrawLine WITH ends <- e, x <- e.x1, y <- e.y1, err <- 0,
                                pc <- "loop", drawn <- <<>>, stored <- {},
                                Coords <- Int

\* The point and error term after i iterations of draw_line's for(;;) loop
\* (DrawLine!Iterate) for the call e; the loop stays at (x2, y2) once it
\* has reached it, where it breaks.
LoopState(e) ==
  LET st[i \in 0 .. MaxPixels] ==
        IF i = 0 THEN [x |-> e.x1, y |-> e.y1, err |-> DL(e)!dx + DL(e)!dy]
        ELSE LET p == st[i - 1]
                 e2 == 2 * p.err
                 stx == DL(e)!StepX(e2)
                 sty == DL(e)!StepY(e2)
             IN IF p.x = e.x2 /\ p.y = e.y2 THEN p
                ELSE [x |-> IF stx THEN p.x + DL(e)!sx ELSE p.x,
                      y |-> IF sty THEN p.y + DL(e)!sy ELSE p.y,
                      err |-> p.err + (IF stx THEN DL(e)!dy ELSE 0)
                                    + (IF sty THEN DL(e)!dx ELSE 0)]
  IN st

\* The cells draw_line(img, e.x1, e.y1, e.x2, e.y2, c) stores into: the
\* draw_pixel of every point the loop passes.
DrawLineCells(e) ==
  LET st == LoopState(e) IN
  UNION {DL(e)!draw_pixel(st[i].x, st[i].y) : i \in 0 .. MaxPixels}

\* draw_line(img, ..., c): colour c into the cells of the line.
DrawLineOn(img, e, c) == [i \in Cells |-> IF i \in DrawLineCells(e) THEN c ELSE img[i]]

\* clear_screen(img): zero the first yLength*bitDepth/2 cells.
ClearScreen(img) == [i \in Cells |-> 0]

\* create_buffer: an anonymous mapping of size bytes, zero-filled.
CreateBuffer == [i \in Cells |-> 0]

\* What the framebuffer held before the program started.
OldPixels == {0, 1}

Init ==
  /\ pc = "start"
  /\ n = 0
  /\ buf = CreateBuffer
  /\ screen \in [Cells -> OldPixels]

\* init_graphics(); buf = create_buffer(); blit(buf);  (blit copies size/2
\* cells from buf to the framebuffer)
Start ==
  /\ pc = "start"
  /\ buf' = CreateBuffer
  /\ screen' = buf'
  /\ pc' = "top"
  /\ UNCHANGED n

\* The n-th line drawn on the buffer, with its colour.
\* Slip: drawing on the buffer without clearing it first.
RedrawNoClear(img, k) == DrawLineOn(img, Lines[k], LineColour[k])
\* clear_screen(buf); then the draw_line of the k-th 'n'.
Redraw(img, k) == DrawLineOn(ClearScreen(img), Lines[k], LineColour[k])

\* One turn of the do-while with key 'n': n++, redraw the buffer, blit.
KeyN ==
  /\ pc = "top" /\ n # 3
  /\ n' = n + 1
  /\ buf' = Redraw(buf, n + 1)
  /\ screen' = buf'
  /\ UNCHANGED pc

\* Key 'q': break out of the loop.
KeyQ ==
  /\ pc = "top" /\ n # 3
  /\ pc' = "exit"
  /\ UNCHANGED <<n, buf, screen>>

\* if (n==3) break;
Finish ==
  /\ pc = "top" /\ n = 3
  /\ pc' = "exit"
  /\ UNCHANGED <<n, buf, screen>>

\* exit_graphics(): clear_screen(frameBuffer), then unmap and restore.
ExitGraphics ==
  /\ pc = "exit"
  /\ screen' = ClearScreen(screen)
  /\ pc' = "done"
  /\ UNCHANGED <<n, buf>>

Next == Start \/ KeyN \/ KeyQ \/ Finish \/ ExitGraphics

Spec == Init /\ [][Next]_vars

-----------------------------------------------------------------------------
\* The pixel (x, y) a framebuffer cell shows: row-major, Width per row.
PixelOf(i) == <<i % Width, i \div Width>>

\* After the n-th 'n' the framebuffer, read back as pixels, is the n-th
\* line and nothing else: every lit pixel has the line's colour, both
\* endpoints are lit, there is one lit pixel per step of the major axis,
\* and each lies within half a pixel of the ideal segment.  It goes
\* through the whole draw path: clear_screen, draw_line's loop,
\* draw_pixel's store address, and blit.
ScreenShowsLine ==
  pc = "top" /\ n > 0 =>
    LET e == Lines[n]
        lit == {i \in Cells : screen[i] # 0}
        major == DL(e)!MaxOf(DL(e)!absoluteVal(e.x2 - e.x1),
                             DL(e)!absoluteVal(e.y2 - e.y1))
    IN /\ \A i \in lit : screen[i] = LineColour[n]
       /\ {<<e.x1, e.y1>>, <<e.x2, e.y2>>} \subseteq {PixelOf(i) : i \in lit}
       /\ Cardinality(lit) = major + 1
       /\ \A i \in lit : DL(e)!Deviation(PixelOf(i)) <= major
=============================================================================
