\* A 3x2 screen, and endpoints from one pixel off the top-left corner to
\* one pixel past the last column and row, so that every octant, every
\* degenerate line and every edge of the bounds check is reached.
CONSTANTS
  Width = 3
  YLength = 2
  Coords <- MCCoords
  MaxPixels = 8
SPECIFICATION GraphicsSpec
\* draw_line returns: the final state of a call has no successor.
CHECK_DEADLOCK FALSE
INVARIANT TypeOK
INVARIANT LineIsBresenham
PROPERTY LineTerminates
INVARIANT DriverScreenShowsLine
