---------------------------- MODULE TileIterator ----------------------------
(* dng_tile_iterator of the DNG SDK: it cuts an area along the lines of a    *)
(* repeating tile and delivers the pieces row by row.  A rectangle is        *)
(* [t, l, b, r], with b and r outside, as dng_rect; an iterator is a record  *)
(* of the class's members.                                                   *)
EXTENDS Integers

Rect(t, l, b, r) == [t |-> t, l |-> l, b |-> b, r |-> r]

IsEmpty(rect) == rect.t >= rect.b \/ rect.l >= rect.r

Height(rect) == IF rect.b >= rect.t THEN rect.b - rect.t ELSE 0
Width(rect) == IF rect.r >= rect.l THEN rect.r - rect.l ELSE 0

Smaller(x, y) == IF x < y THEN x ELSE y

(* Division of int32, which drops the fraction. *)
Quotient(x, y) == IF x >= 0 THEN x \div y ELSE -((-x) \div y)

(* The constructor from a tile; an empty area has no page. *)
Initialize(tile, area) ==
  IF IsEmpty(area)
  THEN [area |-> area, tileHeight |-> 0, tileWidth |-> 0,
        leftPage |-> 0, rightPage |-> 0, topPage |-> 0, bottomPage |-> -1,
        horizontalPage |-> 0, verticalPage |-> 0,
        tileTop |-> 0, tileLeft |-> 0, rowLeft |-> 0]
  ELSE LET height == tile.b - tile.t
           width  == tile.r - tile.l
           left   == Quotient(area.l - tile.l, width)
           top    == Quotient(area.t - tile.t, height)
       IN  [area |-> area, tileHeight |-> height, tileWidth |-> width,
            leftPage |-> left,
            rightPage |-> Quotient(area.r - tile.l - 1, width),
            topPage |-> top,
            bottomPage |-> Quotient(area.b - tile.t - 1, height),
            horizontalPage |-> left, verticalPage |-> top,
            tileTop |-> top * height + tile.t,
            tileLeft |-> left * width + tile.l,
            rowLeft |-> left * width + tile.l]

(* The constructor from a tile's size: the tiles start at the area's origin. *)
InitializeSize(height, width, area) ==
  Initialize(Rect(area.t, area.l,
                  Smaller(area.b, area.t + height),
                  Smaller(area.r, area.l + width)), area)

HasTile(it) == it.verticalPage <= it.bottomPage

(* GetOneTile's result ... *)
OneTile(it) ==
  Rect(IF it.verticalPage > it.topPage THEN it.tileTop ELSE it.area.t,
       IF it.horizontalPage > it.leftPage THEN it.tileLeft ELSE it.area.l,
       IF it.verticalPage < it.bottomPage THEN it.tileTop + it.tileHeight
                                          ELSE it.area.b,
       IF it.horizontalPage < it.rightPage THEN it.tileLeft + it.tileWidth
                                           ELSE it.area.r)

(* Mutant: the first column of the next row of tiles starts where the last   *)
(* row of tiles ended.                                                       *)
AdvanceKeepsLeft(it) ==
  IF it.horizontalPage < it.rightPage
  THEN [it EXCEPT !.horizontalPage = @ + 1, !.tileLeft = @ + it.tileWidth]
  ELSE [it EXCEPT !.verticalPage = @ + 1, !.tileTop = @ + it.tileHeight,
                  !.horizontalPage = it.leftPage]

(* ... and what it does to the iterator. *)
Advance(it) ==
  IF it.horizontalPage < it.rightPage
  THEN [it EXCEPT !.horizontalPage = @ + 1, !.tileLeft = @ + it.tileWidth]
  ELSE [it EXCEPT !.verticalPage = @ + 1, !.tileTop = @ + it.tileHeight,
                  !.horizontalPage = it.leftPage, !.tileLeft = it.rowLeft]
=============================================================================
