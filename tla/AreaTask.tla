------------------------------ MODULE AreaTask ------------------------------
(* dng_area_task of the DNG SDK: Perform finds a tile size, lets the task    *)
(* allocate its buffers for it, and calls Process for tiles that four nested *)
(* iterators cut from the area, along the lines of up to three repeating     *)
(* tiles and of the tile size.  The area, the repeating tiles (empty: none), *)
(* the unit cell and the largest tile are chosen in Init.                    *)
(*                                                                           *)
(* As for the SDK's own tasks, the repeating tiles start at or before the    *)
(* area, and the largest tile holds a unit cell (dng_fast_interpolator and   *)
(* dng_resample_task see to it).                                             *)
EXTENDS TileIterator, Sequences

CONSTANTS Areas,      \* rectangles to process
          Repeats,    \* sequences of three repeating tiles
          Units,      \* unit cells [v, h]
          MaxTiles    \* largest tiles [v, h]

Rectangles == [t : Int, l : Int, b : Int, r : Int]

ASSUME AreaTaskAssumption ==
  /\ Areas \subseteq Rectangles /\ \A a \in Areas : ~IsEmpty(a)
  /\ Repeats \subseteq [1..3 -> Rectangles]
  /\ \A rs \in Repeats : \A i \in 1..3 : \A a \in Areas :
       IsEmpty(rs[i]) \/ (rs[i].t <= a.t /\ rs[i].l <= a.l)
  /\ Units \subseteq [v : Nat \ {0}, h : Nat \ {0}]
  /\ MaxTiles \subseteq [v : Nat, h : Nat]
  /\ \A m \in MaxTiles : \A u \in Units : m.v >= u.v /\ m.h >= u.h

VARIABLES area, repeats, unit, maxTile,   \* the task; never change
          tileSize,   \* what FindTileSize returned and Start was told
          iters,      \* the iterators of the loops entered, outermost first
          tiles       \* history: the tiles Process was called for

areaVars == <<area, repeats, unit, maxTile, tileSize, iters, tiles>>

(* An empty repeating tile stands for the whole area. *)
RepeatingTile(i) == IF IsEmpty(repeats[i]) THEN area ELSE repeats[i]

(* Mutant: the rounding to whole unit cells is not limited again. *)
AxisSizeUnlimited(repeat, largest, cell) ==
  LET first == Smaller(largest, repeat)
      count == (repeat + first - 1) \div first
      part  == (repeat + count - 1) \div count
  IN  ((part + cell - 1) \div cell) * cell

(* FindTileSize along one axis, with the smallest of the repeating tiles'    *)
(* sizes: equal parts no larger than the largest tile, in whole unit cells.  *)
AxisSize(repeat, largest, cell) ==
  LET first == Smaller(largest, repeat)
      count == (repeat + first - 1) \div first
      part  == (repeat + count - 1) \div count
      whole == ((part + cell - 1) \div cell) * cell
  IN  IF whole > largest THEN (largest \div cell) * cell ELSE whole

FindTileSize ==
  LET Least(size(_)) ==
        Smaller(Smaller(size(RepeatingTile(1)), size(RepeatingTile(2))),
                size(RepeatingTile(3)))
  IN  [v |-> AxisSize(Least(Height), maxTile.v, unit.v),
       h |-> AxisSize(Least(Width), maxTile.h, unit.h)]

AreaFresh ==
  /\ tileSize = FindTileSize
  /\ iters = <<Initialize(RepeatingTile(3), area)>>
  /\ tiles = <<>>

AreaInit ==
  /\ area \in Areas /\ repeats \in Repeats
  /\ unit \in Units /\ maxTile \in MaxTiles
  /\ AreaFresh

(* The iterator of the loop at a level, over a tile of the loop around it. *)
LoopOver(level, tile) ==
  IF level < 4 THEN Initialize(RepeatingTile(4 - level), tile)
               ELSE InitializeSize(tileSize.v, tileSize.h, tile)

Innermost == iters[Len(iters)]
Outer == SubSeq(iters, 1, Len(iters) - 1)

(* A tile of one of the three outer loops: the loop inside starts over it. *)
Enter ==
  /\ iters # <<>> /\ Len(iters) < 4 /\ HasTile(Innermost)
  /\ iters' = Append(Append(Outer, Advance(Innermost)),
                     LoopOver(Len(iters) + 1, OneTile(Innermost)))
  /\ UNCHANGED <<area, repeats, unit, maxTile, tileSize, tiles>>

(* A tile of the innermost loop is processed. *)
ProcessTile ==
  /\ Len(iters) = 4 /\ HasTile(Innermost)
  /\ iters' = Append(Outer, Advance(Innermost))
  /\ tiles' = Append(tiles, OneTile(Innermost))
  /\ UNCHANGED <<area, repeats, unit, maxTile, tileSize>>

(* A loop that has no tile left ends; after the outermost one, Finish. *)
Leave ==
  /\ iters # <<>> /\ ~HasTile(Innermost)
  /\ iters' = Outer
  /\ UNCHANGED <<area, repeats, unit, maxTile, tileSize, tiles>>

AreaNext == Enter \/ ProcessTile \/ Leave

AreaSpec == AreaInit /\ [][AreaNext]_areaVars

-----------------------------------------------------------------------------

Pixels(rect) == (rect.t .. rect.b - 1) \X (rect.l .. rect.r - 1)

(* No pixel is processed twice, and when the outermost loop has ended every  *)
(* pixel of the area has been: whatever lines the area is cut along, the     *)
(* pieces of the four nested iterators fit together.                         *)
EachPixelOnce ==
  /\ \A i, j \in DOMAIN tiles :
       i # j => Pixels(tiles[i]) \cap Pixels(tiles[j]) = {}
  /\ iters = <<>> =>
       UNION {Pixels(tiles[i]) : i \in DOMAIN tiles} = Pixels(area)

(* "the resulting partitions that the final Process method is called on will *)
(* not cross tile boundaries in any of the tile patterns" (dng_area_task.h): *)
(* a tile is never empty and lies in one cell of each repeating tile.        *)
NoLineCrossed ==
  \A i \in DOMAIN tiles :
    /\ ~IsEmpty(tiles[i])
    /\ \A k \in 1..3 :
         LET rep == RepeatingTile(k)
         IN  /\ (tiles[i].t - rep.t) \div Height(rep)
                  = (tiles[i].b - 1 - rep.t) \div Height(rep)
             /\ (tiles[i].l - rep.l) \div Width(rep)
                  = (tiles[i].r - 1 - rep.l) \div Width(rep)

(* A tile fits in the buffers: Start allocated them for tileSize, and the    *)
(* task wants none larger than its largest tile.                             *)
BuffersHold ==
  /\ tileSize.v \in 1..maxTile.v /\ tileSize.h \in 1..maxTile.h
  /\ \A i \in DOMAIN tiles :
       Height(tiles[i]) <= tileSize.v /\ Width(tiles[i]) <= tileSize.h

(* Where area and repeating tiles are made of whole unit cells, every tile   *)
(* is, so that a task can process it cell by cell.                           *)
WholeCells ==
  LET Whole(rect) == /\ rect.t % unit.v = 0 /\ rect.b % unit.v = 0
                     /\ rect.l % unit.h = 0 /\ rect.r % unit.h = 0
  IN  Whole(area) /\ (\A k \in 1..3 : Whole(RepeatingTile(k)))
        => \A i \in DOMAIN tiles : Whole(tiles[i])

(* What a task may rely on when it is given a tile: its buffers hold it, no  *)
(* line of a pattern crosses it, and it can be processed cell by cell.       *)
TilesFit == BuffersHold /\ NoLineCrossed /\ WholeCells
=============================================================================
