------------------------------- MODULE NineMap -------------------------------
(***************************************************************************)
(* The nine-square grid of the area of interest (logic_work/aoi_nine): a   *)
(* map of pixels is cut into cells of one screen.  For each cell the map   *)
(* keeps the cells around it, itself included (mNineMap), those in front   *)
(* of it for each of the eight directions (mDirectMap) and those behind it *)
(* (mReverseDirectMap), so that one who moves to a neighbouring cell can   *)
(* be told what comes into view and what leaves it.                        *)
(*                                                                         *)
(* A nineVec is the set of its keys: their order is only displayed.        *)
(* Unsigned numbers wrap at Word, which is 2^32 in the code, with cells of *)
(* 30 pixels; (int32)mMaxSectorX keeps its value since Screen is above 2.  *)
(***************************************************************************)
EXTENDS Integers

CONSTANTS
    Screen,        \* SCREEN_WIDTH and SCREEN_HEIGHT, both 30
    Word,          \* 2^32: where a uint32 wraps
    Lengths,       \* the lengths init is called with
    MaxInits       \* bound on the calls of init

ASSUME GridAssumption ==
    /\ Screen \in Nat \ (0 .. 2)
    /\ Word \in Nat /\ Word > Screen
    /\ Lengths \subseteq 0 .. Word - 1
    /\ MaxInits \in Nat

VARIABLES
    maxX, maxY,            \* mMaxX, mMaxY
    sectorX, sectorY,      \* mMaxSectorX, mMaxSectorY
    nineMap,               \* mNineMap: key -> cells
    directMap, reverseMap, \* mDirectMap, mReverseDirectMap: dir -> key -> cells
    inits, first           \* history: calls of init, the sectors of the first

mapVars == <<maxX, maxY, sectorX, sectorY, nineMap, directMap, reverseMap, inits, first>>

Directions == 0 .. 7       \* NINE_DIR_TYPE_UP .. NINE_DIR_TYPE_LEFT_UP

\* nineIndexArray: a ring of the eight directions, then the centre.
nineIndexArray ==
    [i \in 0 .. 8 |-> <<<<0, -1>>, <<1, -1>>, <<1, 0>>, <<1, 1>>, <<0, 1>>,
                        <<-1, 1>>, <<-1, 0>>, <<-1, -1>>, <<0, 0>>>>[i + 1]]

MapInit ==
    /\ maxX = 0 /\ maxY = 0
    /\ sectorX = 0 /\ sectorY = 0
    /\ nineMap = <<>>
    /\ directMap = [d \in Directions |-> <<>>]
    /\ reverseMap = [d \in Directions |-> <<>>]
    /\ inits = 0
    /\ first = <<0, 0>>

\* Faulty: the last screen, if it is not full, has no cell.
SectorsRoundedDown(length) == length \div Screen

\* The screens of a length.
Sectors(length) == ((length + Screen - 1) % Word) \div Screen

Key(x, y, w) == (y * w + x) % Word

\* The cells at the given indices around (x, y) that lie in a grid of w by h.
Around(x, y, w, h, indices) ==
    {Key(x + nineIndexArray[i][1], y + nineIndexArray[i][2], w) :
        i \in {j \in indices : /\ x + nineIndexArray[j][1] \in 0 .. w - 1
                               /\ y + nineIndexArray[j][2] \in 0 .. h - 1}}

Diagonal(dir) == dir % 2 = 1

\* Faulty: a diagonal step is taken for a straight one.
FrontStraight(dir) == {(i + dir) % 8 : i \in 7 .. 9}

\* The indices of the five or three cells in front, and of those behind.
Front(dir) == {(i + dir) % 8 : i \in IF Diagonal(dir) THEN 6 .. 10 ELSE 7 .. 9}
Back(dir) == {(i + dir) % 8 : i \in IF Diagonal(dir) THEN 2 .. 6 ELSE 3 .. 5}

\* What the loops make of a grid of w by h.  Where keys wrap, the cell that
\* comes first in the loops has the key.
Made(w, h, indices) ==
    LET size == IF w * h < Word THEN w * h ELSE Word IN
    [k \in 0 .. size - 1 |-> Around(k % w, k \div w, w, h, indices)]

\* insert, for each cell: a key that is there from an earlier call is left alone.
Inserted(map, grid) ==
    [k \in DOMAIN map \cup DOMAIN grid |-> IF k \in DOMAIN map THEN map[k] ELSE grid[k]]

\* NineMap::init.
InitMap(x, y) ==
    LET w == Sectors(x)
        h == Sectors(y)
    IN  /\ inits < MaxInits
        /\ inits' = inits + 1
        /\ maxX' = x /\ maxY' = y
        /\ sectorX' = w /\ sectorY' = h
        /\ nineMap' = Inserted(nineMap, Made(w, h, 0 .. 8))
        /\ directMap' = [d \in Directions |-> Inserted(directMap[d], Made(w, h, Front(d)))]
        /\ reverseMap' = [d \in Directions |-> Inserted(reverseMap[d], Made(w, h, Back(d)))]
        /\ first' = IF inits = 0 THEN <<w, h>> ELSE first

MapNext == \E x, y \in Lengths : InitMap(x, y)

MapSpec == MapInit /\ [][MapNext]_mapVars

-----------------------------------------------------------------------------
\* The screens that the pixels of a length lie on.
Screens(length) == {p \div Screen : p \in 0 .. length - 1}

\* Do the grid's numbers fit their type?
Fits32 ==
    /\ maxX + Screen - 1 < Word
    /\ maxY + Screen - 1 < Word
    /\ sectorX * sectorY <= Word

\* Is the grid the one that was made first?  Another one is mixed with it.
Unmixed == inits > 0 /\ <<sectorX, sectorY>> = first

Near(a, b) == a - b \in -1 .. 1

MapTypeOK ==
    /\ sectorX \in 0 .. Word - 1 /\ sectorY \in 0 .. Word - 1
    /\ DOMAIN nineMap \subseteq 0 .. Word - 1
    /\ \A d \in Directions :
          DOMAIN directMap[d] = DOMAIN nineMap /\ DOMAIN reverseMap[d] = DOMAIN nineMap

(* Every pixel of the map lies in a cell of its own screen, and that cell  *)
(* knows all the screens that touch it and no other: nothing is lost at    *)
(* the edges, where a length is no multiple of a screen, nor by an overlap *)
(* of two keys, as long as the numbers fit and the map was not made before *)
(* with another size (nine_map.cpp:14, 34).                                *)
EveryPixelIsCovered ==
    Fits32 /\ Unmixed =>
        \A sx \in Screens(maxX), sy \in Screens(maxY) :
            /\ Key(sx, sy, sectorX) \in DOMAIN nineMap
            /\ nineMap[Key(sx, sy, sectorX)] =
                  {Key(t, u, sectorX) : t \in {v \in Screens(maxX) : Near(v, sx)},
                                        u \in {v \in Screens(maxY) : Near(v, sy)}}

(* Crossing into the next cell in any of the eight directions, what is in  *)
(* view becomes what was, without what lies behind the cell that is left   *)
(* and with what lies in front of the cell that is entered; nobody is told *)
(* of a cell that was in view already, nor loses one that stays.           *)
CrossingIsExact ==
    Fits32 /\ Unmixed =>
        \A x \in 0 .. sectorX - 1, y \in 0 .. sectorY - 1, d \in Directions :
            LET tx   == x + nineIndexArray[d][1]
                ty   == y + nineIndexArray[d][2]
                from == Key(x, y, sectorX)
                to   == Key(tx, ty, sectorX)
            IN  tx \in 0 .. sectorX - 1 /\ ty \in 0 .. sectorY - 1 =>
                    /\ directMap[d][to] = nineMap[to] \ nineMap[from]
                    /\ reverseMap[d][from] = nineMap[from] \ nineMap[to]

MapInv == MapTypeOK /\ EveryPixelIsCovered /\ CrossingIsExact

-----------------------------------------------------------------------------
(* The inductive invariant: the maps hold the grid that was made first, the *)
(* sectors are those of the last.                                           *)
Holds(map, grid) == \A k \in DOMAIN grid : k \in DOMAIN map /\ map[k] = grid[k]

HoldsFirst ==
    /\ Holds(nineMap, Made(first[1], first[2], 0 .. 8))
    /\ \A d \in Directions :
          /\ Holds(directMap[d], Made(first[1], first[2], Front(d)))
          /\ Holds(reverseMap[d], Made(first[1], first[2], Back(d)))

GridInv ==
    /\ MapTypeOK
    /\ inits \in Nat
    /\ inits = 0 => DOMAIN nineMap = {}
    /\ inits > 0 =>
          /\ {maxX, maxY} \subseteq Lengths
          /\ sectorX = Sectors(maxX) /\ sectorY = Sectors(maxY)
          /\ HoldsFirst

=============================================================================
