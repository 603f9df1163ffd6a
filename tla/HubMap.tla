------------------------------- MODULE HubMap -------------------------------
(***************************************************************************)
(* The map of the two ESP-IDF hubs: one viewport engine, two ways to fill   *)
(* it with tiles.  The Home Hub (ESP32-P4) decodes every tile of the view   *)
(* and of a margin of one tile inside one refresh, and carries what it has  *)
(* decoded from slot to slot; the ESP32-S3 hub has slots for the view only  *)
(* and decodes one tile per timer tick.  Panning, pinching, double taps,    *)
(* following a cat, rotations and rebuilds of the page move the view while  *)
(* slots, pixel buffers and the images on the screen stay.                  *)
(*                                                                         *)
(* One dimension stands for two: a tile is a row, and the grid is row-major *)
(* in the code, so that a column more or less moves every tile of a slot as *)
(* a row above does here.                                                  *)
(***************************************************************************)
EXTENDS Integers, FiniteSets, Sequences

CONSTANTS
    Boards,             \* which hubs: "p4", "s3"
    MinZoom, MaxZoom,   \* zoom levels of the layer
    TopRows,            \* rows of the world at MinZoom
    Scale,              \* how much larger the world is at a zoom level than at MinZoom
    Landscape, Portrait,\* heights of the view, in half tiles
    Slots,              \* of each board: how many images and cache entries it has
    Readable, Flaky,    \* tiles whose file always, sometimes decodes; others have none
    CatAt               \* where a cat may be: rows of the world at MinZoom, in half tiles

ASSUME HubMapAssumption ==
    /\ Boards \subseteq {"p4", "s3"}
    /\ MinZoom \in Nat /\ MaxZoom \in MinZoom..(MinZoom + 8) /\ TopRows \in Nat \ {0}
    /\ Scale \in [MinZoom..MaxZoom -> Nat \ {0}] /\ Scale[MinZoom] = 1
    /\ \A z \in MinZoom..(MaxZoom - 1) : Scale[z + 1] = 2 * Scale[z]
    /\ {Landscape, Portrait} \subseteq Nat \ {0}
    /\ Slots \in [Boards -> Nat \ {0}]
    /\ Readable \cap Flaky = {}
    /\ CatAt \subseteq 0..(2 * TopRows)

\* The images of the Home Hub are as many as any of its views needs with the margin
\* (kMaximumVisibleTiles against kMapWidth, kMapHeight and their portrait twins).
ASSUME MapSlotsAssumption ==
    "p4" \in Boards => \A h \in {Landscape, Portrait} : (h \div 2) + 3 <= Slots["p4"]

VARIABLES
    board,      \* the hub
    view,       \* bluepaws::map::Viewport: zoom, centre, height
    slot,       \* tile_cache / tile_slots: the tile it holds (None: not valid), its buffer
    pixels,     \* what is in each pixel buffer
    image,      \* tile_images: hidden ({}) or shown at a place
    asked,      \* S3: tile requested of each slot that is pending (none: not pending)
    page,       \* P4: whether the map page is what create_ui has built
    dirty,      \* P4: tiles_dirty
    bound,      \* P4: tile_images_bound
    card,       \* the card is mounted (P4) or was there at the last look (S3)
    press,      \* the press of the map: none, still a tap, no tap any more
    lastTap,    \* last_map_tap_ms # 0
    followed    \* P4: followed_cat (S3 has none)

viewVars == <<view, page, dirty, bound, card>>
tiles == <<slot, pixels, image, asked>>
touch == <<press, lastTap>>
vars == <<board, view, slot, pixels, image, asked, page, dirty, bound, card, press, lastTap,
          followed>>

None == <<>>
Tile == 2
Ids == {<<z, r>> : z \in MinZoom..MaxZoom, r \in 0..(TopRows * Scale[MaxZoom] - 1)}
Index == 1..Slots[board]
-----------------------------------------------------------------------------
(* The viewport engine.                                                     *)

Rows(z) == TopRows * Scale[z]
WorldSize(z) == Tile * Rows(z)
Clamp(x, low, high) == IF x < low THEN low ELSE IF x > high THEN high ELSE x

Top(v) == v.center - (v.height \div 2)

\* setCenter, with a point given at MinZoom.
Centred(v, at) == [v EXCEPT !.center = at * Scale[v.zoom]]

\* setZoom keeps the geographic centre.
Zoomed(v, z) == [v EXCEPT !.zoom = z, !.center = (v.center * Scale[z]) \div Scale[v.zoom]]

\* panBy: unproject clamps to the world.
Panned(v, drag) == [v EXCEPT !.center = Clamp(v.center - drag, 0, WorldSize(v.zoom))]

\* centerAndZoom: the point of the screen becomes the centre.
CentredAndZoomed(v, y, z) == Zoomed(Panned(v, (v.height \div 2) - y), z)

\* visibleTiles: the tiles that meet the view, and `over` more on each side, from the
\* first to the last, where they are on the screen, no more than fit the slots.
VisibleTiles(v, over) ==
    LET first == (Top(v) \div Tile) - over
        last == ((Top(v) + v.height - 1) \div Tile) + over
        low == Clamp(first, 0, Rows(v.zoom))
        high == Clamp(last, -1, Rows(v.zoom) - 1)
    IN  [i \in 1..Clamp(high - low + 1, 0, Slots[board]) |->
           [id |-> <<v.zoom, low + i - 1>>, at |-> Tile * (low + i - 1) - Top(v)]]

Moved(shown, at) == {at : x \in shown}

\* Decoding tile id into a buffer that holds `old`: a decoder that fails on the way
\* leaves the buffer spoilt; a missing file leaves it alone.
Decoded(id, good, old) ==
    CASE id \in good -> id
      [] id \in Flaky \ good -> None
      [] OTHER -> old
-----------------------------------------------------------------------------
(* Home Hub: refresh_map_tiles.                                             *)

\* Where the slots take their entries from: what is decoded already goes to the slot that
\* needs it, the other slots are filled with what is left, in order.
\* (_Shared: what is left is not told from what was given away.)
SourceIndices_Shared(s, grid) ==
    [i \in Index |->
       IF \E j \in Index : i \in DOMAIN grid /\ s[j].id = grid[i].id
       THEN CHOOSE j \in Index : s[j].id = grid[i].id ELSE i]
SourceIndices(s, grid) ==
    LET held(i) == {j \in Index : i \in DOMAIN grid /\ s[j].id = grid[i].id}
        kept == {i \in Index : held(i) # {}}
        given == [i \in kept |-> CHOOSE j \in held(i) : TRUE]
        left == Index \ {given[i] : i \in kept}
        place(i) == Cardinality((1..i) \ kept)
    IN  [i \in Index |->
           IF i \in kept THEN given[i]
           ELSE CHOOSE j \in left : Cardinality(left \cap 1..j) = place(i)]

Reordered(s, grid) == [i \in Index |-> s[SourceIndices(s, grid)[i]]]

\* The margin of a refresh (_NoMargin: only what is on the screen).
Overscan_NoMargin == 0
Overscan == 1

HideAll == [i \in Index |-> {}]

\* refresh_map_tiles with view v: tiles in good decode.  Images are bound and shown
\* afresh when a slot needs another tile, otherwise they only move.  (\E over a singleton
\* names a value that TLC then computes once.)
Rebinds(grid) == ~bound \/ \E i \in DOMAIN grid : slot[i].id # grid[i].id

RefreshP4(v, good) ==
    \E grid \in {VisibleTiles(v, Overscan)} :
    \E changed \in {Rebinds(grid)} :
    \E moved \in {IF changed THEN Reordered(slot, grid) ELSE slot} :
    \E stale \in {{i \in DOMAIN grid : moved[i].id # grid[i].id}} :
      LET failed == {i \in stale : grid[i].id \notin good}
          into(b) == {i \in stale : moved[i].buffer = b}
      IN  /\ slot' = [i \in Index |->
                IF i \in failed THEN [moved[i] EXCEPT !.id = None]
                ELSE IF i \in stale THEN [moved[i] EXCEPT !.id = grid[i].id] ELSE moved[i]]
          /\ pixels' = [b \in DOMAIN pixels |->
                IF into(b) = {} THEN pixels[b]
                ELSE Decoded(grid[CHOOSE i \in into(b) : TRUE].id, good, pixels[b])]
          /\ image' = [i \in Index |->
                IF i \notin DOMAIN grid \ failed THEN {}
                ELSE IF changed THEN {grid[i].at} ELSE Moved(image[i], grid[i].at)]
          /\ bound' = (bound \/ changed) /\ dirty' = FALSE
          /\ UNCHANGED asked

\* What update_ui does for the map: the followed cat is centred, then a dirty map whose
\* page is there is refreshed.
UpdateP4(v, changed) ==
    \E where \in CatAt, good \in {Readable \cup f : f \in SUBSET Flaky} :
      LET w == IF followed THEN Centred(v, where) ELSE v
          soiled == changed \/ dirty \/ followed
      IN  /\ view' = w
          /\ UNCHANGED <<page, card>>
          /\ IF soiled /\ page /\ card THEN RefreshP4(w, good)
             ELSE IF soiled /\ page
                  THEN /\ image' = HideAll /\ dirty' = FALSE
                       /\ UNCHANGED <<slot, pixels, asked, bound>>
                  ELSE /\ dirty' = soiled /\ UNCHANGED <<bound, slot, pixels, image, asked>>
-----------------------------------------------------------------------------
(* ESP32-S3: refresh_tiles and load_next_tile.                              *)

\* Whether a slot still shows what it should.
Keeps(i, id) == slot[i].id = id

\* refresh_tiles: slots that show what they should stay; the others ask for their tile.
RefreshS3(v, there) ==
    LET grid == VisibleTiles(v, 0)
        used(i) == i \in DOMAIN grid /\ there
        waits(i) == used(i) /\ ~Keeps(i, grid[i].id) /\ asked[i] = grid[i].id
        fresh(i) == used(i) /\ ~Keeps(i, grid[i].id) /\ asked[i] # grid[i].id
    IN  /\ slot' = [i \in Index |-> IF fresh(i) THEN [slot[i] EXCEPT !.id = None] ELSE slot[i]]
        /\ asked' = [i \in Index |-> IF ~used(i) THEN None
                                     ELSE IF fresh(i) THEN grid[i].id ELSE asked[i]]
        /\ image' = [i \in Index |->
              IF ~used(i) \/ fresh(i) THEN {}
              ELSE IF waits(i) THEN Moved(image[i], grid[i].at) ELSE {grid[i].at}]
        /\ card' = there
        /\ UNCHANGED <<pixels, page, dirty, bound>>

UpdateS3(v) == view' = v /\ \E there \in BOOLEAN : RefreshS3(v, there)

\* load_next_tile: the first pending slot is decoded and shown where it lies.
LoadNextTile ==
    /\ board = "s3"
    /\ \E i \in Index, good \in {Readable \cup f : f \in SUBSET Flaky} :
        /\ asked[i] # None /\ \A j \in Index : j < i => asked[j] = None
        /\ asked' = [asked EXCEPT ![i] = None]
        /\ pixels' = [pixels EXCEPT ![slot[i].buffer] = Decoded(asked[i], good, @)]
        /\ IF asked[i] \in good
           THEN /\ slot' = [slot EXCEPT ![i].id = asked[i]]
                /\ image' = [image EXCEPT ![i] = {VisibleTiles(view, 0)[i].at}]
           ELSE image' = [image EXCEPT ![i] = {}] /\ UNCHANGED slot
    /\ UNCHANGED <<board, viewVars, touch, followed>>
-----------------------------------------------------------------------------
(* What moves the view, on either board.                                    *)

\* A change of the view, shown at once (P4: marked dirty, then update_ui).
Show(v) ==
    IF board = "p4" THEN UpdateP4(v, TRUE) ELSE UpdateS3(v)

OnMap == board = "s3" \/ page
NewZoom(steps) == Clamp(view.zoom + steps, MinZoom, MaxZoom)

\* A change of zoom by steps: at the limit the Home Hub does nothing.
ZoomBy(steps) ==
    IF board = "p4" /\ NewZoom(steps) = view.zoom THEN UNCHANGED <<viewVars, tiles>>
    ELSE Show(Zoomed(view, NewZoom(steps)))

\* zoom_in_clicked, zoom_out_clicked.
ZoomClicked(steps) ==
    /\ OnMap
    /\ ZoomBy(steps)
    /\ UNCHANGED <<board, touch, followed>>

\* home_clicked, fit_all_clicked (fitPoints finds a centre and a zoom).
HomeClicked(where, z) ==
    /\ OnMap
    /\ Show(Centred([view EXCEPT !.zoom = z], where))
    /\ UNCHANGED <<board, touch, followed>>

MapPressed(fingers) ==
    /\ OnMap
    /\ press' = IF fingers > 1 THEN "other" ELSE "tap"
    /\ UNCHANGED <<board, viewVars, tiles, lastTap, followed>>

\* map_pressing: steps that the driver has counted since they were last taken, whatever
\* the fingers do now; with one finger the view follows the drag (a call that pinches and
\* drags is one that pinches, then one that drags).
MapPressing(steps, fingers, far, drag) ==
    /\ OnMap /\ press # "none"
    /\ CASE steps # 0 -> drag = 0 /\ ZoomBy(steps)
         [] steps = 0 /\ fingers = 1 /\ drag # 0 -> Show(Panned(view, drag))
         [] OTHER -> UNCHANGED <<viewVars, tiles>>
    /\ LET spoilt == fingers > 1 \/ far
       IN  /\ press' = IF spoilt \/ (board = "s3" /\ steps # 0) THEN "other" ELSE press
           /\ lastTap' = (lastTap /\ ~spoilt)
    /\ UNCHANGED <<board, followed>>

\* map_released: a tap closes the drawer if it is open; otherwise the second of two quick
\* taps zooms in.
MapReleased(far, soon, open, y) ==
    /\ OnMap /\ press # "none"
    /\ press' = "none"
    /\ LET tap == press = "tap" /\ ~far /\ ~open
           double == tap /\ lastTap /\ soon
       IN  /\ lastTap' = (tap /\ ~double)
           /\ IF double THEN Show(CentredAndZoomed(view, y, NewZoom(1)))
              ELSE UNCHANGED <<viewVars, tiles>>
    /\ UNCHANGED <<board, followed>>

\* drawer_jump_clicked.
JumpClicked(where) ==
    /\ board = "p4" /\ page
    /\ Show(Centred(view, where))
    /\ UNCHANGED <<board, press, lastTap, followed>>

\* drawer_follow_clicked.
FollowClicked ==
    /\ board = "p4" /\ page
    /\ followed' = ~followed
    /\ UNCHANGED <<board, viewVars, tiles, touch>>

\* update_timer.
UpdateTimer ==
    /\ board = "p4" /\ UpdateP4(view, FALSE)
    /\ UNCHANGED <<board, touch, followed>>

\* rebuild_current_page: the images go; the map page makes new ones and has them bound
\* afresh, what is decoded stays.
Rebuilt(map) ==
    /\ page' = map
    /\ image' = HideAll
    /\ bound' = IF map THEN FALSE ELSE bound

\* Another page, the same page in another theme, or the other orientation.
Rebuild(map, height) ==
    /\ board = "p4"
    /\ Rebuilt(map)
    /\ view' = [view EXCEPT !.height = height]
    /\ dirty' = (dirty \/ map \/ height # view.height)
    /\ UNCHANGED <<board, slot, pixels, asked, card, touch, followed>>

\* The hub starts with the map, wherever its first centre is.
Init ==
    /\ board \in Boards
    /\ view \in {[zoom |-> z, center |-> c * Scale[z], height |-> Landscape] :
                    z \in MinZoom..MaxZoom, c \in CatAt}
    /\ slot = [i \in Index |-> [id |-> None, buffer |-> i]]
    /\ pixels = [i \in Index |-> None]
    /\ image = HideAll
    /\ asked = [i \in Index |-> None]
    /\ page = (board = "p4") /\ dirty = (board = "p4") /\ bound = FALSE
    /\ card \in IF board = "p4" THEN BOOLEAN ELSE {FALSE}
    /\ press = "none"
    /\ lastTap = FALSE /\ followed = FALSE

Gesture ==
    \/ \E f \in 1..2 : MapPressed(f)
    \/ \E s \in {-1, 1}, f \in 1..2 : MapPressing(s, f, FALSE, 0)
    \/ \E far \in BOOLEAN, d \in {-1, 0, 1} : MapPressing(0, 1, far, d)
    \/ MapPressing(0, 2, FALSE, 0)
    \/ \E y \in {0, Landscape - 1} : MapReleased(FALSE, TRUE, FALSE, y)
    \/ MapReleased(FALSE, FALSE, FALSE, 0)
    \/ MapReleased(FALSE, FALSE, TRUE, 0)
    \/ MapReleased(TRUE, FALSE, FALSE, 0)

Next ==
    \/ Gesture
    \/ \E s \in {-1, 1} : ZoomClicked(s)
    \/ \E c \in CatAt, z \in MinZoom..MaxZoom : HomeClicked(c, z)
    \/ \E c \in CatAt : JumpClicked(c)
    \/ FollowClicked
    \/ UpdateTimer
    \/ \E m \in BOOLEAN, h \in {Landscape, Portrait} : Rebuild(m, h)
    \/ LoadNextTile

Spec == Init /\ [][Next]_vars
-----------------------------------------------------------------------------
TypeOK ==
    /\ board \in Boards
    /\ view.zoom \in MinZoom..MaxZoom /\ view.center \in 0..WorldSize(view.zoom)
    /\ \A i \in Index : slot[i].buffer \in Index /\ slot[i].id \in Ids \cup {None}
    /\ press \in {"none", "tap", "other"}
    /\ {page, dirty, bound, card, lastTap, followed} \subseteq BOOLEAN

Placed == IF board = "p4" THEN VisibleTiles(view, 1) ELSE VisibleTiles(view, 0)

\* What is on the screen is right: an image that is not hidden shows the pixels of the
\* very tile whose place it has, although slots change tiles, tiles change slots and
\* buffers are decoded into again while others are shown.
ShownIsRight ==
    ~dirty => LET placed == {Placed[k] : k \in DOMAIN Placed}
              IN  \A i \in Index : \A at \in image[i] :
                      [id |-> pixels[slot[i].buffer], at |-> at] \in placed

\* The map has settled: refreshed, or no tile of it is pending.
Settled ==
    /\ card
    /\ IF board = "p4" THEN page /\ ~dirty ELSE \A i \in Index : asked[i] = None

\* Nothing on the screen stays blank: once the map has settled every tile in view whose
\* file can be decoded is shown, however the view came there.  The Home Hub leaves the
\* images alone when no slot needs another tile, also those it hid while the view was
\* smaller: the margin keeps them off the screen, except in the two northernmost rows of
\* the world, where the first slot keeps its tile while the view moves on.
Northernmost == board = "p4" /\ Top(view) \div Tile < 2
VisibleShown ==
    Settled /\ ~Northernmost =>
        LET grid == VisibleTiles(view, 0)
        IN  \A k \in DOMAIN grid : grid[k].id \in Readable =>
                \E i \in Index : image[i] = {grid[k].at} /\ pixels[slot[i].buffer] = grid[k].id
=============================================================================
