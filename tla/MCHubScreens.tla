---------------------------- MODULE MCHubScreens ----------------------------
(* The parts of the hubs' user interface that share no state, side by side:  *)
(* a behaviour picks one and takes its steps, the others stay as they begin. *)
(* The bound is that their product is left out.                              *)
EXTENDS HubMap, HubSettings, P4Screen, P4Camera, TLC

VARIABLE scene  \* which part moves

ScreensInit ==
    /\ scene \in {"map", "settings", "screen", "camera"}
    /\ Init /\ SettingsInit /\ ScreenInit /\ CameraInit
    /\ scene # "map" => board = "p4" /\ view.zoom = MinZoom /\ card
    /\ scene # "settings" => hub = "p4"

MapMoves == scene = "map" /\ Next /\ UNCHANGED <<scene, settingsVars, screenVars, cameraVars>>
SettingsMove ==
    scene = "settings" /\ SettingsNext /\ UNCHANGED <<scene, vars, screenVars, cameraVars>>
ScreenMoves ==
    scene = "screen" /\ ScreenNext /\ UNCHANGED <<scene, vars, settingsVars, cameraVars>>
CameraMoves ==
    scene = "camera" /\ CameraNext /\ UNCHANGED <<scene, vars, settingsVars, screenVars>>

ScreensNext == MapMoves \/ SettingsMove \/ ScreenMoves \/ CameraMoves

ScreensSpec == ScreensInit /\ [][ScreensNext]_<<scene, vars, settingsVars, screenVars, cameraVars>>
-----------------------------------------------------------------------------
\* The map: a world of three rows and two zoom levels, one tile of which has no file and
\* one decodes at times.
MCScale == [z \in 0..1 |-> 2^z]
MCSlots == [b \in Boards |-> IF b = "p4" THEN 4 ELSE 2]
MCReadable == Ids \ {<<1, 0>>, <<1, 3>>}
MCFlaky == {<<1, 3>>}

MCRequires == [net \in Nets |-> IF net = "primary" THEN "home" ELSE "portable"]

\* Pixel buffers have no order: what a slot's buffer holds matters while the slot is valid
\* or shown, and whether slots share one.  The field and the network that an editor worked
\* on no longer matter once it is closed.
MapView == <<board, view, [i \in Index |-> <<slot[i].id, image[i], asked[i],
               IF slot[i].id # None THEN pixels[slot[i].buffer] ELSE None>>],
             Cardinality({slot[i].buffer : i \in Index}),
             page, dirty, bound, card, press, lastTap, followed>>
SettingsView == <<hub, settings, flash, saved, modal, IF modal = "none" THEN {} ELSE {editing},
                  pending, IF pending THEN {previous} ELSE {}, scanned, started, overtaken, torn>>
MCView == <<scene, MapView, SettingsView, screenVars, cameraVars>>
=============================================================================
