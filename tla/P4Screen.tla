------------------------------ MODULE P4Screen ------------------------------
(***************************************************************************)
(* The Home Hub's screen (hub/esp-idf-p4/main/main.cpp): which page is      *)
(* built, in which orientation, what lies over it (the tray of quick        *)
(* settings, the brightness and volume popups with their timers and fades,  *)
(* dialogs), the drawer of the map, and what inactivity does: dim, switch   *)
(* off, and show the map.                                                  *)
(*                                                                         *)
(* A page is rebuilt by lv_async_call, which LVGL runs before it reads the  *)
(* next touch: changing a page and rebuilding it are one step here, which   *)
(* also hides screensaver_pending.  The map, the settings and the camera    *)
(* of these pages are HubMap, HubSettings and P4Camera.                     *)
(***************************************************************************)
EXTENDS Naturals, FiniteSets

CONSTANT Cats   \* cards of the drawer

Pages == {"map", "settings", "camera"}
Kinds == {"brightness", "volume"}
Thresholds == {"overview", "dim", "off"}

VARIABLES
    shows,     \* active_page
    portrait,  \* portrait
    before,    \* portrait_before_camera, where camera_forced_portrait (none: {})
    drawer,    \* drawer_open
    expanded,  \* drawer_card_expanded
    tray,      \* quick_settings_open: hidden, open, or closing (its buttons still react)
    popup,     \* of each popup: not created, hidden or shown; timer running; fading
    dialog,    \* none, "settings" (settings_modal) or "mode" (overview_mode_confirmation)
    lit,       \* on, dim, off: screen_dimmed, screen_off
    webMode,   \* g_requested_mode: the web page's mode waits for update_ui
    idle       \* what the inactivity has passed: a second, and the thresholds

overlays == <<tray, popup, dialog>>
turned == <<portrait, before>>
atUpdate == <<lit, webMode>>   \* what only update_ui changes
screenVars == <<shows, turned, drawer, expanded, overlays, atUpdate, idle>>
-----------------------------------------------------------------------------
(* What can be tapped: the page's controls unless a dialog covers them, and *)
(* the tray's buttons, over everything, until its closing has ended.  The   *)
(* pages for launcher, summary and diagnostics are built by no control.     *)

TrayOffers == {"home", "brightness", "volume", "rotate", "theme", "settings"}

\* create_map_page, create_settings_page, create_camera_page.
MapOffers == {"map", "mode", IF drawer THEN "drawer" ELSE "hamburger"}
SettingCard == "card"
ToolEntry == "camera"
SettingsOffers == {SettingCard, ToolEntry}
CameraOffers == {"profile"}

Offers ==
    CASE shows = "map" -> MapOffers
      [] shows = "settings" -> SettingsOffers
      [] OTHER -> CameraOffers

Reached(control) ==
    /\ \/ control \in Offers /\ dialog = "none"
       \/ control \in TrayOffers /\ tray # "hidden"
    /\ idle' = {}

Tapped(control) == Reached(control) /\ UNCHANGED atUpdate

\* What calls update_ui itself does not wait for its second.
Refreshes == lit' = "on" /\ webMode' = FALSE
-----------------------------------------------------------------------------
(* Popups.                                                                  *)

NotMade == [shown |-> "no", timer |-> FALSE, fading |-> FALSE]

\* reset_brightness_timeout, reset_volume_timeout.
Awakened(p) == [p EXCEPT !.timer = TRUE, !.fading = FALSE, !.shown = "yes"]

\* hide_brightness_popup, hide_volume_popup.
Put(p) == IF p.shown = "no" THEN p ELSE [shown |-> "hidden", timer |-> FALSE, fading |-> FALSE]

\* What opening one popup does to the other (_Stays: nothing): the volume popup only gets
\* its flag.
Yielding_Stays(k) == popup[k]
Yielding(k) ==
    IF k = "volume" /\ popup[k].shown = "yes" THEN [popup[k] EXCEPT !.shown = "hidden"]
    ELSE IF k = "brightness" THEN Put(popup[k]) ELSE popup[k]

Closing == IF tray = "open" THEN "closing" ELSE tray

\* brightness_clicked, volume_clicked.
PopupClicked(k) ==
    /\ Tapped(k)
    /\ tray' = Closing
    /\ popup' = [j \in Kinds |-> IF j # k THEN Yielding(j)
                                 ELSE IF popup[k].shown = "yes" THEN Put(popup[k])
                                 ELSE Awakened(popup[k])]
    /\ UNCHANGED <<shows, turned, drawer, expanded, dialog>>

\* brightness_activity, brightness_changed, brightness_released and those of the volume.
PopupTouched(k) ==
    /\ popup[k].shown = "yes"
    /\ popup' = [popup EXCEPT ![k] = Awakened(@)]
    /\ idle' = {}
    /\ UNCHANGED <<shows, turned, drawer, expanded, tray, dialog, atUpdate>>

\* brightness_timeout, volume_timeout.
PopupTimeout(k) ==
    /\ popup[k].timer
    /\ popup' = [popup EXCEPT ![k].timer = FALSE, ![k].fading = @ \/ popup[k].shown = "yes"]
    /\ UNCHANGED <<shows, turned, drawer, expanded, tray, dialog, atUpdate, idle>>

\* brightness_fade_completed, volume_fade_completed.
FadeCompleted(k) ==
    /\ popup[k].fading
    /\ popup' = [popup EXCEPT ![k].fading = FALSE, ![k].shown = "hidden"]
    /\ UNCHANGED <<shows, turned, drawer, expanded, tray, dialog, atUpdate, idle>>
-----------------------------------------------------------------------------
(* The tray.                                                                *)

\* open_quick_settings, by the swipe that gesture_timer polls or by the handle.
TrayOpens ==
    /\ tray # "open"
    /\ tray' = "open"
    /\ popup' = [k \in Kinds |-> Put(popup[k])]
    /\ idle' = {}
    /\ UNCHANGED <<shows, turned, drawer, expanded, dialog, atUpdate>>

\* close_quick_settings, by the handle or the chevron.
TrayCloses ==
    /\ tray = "open"
    /\ tray' = "closing"
    /\ idle' = {}
    /\ UNCHANGED <<shows, turned, drawer, expanded, popup, dialog, atUpdate>>

\* quick_settings_close_completed.
TrayGone ==
    /\ tray = "closing"
    /\ tray' = "hidden"
    /\ UNCHANGED <<shows, turned, drawer, expanded, popup, dialog, atUpdate, idle>>
-----------------------------------------------------------------------------
(* Pages.                                                                   *)

\* rebuild_current_page and create_ui: what lay over the page goes, the page stays.
Rebuilds ==
    /\ expanded' = {}
    /\ tray' = "hidden"
    /\ popup' = [k \in Kinds |-> NotMade]
    /\ dialog' = "none"

\* navigate_to: the camera is always upright; leaving it turns the screen back.
Turned(to) ==
    CASE to = "camera" /\ shows # "camera" ->
            portrait' = TRUE /\ before' = IF portrait THEN {} ELSE {portrait}
      [] shows = "camera" /\ to # "camera" ->
            /\ portrait' = IF before = {} THEN portrait ELSE CHOOSE p \in before : TRUE
            /\ before' = {}
      [] OTHER -> UNCHANGED <<portrait, before>>

NavigateTo(to) ==
    /\ Turned(to)
    /\ shows' = to
    /\ drawer' = (to = "map")
    /\ Rebuilds

\* map_app_clicked, settings_app_clicked, camera_app_clicked.
AppClicked(control, to) == Tapped(control) /\ NavigateTo(to)

\* orientation_clicked and rebuild_for_orientation: not on the camera's page.
RotateClicked ==
    /\ Tapped("rotate") /\ shows # "camera"
    /\ portrait' = ~portrait
    /\ Rebuilds
    /\ UNCHANGED <<shows, before, drawer>>

\* theme_clicked and rebuild_for_theme.
ThemeClicked ==
    /\ Tapped("theme")
    /\ Rebuilds
    /\ UNCHANGED <<shows, turned, drawer>>

\* map_pressing, change_zoom, home_clicked, fit_all_clicked: HubMap has what they show.
MapTouched ==
    /\ Reached("map")
    /\ Refreshes
    /\ UNCHANGED <<shows, turned, drawer, expanded, overlays>>

\* drawer_open_clicked; drawer_close_clicked and a tap on the map.
DrawerMoves(control, open) ==
    /\ Tapped(control)
    /\ drawer' = open
    /\ UNCHANGED <<shows, turned, expanded, overlays>>

\* drawer_cat_card_clicked: one card at a time.
CardTapped(c) ==
    /\ Tapped("drawer")
    /\ expanded' = {c} \ expanded
    /\ UNCHANGED <<shows, turned, drawer, overlays>>

\* create_drawer_cat_card: a card's buttons are in the panel it shows when expanded.
CardOpen(c) == drawer /\ c \in expanded

\* The buttons of the expanded card: drawer_jump_clicked, for a cat with a position; the
\* others (follow, trail, command) leave the screen as it is.
CardJumps(c) ==
    /\ CardOpen(c) /\ Reached("drawer")
    /\ drawer' = FALSE
    /\ Refreshes
    /\ UNCHANGED <<shows, turned, expanded, overlays>>

CardActs(c) ==
    /\ CardOpen(c) /\ Tapped("drawer")
    /\ UNCHANGED <<shows, turned, drawer, expanded, overlays>>

\* setting_card_clicked; mode_dropdown_changed.
DialogOpens(control, what) ==
    /\ Tapped(control)
    /\ dialog' = what
    /\ UNCHANGED <<shows, turned, drawer, expanded, tray, popup>>

\* close_settings_editor; close_mode_confirmation.
DialogCloses ==
    /\ dialog # "none"
    /\ dialog' = "none"
    /\ idle' = {}
    /\ UNCHANGED <<shows, turned, drawer, expanded, tray, popup, atUpdate>>
-----------------------------------------------------------------------------
(* Time.                                                                    *)

Inactive ==
    /\ \E t \in Thresholds \cup {"second"} :
          t \notin idle /\ (t # "second" => "second" \in idle) /\ idle' = idle \cup {t}
    /\ UNCHANGED <<shows, turned, drawer, expanded, overlays, atUpdate>>

\* hub_mode_handler: one request at a time.
WebRequests ==
    /\ ~webMode /\ webMode' = TRUE
    /\ UNCHANGED <<shows, turned, drawer, expanded, overlays, lit, idle>>

\* update_ui, once a second: wake, off or dim; then the map with its drawer takes over
\* from a page left alone, except from the camera and from an open editor.  A mode asked
\* for by the web page, once applied, counts as activity.
Lights ==
    CASE "second" \notin idle -> "on"
      [] shows # "camera" /\ "off" \in idle -> "off"
      [] shows # "camera" /\ "dim" \in idle /\ lit = "on" -> "dim"
      [] OTHER -> lit

Screensaver ==
    /\ shows # "camera" /\ "overview" \in idle
    /\ shows # "map" \/ ~drawer
    /\ dialog # "settings"

UpdateUi ==
    /\ lit' = Lights
    /\ IF Screensaver
       THEN shows' = "map" /\ drawer' = TRUE /\ Rebuilds
       ELSE UNCHANGED <<shows, drawer, expanded, overlays>>
    /\ webMode' = FALSE
    /\ idle' \in {idle, IF webMode THEN {} ELSE idle}
    /\ UNCHANGED turned
-----------------------------------------------------------------------------
ScreenInit ==
    /\ shows = "map" /\ drawer = FALSE
    /\ portrait = FALSE /\ before = {}
    /\ expanded = {}
    /\ tray = "hidden"
    /\ popup = [k \in Kinds |-> NotMade]
    /\ dialog = "none"
    /\ lit = "on" /\ webMode = FALSE /\ idle = {}

ScreenNext ==
    \/ \E k \in Kinds : PopupClicked(k) \/ PopupTouched(k) \/ PopupTimeout(k) \/ FadeCompleted(k)
    \/ TrayOpens \/ TrayCloses \/ TrayGone
    \/ AppClicked("home", "map")
    \/ AppClicked("settings", "settings")
    \/ AppClicked(ToolEntry, "camera")
    \/ RotateClicked \/ ThemeClicked
    \/ DrawerMoves("hamburger", TRUE)
    \/ DrawerMoves("drawer", FALSE)
    \/ \E c \in Cats : CardTapped(c) \/ CardJumps(c) \/ CardActs(c)
    \/ MapTouched
    \/ DialogOpens(SettingCard, "settings")
    \/ DialogOpens("mode", "mode")
    \/ DialogCloses
    \/ Inactive \/ WebRequests \/ UpdateUi

ScreenSpec == ScreenInit /\ [][ScreenNext]_screenVars
-----------------------------------------------------------------------------
ScreenTypeOK ==
    /\ shows \in Pages
    /\ {portrait, drawer, webMode} \subseteq BOOLEAN /\ before \subseteq BOOLEAN
    /\ expanded \subseteq Cats
    /\ tray \in {"hidden", "open", "closing"}
    /\ popup \in [Kinds -> [shown : {"no", "hidden", "yes"}, timer : BOOLEAN, fading : BOOLEAN]]
    /\ dialog \in {"none", "settings", "mode"}
    /\ lit \in {"on", "dim", "off"} /\ idle \subseteq Thresholds \cup {"second"}

\* Tray and popups take turns: at most one of them is open, although each is opened by
\* taps on another that is still leaving; and a popup on the screen is leaving by itself,
\* however often it was touched, hidden and shown again while its timer or fade ran.
Open == {k \in Kinds : popup[k].shown = "yes"}
OneOverlay ==
    /\ Cardinality(Open) + (IF tray = "open" THEN 1 ELSE 0) <= 1
    /\ \A k \in Open : popup[k].timer \/ popup[k].fading
=============================================================================
