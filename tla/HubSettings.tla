----------------------------- MODULE HubSettings -----------------------------
(***************************************************************************)
(* The settings of the ESP-IDF hubs, in RAM and in flash, and the screens  *)
(* that change them: Home Hub (hub/esp-idf-p4/main/main.cpp) and ESP32-S3  *)
(* hub (hub/esp-idf-s3/main/main.cpp), with the settings store both use.   *)
(*                                                                         *)
(* Of the settings the two Wi-Fi networks and the mode are modelled; a     *)
(* password is the name of the network it was typed for.  The Home Hub     *)
(* edits the settings in place and takes a change back; the ESP32-S3 edits *)
(* a copy and commits it.  Saving writes key by key and goes on after a    *)
(* failure, so a failed save leaves any of the new keys in flash.          *)
(***************************************************************************)
EXTENDS Naturals, FiniteSets

CONSTANTS
    Hubs,     \* which hubs: "p4", "s3"
    Names,    \* names of networks; NoName is the empty one
    Modes,    \* communication modes
    Requires  \* for each network, the mode that uses it (Home or Portable)

NoName == "no name"
NoPassword == "no password"
Nets == {"primary", "secondary"}

ASSUME HubSettingsAssumption ==
    /\ Hubs \subseteq {"p4", "s3"}
    /\ {NoName, NoPassword} \cap Names = {}
    /\ Requires \in [Nets -> Modes]

Ssids == Names \cup {NoName}
Pairs == [ssid : Ssids, password : Ssids \cup {NoPassword}]
AllSettings == [primary : Pairs, secondary : Pairs, mode : Modes]
Fields == [net : Nets, what : {"ssid", "password"}] \cup [net : {"secondary"}, what : {"other"}]
Blank == [ssid |-> NoName, password |-> NoPassword]

VARIABLES
    hub,       \* the hub
    settings,  \* ui.settings (P4), settings (S3)
    flash,     \* what NVS holds
    saved,     \* the last save reported success
    modal,     \* what covers the settings page: none, picker, editor, or the verdict of
               \* the connection test (waiting, connected, deferred, failed)
    editing,   \* editing_field
    pending,   \* P4: settings_wifi_pending_password
    previous,  \* P4: settings_wifi_previous
    scanned,   \* S3: pending_scan_ssid (NoName: none)
    started,   \* cloud::start has run: applyNetworkSettings succeeds
    overtaken, \* history: a half-made change was saved or its editor torn down
    torn       \* history: a reset found a network half-written

editVars == <<modal, editing, pending, previous, scanned>>
settingsVars == <<hub, settings, flash, saved, modal, editing, pending, previous, scanned, started,
                  overtaken, torn>>
-----------------------------------------------------------------------------
(* settings_store::save: every key is tried; success means all were written. *)

Parts == {"ssid", "password"}
Keys == (Nets \X Parts) \cup {<<"mode">>}

Written(old, new, keys) ==
    LET Net(n) == [p \in Parts |-> IF <<n, p>> \in keys THEN new[n][p] ELSE old[n][p]]
    IN  [primary |-> Net("primary"), secondary |-> Net("secondary"),
         mode |-> IF <<"mode">> \in keys THEN new.mode ELSE old.mode]

\* What flash may hold after saving s over f.
After(f, s, ok) == IF ok THEN {s} ELSE {Written(f, s, k) : k \in SUBSET Keys}

\* Whether the save succeeded.  Bound: none fails after one that failed.
Outcome(ok) == saved' = ok /\ (ok \/ saved)

Save(s, ok) ==
    /\ flash' \in After(flash, s, ok)
    /\ Outcome(ok)
-----------------------------------------------------------------------------
(* Home Hub: the cards of the settings page open an editor, or the picker of *)
(* scanned networks.  On top of what they do, the tray may rebuild the page. *)

P4(may) == hub = "p4" /\ may /\ UNCHANGED <<hub, scanned, started, torn>>

Opened(what, field) == modal' = what /\ editing' = field
Closed == modal' = "none" /\ UNCHANGED editing

\* setting_card_clicked.
CardClicked(field) ==
    /\ P4(modal = "none")
    /\ Opened(IF field.what = "ssid" THEN "picker" ELSE "editor", field)
    /\ UNCHANGED <<settings, flash, saved, pending, previous, overtaken>>

\* wifi_picker_manual_clicked, wifi_picker_cancel_clicked.
PickerLeft(manual) ==
    /\ P4(modal = "picker")
    /\ modal' = IF manual THEN "editor" ELSE "none"
    /\ UNCHANGED <<settings, flash, saved, editing, pending, previous, overtaken>>

\* wifi_picker_use_clicked: a secured network without its password is put into the
\* settings, unsaved, and the password editor opened.
PickerAsks(name) ==
    LET old == settings[editing.net]
    IN  /\ P4(modal = "picker")
        /\ old.ssid # name \/ old.password = NoPassword
        /\ settings' = [settings EXCEPT ![editing.net] = [Blank EXCEPT !.ssid = name]]
        /\ pending' = TRUE /\ previous' = old
        /\ Opened("editor", [editing EXCEPT !.what = "password"])
        /\ UNCHANGED <<flash, saved, overtaken>>

\* Any other network is saved at once; if that fails the picker stays.
PickerSaves(name, secured, ok) ==
    LET old == settings[editing.net]
        kept == IF secured THEN old.password ELSE NoPassword
    IN  /\ P4(modal = "picker")
        /\ secured => old.ssid = name /\ old.password # NoPassword
        /\ settings' = [settings EXCEPT ![editing.net] = [ssid |-> name, password |-> kept]]
        /\ Save(settings', ok)
        /\ modal' = (IF ok THEN "none" ELSE modal)
        /\ overtaken' = (overtaken \/ pending)
        /\ UNCHANGED <<editing, pending, previous>>

\* apply_settings_editor_value: another name forgets the password (_KeepsPassword: it
\* does not); a password is typed, blank, or left as the editor showed it.
Renamed_KeepsPassword(pair, name) == [pair EXCEPT !.ssid = name]
Renamed(pair, name) ==
    [ssid |-> name, password |-> IF pair.ssid = name THEN pair.password ELSE NoPassword]

Typed(pair, shown) ==
    {[pair EXCEPT !.password = p] : p \in {pair.ssid, NoPassword, shown}}

Edits(pair) == IF editing.what = "ssid" THEN {Renamed(pair, n) : n \in Ssids}
               ELSE IF editing.what = "password" THEN Typed(pair, pair.password)
               ELSE {pair}

\* open_wifi_connection_verification: a password that was saved is tried at once.
Verifies == IF editing.what = "password" THEN "waiting" ELSE "none"

\* settings_keyboard_event, READY: a failed save leaves the value in the settings and the
\* editor open.
EditorReady(ok) ==
    /\ P4(modal = "editor")
    /\ \E pair \in Edits(settings[editing.net]) :
          settings' = [settings EXCEPT ![editing.net] = pair]
    /\ Save(settings', ok)
    /\ modal' = (IF ok THEN Verifies ELSE modal)
    /\ pending' = (pending /\ ~ok)
    /\ overtaken' = (overtaken \/ (pending /\ (~ok \/ editing.what # "password")))
    /\ UNCHANGED <<editing, previous>>

\* settings_keyboard_event, CANCEL: a picked network without a password is taken back.
TakenBack ==
    IF ~pending THEN UNCHANGED settings
    ELSE settings' = [settings EXCEPT
           ![IF editing = [net |-> "primary", what |-> "password"] THEN "primary"
             ELSE "secondary"] = previous]

EditorCancelled ==
    /\ P4(modal = "editor")
    /\ TakenBack
    /\ pending' = FALSE
    /\ Closed
    /\ UNCHANGED <<flash, saved, previous, overtaken>>

\* refresh_wifi_connection_verification: the network is joined, belongs to a mode that is
\* not in use, or is not joined in time.
Verified(verdict) ==
    /\ P4(modal = "waiting")
    /\ (verdict = "deferred") => settings.mode # Requires[editing.net]
    /\ (verdict = "failed") => settings.mode = Requires[editing.net]
    /\ modal' = verdict
    /\ UNCHANGED <<settings, flash, saved, editing, pending, previous, overtaken>>

\* wifi_verification_close_clicked, wifi_verification_action_clicked.
VerificationLeft(again) ==
    /\ P4(modal \in {"waiting", "connected", "deferred", "failed"})
    /\ again => modal = "failed"
    /\ modal' = (IF again THEN "editor" ELSE "none")
    /\ UNCHANGED <<settings, flash, saved, editing, pending, previous, overtaken>>

\* The tray opens over everything: Home, Settings, Rotate and the theme rebuild the
\* screen, and the modal goes without being cancelled.
ModalTornDown ==
    /\ P4(modal # "none")
    /\ Closed
    /\ overtaken' = (overtaken \/ pending)
    /\ UNCHANGED <<settings, flash, saved, pending, previous>>

\* camera_apply_wifi_clicked.
CodeApplied(name, password, ok) ==
    /\ P4(modal = "none")
    /\ settings' = [settings EXCEPT !.primary = [ssid |-> name, password |-> password]]
    /\ Save(settings', ok)
    /\ UNCHANGED <<editVars, overtaken>>

\* set_communications_mode, from the page's dialog or from the local web page.
ModeSetP4(mode, ok) ==
    /\ P4(mode # settings.mode)
    /\ Save([settings EXCEPT !.mode = mode], ok)
    /\ settings' = IF ok THEN [settings EXCEPT !.mode = mode] ELSE settings
    /\ overtaken' = (overtaken \/ pending)
    /\ UNCHANGED editVars
-----------------------------------------------------------------------------
(* ESP32-S3 hub.                                                            *)

S3(may) == hub = "s3" /\ may /\ UNCHANGED <<hub, pending, previous, overtaken, torn>>

\* open_editor.
OpenEditor(field) ==
    /\ S3(modal = "none" /\ field.what # "other")
    /\ Opened("editor", field)
    /\ UNCHANGED <<settings, flash, saved, scanned, started>>

\* wifi_use_clicked, a secured network: its name waits for the password.
UseAsks(net, name) ==
    /\ S3(modal = "none")
    /\ scanned' = name
    /\ Opened("editor", [net |-> net, what |-> "password"])
    /\ UNCHANGED <<settings, flash, saved, started>>

EditorClosed == modal' = "none" /\ scanned' = NoName /\ UNCHANGED editing

\* editor_closed.
EditorAbandoned ==
    /\ S3(modal = "editor")
    /\ EditorClosed
    /\ UNCHANGED <<settings, flash, saved, started>>

\* The settings in use are saved again over what may have become of the proposed ones.
\* (_Skipped: they are not.)
SaveBack_Skipped(held, ok) == flash' \in held /\ Outcome(ok)
SaveBack(held, ok) ==
    /\ \E f \in held : flash' \in After(f, settings, ok)
    /\ Outcome(ok)

\* A proposal is committed when it is saved and applied, and otherwise undone: `ok` is
\* whether the last save of the two succeeds.
Commits(proposed, written, ok) ==
    IF written /\ started
    THEN ok /\ Save(proposed, TRUE) /\ settings' = proposed
    ELSE SaveBack(After(flash, proposed, written), ok) /\ UNCHANGED settings

\* editor_saved: what the editor may make of a network.
S3Edits(pair) ==
    IF editing.what = "ssid"
    THEN {[ssid |-> n, password |-> IF n = NoName THEN NoPassword ELSE pair.password] : n \in Ssids}
    ELSE Typed([pair EXCEPT !.ssid = IF scanned = NoName THEN @ ELSE scanned], pair.password)

EditorSaved(written, ok) ==
    /\ S3(modal = "editor")
    /\ \E pair \in S3Edits(settings[editing.net]) :
          Commits([settings EXCEPT ![editing.net] = pair], written, ok)
    /\ IF written /\ started THEN EditorClosed ELSE UNCHANGED <<modal, editing, scanned>>
    /\ UNCHANGED started

\* wifi_use_clicked, an open network.
UseSaves(net, name, written, ok) ==
    LET kept == IF settings[net].ssid = name THEN settings[net].password ELSE NoPassword
    IN  /\ S3(modal = "none")
        /\ Commits([settings EXCEPT ![net] = [ssid |-> name, password |-> kept]], written, ok)
        /\ UNCHANGED <<modal, editing, scanned, started>>

\* apply_mode, from the dialog.
ModeApplied(mode, written, ok) ==
    /\ S3(modal = "none" /\ mode # settings.mode)
    /\ Commits([settings EXCEPT !.mode = mode], written, ok)
    /\ UNCHANGED <<modal, editing, scanned, started>>

\* update_runtime: the local web page's mode stays although it could not be saved.
WebModeS3(mode, ok) ==
    /\ S3(TRUE)
    /\ settings' = [settings EXCEPT !.mode = mode]
    /\ Save(settings', ok)
    /\ UNCHANGED <<modal, editing, scanned, started>>

\* service_start_task: the network task starts after the screen.
ServicesStart ==
    /\ S3(~started)
    /\ started' = TRUE
    /\ UNCHANGED <<settings, flash, saved, modal, editing, scanned>>
-----------------------------------------------------------------------------
\* Whatever else is saved (Bluetooth, brightness, a revision from the cloud), on either
\* hub at any time: the networks and the mode go along.
OtherSaved(ok) ==
    /\ Save(settings, ok)
    /\ overtaken' = (overtaken \/ pending)
    /\ UNCHANGED <<hub, settings, editVars, started, torn>>

Intact(pair) == pair.password \in {NoPassword, pair.ssid}

\* A reset: settings_store::load takes what is in flash, key by key.
Reset ==
    /\ settings' = flash
    /\ saved' = TRUE
    /\ modal' = "none" /\ pending' = FALSE /\ scanned' = NoName
    /\ started' = (hub = "p4")
    /\ overtaken' = FALSE
    /\ torn' = (torn \/ \E net \in Nets : ~Intact(flash[net]))
    /\ UNCHANGED <<hub, flash, editing, previous>>

SettingsInit ==
    /\ hub \in Hubs
    /\ settings = [primary |-> Blank, secondary |-> Blank, mode |-> Requires["primary"]]
    /\ flash = settings
    /\ saved = TRUE
    /\ modal = "none"
    /\ editing = [net |-> "primary", what |-> "ssid"]
    /\ pending = FALSE /\ previous = Blank /\ scanned = NoName
    /\ started = (hub = "p4")
    /\ overtaken = FALSE /\ torn = FALSE

SettingsNext ==
    \/ \E field \in Fields : CardClicked(field) \/ OpenEditor(field)
    \/ \E manual \in BOOLEAN : PickerLeft(manual) \/ VerificationLeft(manual)
    \/ \E name \in Names : PickerAsks(name)
    \/ \E name \in Names, secured, ok \in BOOLEAN : PickerSaves(name, secured, ok)
    \/ \E ok \in BOOLEAN : EditorReady(ok) \/ OtherSaved(ok)
    \/ EditorCancelled
    \/ \E verdict \in {"connected", "deferred", "failed"} : Verified(verdict)
    \/ ModalTornDown
    \/ \E name \in Names, ok, open \in BOOLEAN :
          CodeApplied(name, IF open THEN NoPassword ELSE name, ok)
    \/ \E mode \in Modes, ok \in BOOLEAN : ModeSetP4(mode, ok) \/ WebModeS3(mode, ok)
    \/ \E net \in Nets, name \in Names : UseAsks(net, name)
    \/ EditorAbandoned
    \/ \E written, ok \in BOOLEAN :
          \/ EditorSaved(written, ok)
          \/ \E net \in Nets, name \in Names : UseSaves(net, name, written, ok)
          \/ \E mode \in Modes : ModeApplied(mode, written, ok)
    \/ ServicesStart
    \/ Reset

SettingsSpec == SettingsInit /\ [][SettingsNext]_settingsVars
-----------------------------------------------------------------------------
SettingsTypeOK ==
    /\ hub \in Hubs
    /\ {settings, flash} \subseteq AllSettings
    /\ {saved, pending, started, overtaken, torn} \subseteq BOOLEAN
    /\ modal \in {"none", "picker", "editor", "waiting", "connected", "deferred", "failed"}
    /\ editing \in Fields
    /\ previous \in Pairs /\ scanned \in Ssids

\* The Home Hub never offers a password to a network it was not typed for, although
\* names and passwords are edited apart, picked, scanned from a code, taken back, saved
\* half-made and loaded again, unless a failed save left a network half-written in flash
\* and a reset loaded it.
PairIntact == hub = "p4" /\ ~torn => \A net \in Nets : Intact(settings[net])

\* What the hub would find after a reset is what it works with: once the last save
\* succeeded and no picked network waits for its password, flash holds the settings in
\* RAM, whatever was refused, cancelled, undone or half-written before, unless a waiting
\* network was saved by another setting or its editor torn down by the tray.
Durable == saved /\ ~pending /\ ~overtaken => flash = settings
=============================================================================
