-------------------------- MODULE HubScreens_proofs --------------------------
(***************************************************************************)
(* Proofs about the parts of the hubs' user interface: the camera with its *)
(* two tasks, the overlays of the Home Hub's screen, the settings with the *)
(* editors of both hubs, and the map.  The parts share no state, so each   *)
(* has an inductive invariant and theorems of its own.                     *)
(***************************************************************************)
EXTENDS HubMap, HubSettings, P4Screen, P4Camera, FiniteSetTheorems, TLAPS

-----------------------------------------------------------------------------
(* The camera.                                                             *)

\* A camera task that is about to create its decoder is the only owner of that
\* right: the decoder of the stream before it has ended.
OpensAlone == (\E w \in Workers : capture[w] = "opening") => decode = NoTask

\* What is behind CodeAnnounced at every moment: start leaves the photo profile; a
\* code found while the profile is switched counts as missed; a code that counts as
\* found has a text; and a text that was published is news or on the page.
StartsWithPhoto == ui = "starting" => mode = "photo"
SwitchMisses == ui = "switching" /\ found => missed
Watching == open /\ ui = "ready" /\ mode = "qr" /\ ~missed
FoundHasText == Watching /\ found => payload # Nothing
TextIsTold == Watching /\ payload # Nothing => news \/ told = payload

\* The inductive invariant of the camera.
CameraInv ==
    /\ CameraTypeOK
    /\ OneWorker /\ OpensAlone
    /\ StartsWithPhoto /\ SwitchMisses /\ FoundHasText /\ TextIsTold

LEMMA CameraInitInv == CameraInit => CameraInv
  BY P4CameraAssumption
  DEF CameraInit, CameraInv, CameraTypeOK, OneWorker, OpensAlone, StartsWithPhoto,
      SwitchMisses, Watching, FoundHasText, TextIsTold

\* What the tasks do to each other's handles.
Handles == OneWorker /\ OpensAlone
Announces == StartsWithPhoto /\ SwitchMisses /\ FoundHasText /\ TextIsTold

LEMMA CameraTypeStep == CameraTypeOK /\ [CameraNext]_cameraVars => CameraTypeOK'
  <1> SUFFICES ASSUME CameraTypeOK, [CameraNext]_cameraVars PROVE CameraTypeOK'
    OBVIOUS
  <1> USE DEF CameraTypeOK, cameraVars, tasks, result, pageVars
  <1>1. ASSUME NEW w \in Workers, NEW works \in BOOLEAN, NEW streams \in BOOLEAN,
               CaptureOpens(w, works, streams)
        PROVE  CameraTypeOK'
    BY <1>1 DEF CaptureOpens, Free
  <1>2. ASSUME NEW w \in Workers, NEW code \in Codes \cup {Nothing}, Frame(w, code)
        PROVE  CameraTypeOK'
    BY <1>2 DEF Frame
  <1>3. ASSUME NEW w \in Workers, CaptureStops(w) \/ CaptureEnds(w) PROVE CameraTypeOK'
    BY <1>3 DEF CaptureStops, CaptureEnds
  <1>4. ASSUME NEW d \in Workers, NEW works \in BOOLEAN, DecoderBegins(d, works)
        PROVE  CameraTypeOK'
    BY <1>4 DEF DecoderBegins
  <1>5. ASSUME NEW d \in Workers, NEW reads \in BOOLEAN, DecoderReads(d, reads)
        PROVE  CameraTypeOK'
    BY <1>5 DEF DecoderReads
  <1>6. ASSUME NEW d \in Workers, DecoderLoops(d) \/ DecoderWakes(d) PROVE CameraTypeOK'
    BY <1>6 DEF DecoderLoops, DecoderWakes
  <1>7. ASSUME NEW locked \in BOOLEAN, PageOpens(locked) \/ ProfileChanged(locked)
        PROVE  CameraTypeOK'
    BY <1>7 DEF PageOpens, ProfileChanged, Clears
  <1>8. ASSUME NEW created \in BOOLEAN, NEW locked \in BOOLEAN, Started(created, locked)
        PROVE  CameraTypeOK'
    BY <1>8 DEF Started, Free, Idle, Clears
  <1>9. CASE StartFails \/ PageCloses
    BY <1>9 DEF StartFails, PageCloses
  <1>10. ASSUME NEW to \in {"photo", "qr"}, ProfileChanges(to) PROVE CameraTypeOK'
    BY <1>10 DEF ProfileChanges
  <1>11. CASE PageTimer \/ PageRebuilt
    BY <1>11 DEF PageTimer, PageRebuilt
  <1>12. CASE UNCHANGED cameraVars
    BY <1>12
  <1> QED BY <1>1, <1>2, <1>3, <1>4, <1>5, <1>6, <1>7, <1>8, <1>9, <1>10, <1>11, <1>12
          DEF CameraNext

LEMMA HandlesStep == CameraTypeOK /\ Handles /\ [CameraNext]_cameraVars => Handles'
  <1> SUFFICES ASSUME CameraTypeOK, Handles, [CameraNext]_cameraVars PROVE Handles'
    OBVIOUS
  <1> USE P4CameraAssumption DEF CameraTypeOK, Handles, OneWorker, OpensAlone
  <1>1. ASSUME NEW w \in Workers, NEW works \in BOOLEAN, NEW streams \in BOOLEAN,
               CaptureOpens(w, works, streams)
        PROVE  Handles'
    <2>1. /\ \A v \in Workers \ {w} : capture[v] = "dead"
          /\ \A d \in Workers : decoder[d] = "dead"
      BY <1>1 DEF CaptureOpens
    <2> QED BY <1>1, <2>1 DEF CaptureOpens, Free
  <1>2. ASSUME NEW w \in Workers, CaptureStops(w) \/ CaptureEnds(w) PROVE Handles'
    BY <1>2 DEF CaptureStops, CaptureEnds
  <1>3. ASSUME NEW d \in Workers, NEW works \in BOOLEAN, DecoderBegins(d, works)
        PROVE  Handles'
    BY <1>3 DEF DecoderBegins
  <1>4. ASSUME NEW d \in Workers,
               DecoderLoops(d) \/ DecoderWakes(d) \/ \E reads \in BOOLEAN : DecoderReads(d, reads)
        PROVE  Handles'
    BY <1>4 DEF DecoderLoops, DecoderWakes, DecoderReads
  <1>5. ASSUME NEW created \in BOOLEAN, NEW locked \in BOOLEAN, Started(created, locked)
        PROVE  Handles'
    <2>1. /\ \A v \in Workers : capture[v] = "dead"
          /\ decode = NoTask
      BY <1>5 DEF Started, Idle
    <2> QED BY <1>5, <2>1 DEF Started, Free
  <1>6. CASE UNCHANGED <<capture, decoder, task, decode>>
    BY <1>6
  <1>7. ASSUME NEW w \in Workers, NEW code \in Codes \cup {Nothing}, Frame(w, code)
        PROVE  UNCHANGED <<capture, decoder, task, decode>>
    BY <1>7 DEF Frame, tasks
  <1>8. ASSUME \/ \E locked \in BOOLEAN : PageOpens(locked) \/ ProfileChanged(locked)
               \/ StartFails \/ PageCloses
               \/ \E to \in {"photo", "qr"} : ProfileChanges(to)
               \/ PageTimer \/ PageRebuilt
               \/ UNCHANGED cameraVars
        PROVE  UNCHANGED <<capture, decoder, task, decode>>
    BY <1>8 DEF PageOpens, StartFails, PageCloses, ProfileChanges, ProfileChanged, PageTimer,
                PageRebuilt, cameraVars, tasks
  <1> QED BY <1>1, <1>2, <1>3, <1>4, <1>5, <1>6, <1>7, <1>8 DEF CameraNext

LEMMA AnnouncesStep == CameraTypeOK /\ Announces /\ [CameraNext]_cameraVars => Announces'
  <1> SUFFICES ASSUME CameraTypeOK, Announces, [CameraNext]_cameraVars PROVE Announces'
    OBVIOUS
  <1> USE DEF CameraTypeOK, Announces, StartsWithPhoto, SwitchMisses, Watching,
              FoundHasText, TextIsTold, tasks, result, pageVars
  <1>1. ASSUME NEW d \in Workers, NEW reads \in BOOLEAN, DecoderReads(d, reads)
        PROVE  Announces'
    <2>1. CASE ~reads
      BY <1>1, <2>1 DEF DecoderReads
    <2>2. CASE reads
      <3>1. /\ payload' = sees[d] /\ sees[d] # Nothing
            /\ news' = (news \/ payload # sees[d])
            /\ missed' = (missed \/ ui = "switching")
            /\ UNCHANGED <<mode, open, ui, told>>
        BY <1>1, <2>2 DEF DecoderReads
      <3>2. CASE payload = sees[d]
        BY <3>1, <3>2
      <3>3. CASE payload # sees[d]
        <4>1. news' = TRUE
          BY <3>1, <3>3
        <4> QED BY <3>1, <4>1
      <3> QED BY <3>2, <3>3
    <2> QED BY <2>1, <2>2
  <1>2. ASSUME NEW locked \in BOOLEAN, PageOpens(locked) PROVE Announces'
    BY <1>2 DEF PageOpens
  <1>3. ASSUME NEW created \in BOOLEAN, NEW locked \in BOOLEAN, Started(created, locked)
        PROVE  Announces'
    BY <1>3 DEF Started
  <1>4. CASE StartFails \/ PageCloses
    BY <1>4 DEF StartFails, PageCloses
  <1>5. ASSUME NEW to \in {"photo", "qr"}, ProfileChanges(to) PROVE Announces'
    BY <1>5 DEF ProfileChanges
  <1>6. ASSUME NEW locked \in BOOLEAN, ProfileChanged(locked) PROVE Announces'
    BY <1>6 DEF ProfileChanged, Clears
  <1>7. CASE PageTimer \/ PageRebuilt
    BY <1>7 DEF PageTimer, PageRebuilt
  <1>8. CASE UNCHANGED <<mode, found, payload, news, open, ui, told, missed>>
    BY <1>8
  <1>9. ASSUME \/ \E w \in Workers, works, streams \in BOOLEAN : CaptureOpens(w, works, streams)
               \/ \E w \in Workers, code \in Codes \cup {Nothing} : Frame(w, code)
               \/ \E w \in Workers : CaptureStops(w) \/ CaptureEnds(w)
               \/ \E d \in Workers, works \in BOOLEAN : DecoderBegins(d, works)
               \/ \E d \in Workers : DecoderLoops(d) \/ DecoderWakes(d)
               \/ UNCHANGED cameraVars
        PROVE  UNCHANGED <<mode, found, payload, news, open, ui, told, missed>>
    BY <1>9 DEF CaptureOpens, Frame, CaptureStops, CaptureEnds, DecoderBegins, DecoderLoops,
                DecoderWakes, cameraVars
  <1> QED BY <1>1, <1>2, <1>3, <1>4, <1>5, <1>6, <1>7, <1>8, <1>9 DEF CameraNext

LEMMA CameraInvariance == CameraSpec => []CameraInv
  <1>1. CameraInv /\ [CameraNext]_cameraVars => CameraInv'
    BY CameraTypeStep, HandlesStep, AnnouncesStep DEF CameraInv, Handles, Announces
  <1> QED BY CameraInitInv, <1>1, PTL DEF CameraSpec

\* The flags of the camera keep their meaning however many tasks there may be.
THEOREM CameraTypeCorrect == CameraSpec => []CameraTypeOK
  <1>1. CameraInv => CameraTypeOK
    BY DEF CameraInv
  <1> QED BY CameraInvariance, <1>1, PTL

\* The page may be left and opened again at any moment of the life of the two
\* tasks: start waits for both handles, so no second stream and no second decoder
\* ever runs, however many tasks there is room for (home_hub_camera.cpp: start).
THEOREM OneStream == CameraSpec => []OneWorker
  <1>1. CameraInv => OneWorker
    BY DEF CameraInv
  <1> QED BY CameraInvariance, <1>1, PTL

\* A decoder that stopped looking because it found a code has published a text
\* that the page shows or is about to show, for any codes and any interleaving of
\* the decoder with the page (home_hub_camera.cpp: setMode, decoder_task).
THEOREM CodesAnnounced == CameraSpec => []CodeAnnounced
  <1>1. CameraInv => CodeAnnounced
    BY DEF CameraInv, CodeAnnounced, Watching, FoundHasText, TextIsTold
  <1> QED BY CameraInvariance, <1>1, PTL
-----------------------------------------------------------------------------
(* The screen: tray and popups.                                            *)

Shown(k) == popup[k].shown = "yes"

\* The tray in front hides every popup, one popup hides the other, and what is
\* shown has a timer or a fade that will take it away.
TraySolitary == tray = "open" => \A k \in Kinds : ~Shown(k)
PopupSolitary == \A j, k \in Kinds : Shown(j) /\ Shown(k) => j = k
PopupLeaves == \A k \in Kinds : Shown(k) => popup[k].timer \/ popup[k].fading

OverlayInv == TraySolitary /\ PopupSolitary /\ PopupLeaves

\* The inductive invariant of the screen.
ScreenInv == ScreenTypeOK /\ OverlayInv

PopupStates == [shown : {"no", "hidden", "yes"}, timer : BOOLEAN, fading : BOOLEAN]

\* The operations on one popup.
LEMMA PopupOperations ==
    ASSUME NEW p \in PopupStates
    PROVE  /\ Awakened(p) \in PopupStates /\ Awakened(p).timer
           /\ Put(p) \in PopupStates /\ Put(p).shown # "yes"
           /\ NotMade \in PopupStates /\ NotMade.shown # "yes"
  BY DEF PopupStates, Awakened, Put, NotMade

\* The timer that ends a popup's time starts its fade.
LEMMA TimerEnds ==
    ASSUME popup \in [Kinds -> PopupStates], NEW k \in Kinds, PopupTimeout(k)
    PROVE  /\ popup' \in [Kinds -> PopupStates]
           /\ popup'[k].shown = popup[k].shown
           /\ popup[k].shown = "yes" => popup'[k].fading
           /\ \A j \in Kinds : j # k => popup'[j] = popup[j]
  <1>1. PICK fades \in BOOLEAN :
            /\ popup[k].shown = "yes" => fades = TRUE
            /\ popup' = [popup EXCEPT ![k].timer = FALSE, ![k].fading = fades]
    BY DEF PopupTimeout
  <1> QED BY <1>1 DEF PopupStates

\* Opening a popup takes the other one away.
LEMMA OthersYield ==
    ASSUME ScreenTypeOK, NEW k \in Kinds
    PROVE  Yielding(k) \in PopupStates /\ Yielding(k).shown # "yes"
  BY PopupOperations DEF ScreenTypeOK, Yielding, PopupStates, Kinds

LEMMA ScreenInitInv == ScreenInit => ScreenInv
  <1> SUFFICES ASSUME ScreenInit PROVE ScreenInv
    OBVIOUS
  <1>1. ScreenTypeOK
    BY DEF ScreenInit, ScreenTypeOK, NotMade, Pages
  <1>2. OverlayInv
    BY DEF ScreenInit, NotMade, OverlayInv, TraySolitary, PopupSolitary, PopupLeaves, Shown
  <1> QED BY <1>1, <1>2 DEF ScreenInv

LEMMA RebuildTypes ==
    ASSUME Rebuilds
    PROVE  /\ expanded' = {} /\ tray' = "hidden" /\ dialog' = "none"
           /\ popup' \in [Kinds -> PopupStates]
           /\ \A k \in Kinds : ~Shown(k)'
  BY DEF Rebuilds, NotMade, PopupStates, Shown

\* A page turns the screen upright or back.
LEMMA TurnedTypes ==
    ASSUME ScreenTypeOK, NEW to \in Pages, Turned(to)
    PROVE  portrait' \in BOOLEAN /\ before' \subseteq BOOLEAN
  <1>1. CASE to = "camera" /\ shows # "camera"
    <2>1. portrait' = TRUE /\ before' = IF portrait THEN {} ELSE {portrait}
      BY <1>1 DEF Turned
    <2> QED BY <2>1 DEF ScreenTypeOK
  <1>2. CASE shows = "camera" /\ to # "camera"
    <2>1. portrait' = (IF before = {} THEN portrait ELSE CHOOSE p \in before : TRUE) /\ before' = {}
      BY <1>2 DEF Turned
    <2>2. CASE before = {}
      BY <2>1, <2>2 DEF ScreenTypeOK
    <2>3. CASE before # {}
      <3>1. (CHOOSE p \in before : TRUE) \in before
        BY <2>3
      <3> QED BY <2>1, <2>3, <3>1 DEF ScreenTypeOK
    <2> QED BY <2>2, <2>3
  <1>3. CASE ~(to = "camera" /\ shows # "camera") /\ ~(shows = "camera" /\ to # "camera")
    BY <1>3 DEF Turned, ScreenTypeOK
  <1> QED BY <1>1, <1>2, <1>3

\* Pages, the drawer, the light and the inactivity change no popup and no tray: a
\* rebuild takes all of them away.
LEMMA PopupStep ==
    ASSUME ScreenInv, NEW k \in Kinds,
           PopupClicked(k) \/ PopupTouched(k) \/ PopupTimeout(k) \/ FadeCompleted(k)
    PROVE  ScreenInv'
  <1> USE DEF ScreenInv, ScreenTypeOK, OverlayInv, TraySolitary, PopupSolitary, PopupLeaves,
              Shown, turned, atUpdate
  <1>1. CASE PopupClicked(k)
    <2>1. /\ idle' = {} /\ UNCHANGED <<atUpdate, shows, turned, drawer, expanded, dialog>>
          /\ tray' = Closing
          /\ popup' = [j \in Kinds |-> IF j # k THEN Yielding(j)
                                       ELSE IF popup[k].shown = "yes" THEN Put(popup[k])
                                       ELSE Awakened(popup[k])]
      BY <1>1 DEF PopupClicked, Tapped, Reached
    <2>2. tray' \in {"hidden", "closing"}
      BY <2>1 DEF Closing
    <2>3. popup[k] \in PopupStates
      BY DEF PopupStates
    <2>4. popup' \in [Kinds -> PopupStates]
      BY <2>1, <2>3, PopupOperations, OthersYield
    <2>5. \A j \in Kinds : popup'[j].shown = "yes" => j = k /\ popup'[j].timer
      BY <2>1, <2>3, PopupOperations, OthersYield
    <2> QED BY <2>1, <2>2, <2>4, <2>5 DEF PopupStates
  <1>2. CASE PopupTouched(k)
    <2>1. popup[k] \in PopupStates /\ Awakened(popup[k]) \in PopupStates
          /\ Awakened(popup[k]).timer
      BY PopupOperations DEF PopupStates
    <2>2. popup' = [popup EXCEPT ![k] = Awakened(popup[k])]
      BY <1>2 DEF PopupTouched
    <2>3. \A j \in Kinds : popup'[j].shown = "yes" => popup[j].shown = "yes"
      BY <1>2, <2>2 DEF PopupTouched
    <2> QED BY <1>2, <2>1, <2>2, <2>3 DEF PopupTouched, PopupStates
  <1>3. CASE PopupTimeout(k)
    <2>1. popup \in [Kinds -> PopupStates]
      BY DEF PopupStates
    <2>2. /\ popup' \in [Kinds -> PopupStates]
          /\ popup'[k].shown = popup[k].shown
          /\ popup[k].shown = "yes" => popup'[k].fading
          /\ \A j \in Kinds : j # k => popup'[j] = popup[j]
      BY <1>3, <2>1, TimerEnds
    <2>3. UNCHANGED <<shows, turned, drawer, expanded, tray, dialog, atUpdate, idle>>
      BY <1>3 DEF PopupTimeout
    <2>4. ScreenTypeOK'
      BY <2>2, <2>3 DEF PopupStates
    <2>5. TraySolitary' /\ PopupSolitary'
      BY <2>2, <2>3
    <2>6. PopupLeaves'
      BY <2>2
    <2> QED BY <2>4, <2>5, <2>6
  <1>4. CASE FadeCompleted(k)
    <2>1. /\ popup' = [popup EXCEPT ![k] = [popup[k] EXCEPT !.fading = FALSE, !.shown = "hidden"]]
          /\ UNCHANGED <<shows, turned, drawer, expanded, tray, dialog, atUpdate, idle>>
      BY <1>4 DEF FadeCompleted
    <2>2. popup'[k] \in PopupStates /\ popup'[k].shown # "yes"
      BY <2>1 DEF PopupStates
    <2>3. \A j \in Kinds : j # k => popup'[j] = popup[j]
      BY <2>1
    <2> QED BY <2>1, <2>2, <2>3 DEF PopupStates
  <1> QED BY <1>1, <1>2, <1>3, <1>4

LEMMA TrayStep ==
    ASSUME ScreenInv, TrayOpens \/ TrayCloses \/ TrayGone
    PROVE  ScreenInv'
  <1> USE DEF ScreenInv, ScreenTypeOK, OverlayInv, TraySolitary, PopupSolitary, PopupLeaves,
              Shown, turned, atUpdate
  <1>1. CASE TrayOpens
    <2>1. popup' = [k \in Kinds |-> Put(popup[k])]
      BY <1>1 DEF TrayOpens
    <2>2. \A k \in Kinds : popup[k] \in PopupStates
      BY DEF PopupStates
    <2>3. popup' \in [Kinds -> PopupStates] /\ \A k \in Kinds : popup'[k].shown # "yes"
      BY <2>1, <2>2, PopupOperations
    <2> QED BY <1>1, <2>3 DEF TrayOpens, PopupStates
  <1>2. CASE TrayCloses \/ TrayGone
    BY <1>2 DEF TrayCloses, TrayGone
  <1> QED BY <1>1, <1>2

LEMMA PageStep ==
    ASSUME ScreenInv, Rebuilds, shows' \in Pages,
           {portrait', drawer', webMode'} \subseteq BOOLEAN, before' \subseteq BOOLEAN,
           lit' \in {"on", "dim", "off"}, idle' \subseteq Thresholds \cup {"second"}
    PROVE  ScreenInv'
  BY RebuildTypes DEF ScreenInv, ScreenTypeOK, OverlayInv, TraySolitary, PopupSolitary,
                      PopupLeaves, Shown, PopupStates

LEMMA CalmStep ==
    ASSUME ScreenInv, UNCHANGED popup, tray' = tray,
           shows' \in Pages, {portrait', drawer', webMode'} \subseteq BOOLEAN,
           before' \subseteq BOOLEAN, expanded' \subseteq Cats,
           dialog' \in {"none", "settings", "mode"},
           lit' \in {"on", "dim", "off"}, idle' \subseteq Thresholds \cup {"second"}
    PROVE  ScreenInv'
  BY DEF ScreenInv, ScreenTypeOK, OverlayInv, TraySolitary, PopupSolitary, PopupLeaves, Shown

LEMMA ScreenStep == ScreenInv /\ [ScreenNext]_screenVars => ScreenInv'
  <1> SUFFICES ASSUME ScreenInv, [ScreenNext]_screenVars PROVE ScreenInv'
    OBVIOUS
  <1>0. ScreenTypeOK
    BY DEF ScreenInv
  <1> USE DEF turned, atUpdate, overlays
  <1>1. ASSUME NEW k \in Kinds,
               PopupClicked(k) \/ PopupTouched(k) \/ PopupTimeout(k) \/ FadeCompleted(k)
        PROVE  ScreenInv'
    BY <1>1, PopupStep
  <1>2. CASE TrayOpens \/ TrayCloses \/ TrayGone
    BY <1>2, TrayStep
  <1>3. ASSUME NEW control, NEW to \in Pages, AppClicked(control, to) PROVE ScreenInv'
    <2>1. /\ Turned(to) /\ shows' = to /\ drawer' = (to = "map") /\ Rebuilds
          /\ idle' = {} /\ UNCHANGED atUpdate
      BY <1>3 DEF AppClicked, NavigateTo, Tapped, Reached
    <2>2. portrait' \in BOOLEAN /\ before' \subseteq BOOLEAN
      BY <1>0, <2>1, TurnedTypes
    <2> QED BY <1>0, <2>1, <2>2, PageStep DEF ScreenTypeOK
  <1>4. CASE RotateClicked \/ ThemeClicked
    BY <1>0, <1>4, PageStep DEF RotateClicked, ThemeClicked, Tapped, Reached, ScreenTypeOK
  <1>5. ASSUME NEW control, NEW open_ \in BOOLEAN, DrawerMoves(control, open_) PROVE ScreenInv'
    BY <1>0, <1>5, CalmStep DEF DrawerMoves, Tapped, Reached, ScreenTypeOK
  <1>6. ASSUME NEW c \in Cats, CardTapped(c) \/ CardJumps(c) \/ CardActs(c) PROVE ScreenInv'
    BY <1>0, <1>6, CalmStep DEF CardTapped, CardJumps, CardActs, CardOpen, Tapped, Reached, Refreshes,
                                ScreenTypeOK
  <1>7. CASE MapTouched
    BY <1>0, <1>7, CalmStep DEF MapTouched, Reached, Refreshes, ScreenTypeOK
  <1>8. ASSUME NEW control, NEW what \in {"settings", "mode"}, DialogOpens(control, what)
        PROVE  ScreenInv'
    BY <1>0, <1>8, CalmStep DEF DialogOpens, Tapped, Reached, ScreenTypeOK
  <1>9. CASE DialogCloses \/ Inactive \/ WebRequests
    BY <1>0, <1>9, CalmStep DEF DialogCloses, Inactive, WebRequests, ScreenTypeOK
  <1>10. CASE UpdateUi
    <2>1. Lights \in {"on", "dim", "off"}
      BY <1>0 DEF Lights, ScreenTypeOK
    <2>2. /\ lit' = Lights /\ webMode' = FALSE /\ UNCHANGED turned
          /\ idle' \subseteq Thresholds \cup {"second"}
      BY <1>0, <1>10 DEF UpdateUi, ScreenTypeOK
    <2>3. CASE Screensaver
      <3>1. shows' = "map" /\ drawer' = TRUE /\ Rebuilds
        BY <1>10, <2>3 DEF UpdateUi
      <3> QED BY <1>0, <2>1, <2>2, <3>1, PageStep DEF ScreenTypeOK, Pages
    <2>4. CASE ~Screensaver
      <3>1. UNCHANGED <<shows, drawer, expanded, overlays>>
        BY <1>10, <2>4 DEF UpdateUi
      <3> QED BY <1>0, <2>1, <2>2, <3>1, CalmStep DEF ScreenTypeOK
    <2> QED BY <2>3, <2>4
  <1>11. CASE UNCHANGED screenVars
    BY <1>0, <1>11, CalmStep DEF screenVars, ScreenTypeOK
  <1> QED BY <1>1, <1>2, <1>3, <1>4, <1>5, <1>6, <1>7, <1>8, <1>9, <1>10, <1>11
          DEF ScreenNext, Pages

\* One popup at most, and none while the tray is in front, are at most one overlay.
LEMMA CountOverlays == ScreenInv => OneOverlay
  <1> SUFFICES ASSUME ScreenInv PROVE OneOverlay
    OBVIOUS
  <1>1. \A k \in Open : popup[k].timer \/ popup[k].fading
    BY DEF ScreenInv, OverlayInv, PopupLeaves, Shown, Open
  <1>2. CASE Open = {}
    <2>1. Cardinality(Open) = 0
      BY <1>2, FS_EmptySet
    <2> QED BY <1>1, <2>1 DEF OneOverlay
  <1>3. CASE Open # {}
    <2>1. PICK k : k \in Open
      BY <1>3
    <2>2. Open = {k} /\ tray # "open"
      BY <2>1 DEF ScreenInv, OverlayInv, TraySolitary, PopupSolitary, Shown, Open
    <2>3. Cardinality(Open) = 1
      BY <2>2, FS_Singleton
    <2> QED BY <1>1, <2>2, <2>3 DEF OneOverlay
  <1> QED BY <1>2, <1>3

\* The screen's variables keep their types for any cats.
LEMMA ScreenInvariance == ScreenSpec => []ScreenInv
  <1> QED BY ScreenInitInv, ScreenStep, PTL DEF ScreenSpec

\* Popups and tray take turns and every popup leaves by itself, for any number of
\* cards and any order of taps, timers, fades and rebuilds (main.cpp:
\* brightness_clicked, volume_clicked, open_quick_settings).
THEOREM OverlaysTakeTurns == ScreenSpec => []OneOverlay
  <1> QED BY ScreenInvariance, CountOverlays, PTL

\* Page, tray, popups, timers and the screen saver's light keep their types, for any
\* pages and bounds.
THEOREM ScreenTypeCorrect == ScreenSpec => []ScreenTypeOK
  <1>1. ScreenInv => ScreenTypeOK
    BY DEF ScreenInv
  <1> QED BY <1>1, ScreenInvariance, PTL
-----------------------------------------------------------------------------
(* The settings.                                                           *)

\* A picked network may be taken back: what it replaced is as intact as what is
\* in the settings.
Offered == hub = "p4" /\ ~torn => Intact(previous) /\ \A net \in Nets : Intact(settings[net])

\* A picked network that waits for its password, and was not saved by something
\* else meanwhile, has its password editor open; and what flash holds is the
\* settings without it.
Waiting ==
    pending /\ ~overtaken =>
        /\ hub = "p4" /\ modal = "editor" /\ editing.what = "password"
        /\ saved => flash = [settings EXCEPT ![editing.net] = previous]

\* The ESP32-S3 hub keeps no network waiting in its settings, so none is overtaken.
CopyOnly == hub = "s3" => ~pending /\ ~overtaken

\* The inductive invariant of the settings.
SettingsInv == SettingsTypeOK /\ Offered /\ Waiting /\ CopyOnly /\ Durable

\* Settings are changed by replacing one network or the mode.
Replaced(t, s, net, pair) == t = [s EXCEPT ![net] = pair]

LEMMA SetNet ==
    ASSUME NEW s \in AllSettings, NEW net \in Nets, NEW pair \in Pairs,
           NEW t, Replaced(t, s, net, pair)
    PROVE  /\ t \in AllSettings
           /\ \A n \in Nets : t[n] = IF n = net THEN pair ELSE s[n]
  BY DEF AllSettings, Nets, Replaced

LEMMA NetPair ==
    ASSUME NEW s \in AllSettings, NEW net \in Nets PROVE s[net] \in Pairs
  BY DEF AllSettings, Nets

LEMMA SetMode ==
    ASSUME NEW s \in AllSettings, NEW m \in Modes
    PROVE  /\ [s EXCEPT !.mode = m] \in AllSettings
           /\ \A n \in Nets : [s EXCEPT !.mode = m][n] = s[n]
  BY DEF AllSettings, Nets

\* A save that stops half-way leaves settings, and one that reports success the
\* settings that were saved.
LEMMA WrittenIsSettings ==
    ASSUME NEW f \in AllSettings, NEW s \in AllSettings, NEW keys \in SUBSET Keys
    PROVE  Written(f, s, keys) \in AllSettings
  BY DEF Written, AllSettings, Pairs, Parts, Nets

LEMMA AfterIsSettings ==
    ASSUME NEW f \in AllSettings, NEW s \in AllSettings, NEW ok \in BOOLEAN
    PROVE  After(f, s, ok) \subseteq AllSettings /\ (ok => After(f, s, ok) = {s})
  BY WrittenIsSettings DEF After

LEMMA SaveOutcome ==
    ASSUME flash \in AllSettings, NEW s \in AllSettings, NEW ok \in BOOLEAN, Save(s, ok)
    PROVE  /\ flash' \in AllSettings /\ saved' \in BOOLEAN /\ saved' = ok
           /\ ok => flash' = s
  BY AfterIsSettings DEF Save, Outcome

\* Whatever an editor makes of a network, it pairs no password with another name.
LEMMA EditsIntact ==
    ASSUME NEW old \in Pairs, NEW pair \in Edits(old)
    PROVE  pair \in Pairs /\ (Intact(old) => Intact(pair))
  BY DEF Edits, Renamed, Typed, Pairs, Ssids, Intact

LEMMA S3EditsArePairs ==
    ASSUME NEW old \in Pairs, scanned \in Ssids, NEW pair \in S3Edits(old)
    PROVE  pair \in Pairs
  <1>1. CASE editing.what = "ssid"
    BY <1>1 DEF S3Edits, Pairs, Ssids
  <1>2. CASE editing.what # "ssid"
    <2> DEFINE named == [old EXCEPT !.ssid = IF scanned = NoName THEN @ ELSE scanned]
    <2>1. named \in Pairs
      BY DEF Pairs
    <2>2. pair \in Typed(named, old.password)
      BY <1>2 DEF S3Edits
    <2> QED BY <2>1, <2>2 DEF Typed, Pairs
  <1> QED BY <1>1, <1>2

LEMMA BlankIsPair == Blank \in Pairs /\ \A name \in Ssids :
                       [Blank EXCEPT !.ssid = name] = [ssid |-> name, password |-> NoPassword]
  BY DEF Blank, Pairs, Ssids

LEMMA SettingsInitInv == SettingsInit => SettingsInv
  <1> SUFFICES ASSUME SettingsInit PROVE SettingsInv
    OBVIOUS
  <1>1. settings \in AllSettings /\ \A net \in Nets : settings[net] = Blank
    BY BlankIsPair, HubSettingsAssumption DEF SettingsInit, AllSettings, Nets
  <1>2. SettingsTypeOK
    BY <1>1, BlankIsPair, HubSettingsAssumption
    DEF SettingsInit, SettingsTypeOK, Fields, Nets, Ssids
  <1> QED BY <1>1, <1>2 DEF SettingsInit, SettingsInv, Offered, Waiting, CopyOnly, Durable,
                           Intact, Blank

LEMMA FieldNames ==
    ASSUME NEW field \in Fields
    PROVE  /\ field.net \in Nets
           /\ [field EXCEPT !.what = "password"] \in Fields
           /\ [field EXCEPT !.what = "password"].net = field.net
           /\ [field EXCEPT !.what = "password"].what = "password"
  <1>1. CASE field \in [net : Nets, what : {"ssid", "password"}]
    BY <1>1 DEF Fields, Nets
  <1>2. CASE field \in [net : {"secondary"}, what : {"other"}]
    BY <1>2 DEF Fields, Nets
  <1> QED BY <1>1, <1>2 DEF Fields

\* What the steps take from the invariant.
LEMMA Held ==
    ASSUME SettingsInv
    PROVE  /\ SettingsTypeOK
           /\ settings \in AllSettings /\ flash \in AllSettings
           /\ editing \in Fields /\ editing.net \in Nets
           /\ settings[editing.net] \in Pairs
           /\ previous \in Pairs
           /\ saved \in BOOLEAN /\ pending \in BOOLEAN /\ overtaken \in BOOLEAN
  <1>1. SettingsTypeOK
    BY DEF SettingsInv
  <1>2. /\ settings \in AllSettings /\ flash \in AllSettings
        /\ editing \in Fields /\ previous \in Pairs
        /\ saved \in BOOLEAN /\ pending \in BOOLEAN /\ overtaken \in BOOLEAN
    BY <1>1 DEF SettingsTypeOK
  <1>3. editing.net \in Nets
    BY <1>2, FieldNames
  <1> QED BY <1>1, <1>2, <1>3, NetPair

\* The steps of the Home Hub's picker, editor and verdict.
LEMMA PickerStep ==
    ASSUME SettingsInv,
           \/ \E field \in Fields : CardClicked(field)
           \/ \E manual \in BOOLEAN : PickerLeft(manual) \/ VerificationLeft(manual)
           \/ \E verdict \in {"connected", "deferred", "failed"} : Verified(verdict)
           \/ ModalTornDown
    PROVE  SettingsInv'
  BY DEF SettingsInv, SettingsTypeOK, Offered, Waiting, CopyOnly, Durable, CardClicked, PickerLeft,
         VerificationLeft, Verified, ModalTornDown, P4, Opened, Closed, Intact

LEMMA PickerAsksStep ==
    ASSUME SettingsInv, NEW name \in Names, PickerAsks(name)
    PROVE  SettingsInv'
  <1> DEFINE new == [Blank EXCEPT !.ssid = name]
  <1>1. /\ hub = "p4" /\ modal = "picker"
        /\ settings' = [settings EXCEPT ![editing.net] = new]
        /\ pending' = TRUE /\ previous' = settings[editing.net]
        /\ modal' = "editor" /\ editing' = [editing EXCEPT !.what = "password"]
        /\ UNCHANGED <<hub, scanned, started, torn, flash, saved, overtaken>>
    BY DEF PickerAsks, P4, Opened
  <1>2. SettingsTypeOK /\ editing.net \in Nets /\ settings \in AllSettings /\ editing \in Fields
    BY Held
  <1>3. new = [ssid |-> name, password |-> NoPassword] /\ new \in Pairs /\ Intact(new)
    BY BlankIsPair DEF Ssids, Pairs, Intact
  <1> HIDE DEF new
  <1>4. /\ settings[editing.net] \in Pairs /\ settings' \in AllSettings
        /\ \A n \in Nets : settings'[n] = IF n = editing.net THEN new ELSE settings[n]
    <2>1. Replaced(settings', settings, editing.net, new)
      BY <1>1 DEF Replaced
    <2> QED BY <1>2, <1>3, <2>1, NetPair, SetNet
  <1>5. editing' \in Fields /\ editing'.net = editing.net /\ editing'.what = "password"
    BY <1>1, <1>2, FieldNames
  <1>6. SettingsTypeOK'
    BY <1>1, <1>2, <1>4, <1>5 DEF SettingsTypeOK
  <1>7. Offered'
    BY <1>1, <1>2, <1>3, <1>4 DEF SettingsInv, Offered, Intact
  <1>8. ASSUME ~overtaken, saved PROVE flash = [settings' EXCEPT ![editing.net] = settings[editing.net]]
    <2>1. flash = settings
      BY <1>1, <1>8 DEF SettingsInv, Durable, Waiting
    <2> QED BY <1>1, <1>2, <2>1 DEF AllSettings, Nets
  <1> QED BY <1>1, <1>5, <1>6, <1>7, <1>8 DEF SettingsInv, Waiting, CopyOnly, Durable

\* A step that saves the settings it leaves in RAM.
LEMMA SavingStep ==
    ASSUME SettingsInv, settings' \in AllSettings, NEW ok \in BOOLEAN, Save(settings', ok),
           SettingsTypeOK => SettingsTypeOK',
           Offered', ~pending' \/ overtaken', CopyOnly'
    PROVE  SettingsInv'
  BY SaveOutcome DEF SettingsInv, SettingsTypeOK, Waiting, Durable

LEMMA PickerSavesStep ==
    ASSUME SettingsInv, NEW name \in Names, NEW secured \in BOOLEAN, NEW ok \in BOOLEAN,
           PickerSaves(name, secured, ok)
    PROVE  SettingsInv'
  <1> DEFINE old == settings[editing.net]
             new == [ssid |-> name, password |-> IF secured THEN old.password ELSE NoPassword]
  <1>1. /\ hub = "p4" /\ modal = "picker" /\ (secured => old.ssid = name)
        /\ settings' = [settings EXCEPT ![editing.net] = new]
        /\ Save(settings', ok)
        /\ modal' \in {"none", modal}
        /\ overtaken' = (overtaken \/ pending)
        /\ UNCHANGED <<hub, scanned, started, torn, editing, pending, previous>>
    BY DEF PickerSaves, P4
  <1>2. SettingsTypeOK /\ editing.net \in Nets /\ settings \in AllSettings /\ flash \in AllSettings
    BY Held
  <1>3. old \in Pairs
    BY <1>2, NetPair
  <1>4. new \in Pairs /\ (Intact(old) => Intact(new))
    BY <1>1, <1>3 DEF Pairs, Ssids, Intact
  <1> HIDE DEF new
  <1>5. /\ settings' \in AllSettings
        /\ \A n \in Nets : settings'[n] = IF n = editing.net THEN new ELSE settings[n]
    <2>1. Replaced(settings', settings, editing.net, new)
      BY <1>1 DEF Replaced, new
    <2> QED BY <1>2, <1>4, <2>1, SetNet
  <1>6. SettingsTypeOK'
    BY <1>1, <1>2, <1>5, SaveOutcome DEF SettingsTypeOK
  <1>7. Offered'
    BY <1>1, <1>2, <1>4, <1>5 DEF SettingsInv, Offered, Intact
  <1> QED BY <1>1, <1>5, <1>6, <1>7, SavingStep DEF SettingsInv, CopyOnly

LEMMA EditorReadyStep ==
    ASSUME SettingsInv, NEW ok \in BOOLEAN, EditorReady(ok)
    PROVE  SettingsInv'
  <1>1. PICK pair \in Edits(settings[editing.net]) :
            settings' = [settings EXCEPT ![editing.net] = pair]
    BY DEF EditorReady
  <1>2. /\ hub = "p4" /\ modal = "editor" /\ Save(settings', ok)
        /\ modal' \in {"none", "waiting", modal}
        /\ pending' = (pending /\ ~ok)
        /\ overtaken' = (overtaken \/ (pending /\ (~ok \/ editing.what # "password")))
        /\ UNCHANGED <<hub, scanned, started, torn, editing, previous>>
    BY DEF EditorReady, P4, Verifies
  <1>3. SettingsTypeOK /\ editing.net \in Nets /\ settings \in AllSettings /\ flash \in AllSettings
    BY Held
  <1>4. pair \in Pairs /\ (Intact(settings[editing.net]) => Intact(pair))
    BY <1>1, <1>3, NetPair, EditsIntact
  <1>5. /\ settings' \in AllSettings
        /\ \A n \in Nets : settings'[n] = IF n = editing.net THEN pair ELSE settings[n]
    <2>1. Replaced(settings', settings, editing.net, pair)
      BY <1>1 DEF Replaced
    <2> QED BY <1>3, <1>4, <2>1, SetNet
  <1>6. SettingsTypeOK'
    BY <1>2, <1>3, <1>5, SaveOutcome DEF SettingsTypeOK
  <1>7. Offered'
    BY <1>2, <1>3, <1>4, <1>5 DEF SettingsInv, Offered, Intact
  <1> QED BY <1>2, <1>5, <1>6, <1>7, SavingStep DEF SettingsInv, CopyOnly

LEMMA EditorCancelledStep == ASSUME SettingsInv, EditorCancelled PROVE SettingsInv'
  <1>1. /\ hub = "p4" /\ modal' = "none" /\ pending' = FALSE /\ TakenBack
        /\ UNCHANGED <<hub, scanned, started, torn, flash, saved, previous, overtaken, editing>>
    BY DEF EditorCancelled, P4, Closed
  <1>2. /\ SettingsTypeOK /\ editing \in Fields /\ editing.net \in Nets
        /\ settings \in AllSettings /\ previous \in Pairs
    BY Held
  <1>3. CASE ~pending
    BY <1>1, <1>2, <1>3 DEF TakenBack, SettingsInv, SettingsTypeOK, Offered, Waiting, CopyOnly, Durable,
                            Intact
  <1>4. CASE pending
    <2>1. PICK net \in Nets : /\ settings' = [settings EXCEPT ![net] = previous]
                              /\ editing.what = "password" => net = editing.net
      BY <1>1, <1>2, <1>4 DEF TakenBack, Nets, Fields
    <2>2. /\ settings' \in AllSettings
          /\ \A n \in Nets : settings'[n] = IF n = net THEN previous ELSE settings[n]
      <3>1. Replaced(settings', settings, net, previous)
        BY <2>1 DEF Replaced
      <3> QED BY <1>2, <3>1, SetNet
    <2>3. SettingsTypeOK'
      BY <1>1, <1>2, <2>2 DEF SettingsTypeOK
    <2>4. Offered'
      BY <1>1, <2>2 DEF SettingsInv, Offered, Intact
    <2>5. saved /\ ~overtaken => flash = settings'
      BY <1>4, <2>1 DEF SettingsInv, Waiting
    <2> QED BY <1>1, <2>3, <2>4, <2>5 DEF SettingsInv, Waiting, CopyOnly, Durable
  <1> QED BY <1>3, <1>4

LEMMA CodeAppliedStep ==
    ASSUME SettingsInv, NEW name \in Names, NEW ok \in BOOLEAN, NEW password \in {name, NoPassword},
           CodeApplied(name, password, ok)
    PROVE  SettingsInv'
  <1> DEFINE new == [ssid |-> name, password |-> password]
  <1>1. /\ hub = "p4" /\ modal = "none"
        /\ settings' = [settings EXCEPT !["primary"] = new]
        /\ Save(settings', ok)
        /\ UNCHANGED <<hub, scanned, started, torn, editVars, overtaken>>
    BY DEF CodeApplied, P4
  <1>2. new \in Pairs /\ Intact(new)
    BY DEF Pairs, Ssids, Intact
  <1>3. Replaced(settings', settings, "primary", new)
    BY <1>1 DEF Replaced
  <1> HIDE DEF new
  <1>4. /\ settings' \in AllSettings
        /\ \A n \in Nets : settings'[n] = IF n = "primary" THEN new ELSE settings[n]
    BY <1>2, <1>3, Held, SetNet DEF Nets
  <1>5. SettingsTypeOK'
    BY <1>1, <1>4, Held, SaveOutcome DEF SettingsTypeOK, editVars
  <1>6. Offered'
    BY <1>1, <1>2, <1>4 DEF SettingsInv, Offered, Intact, editVars
  <1>7. ~pending' \/ overtaken'
    BY <1>1 DEF SettingsInv, Waiting, editVars
  <1> QED BY <1>1, <1>4, <1>5, <1>6, <1>7, SavingStep DEF SettingsInv, CopyOnly, editVars

LEMMA ModeSetP4Step ==
    ASSUME SettingsInv, NEW m \in Modes, NEW ok \in BOOLEAN, ModeSetP4(m, ok)
    PROVE  SettingsInv'
  <1> DEFINE new == [settings EXCEPT !.mode = m]
  <1>1. /\ hub = "p4" /\ Save(new, ok)
        /\ settings' = IF ok THEN new ELSE settings
        /\ overtaken' = (overtaken \/ pending)
        /\ UNCHANGED <<hub, scanned, started, torn, editVars>>
    BY DEF ModeSetP4, P4
  <1>2. new \in AllSettings /\ \A n \in Nets : new[n] = settings[n]
    BY Held, SetMode
  <1> HIDE DEF new
  <1>3. /\ flash' \in AllSettings /\ saved' = ok /\ (ok => flash' = new)
    BY <1>1, <1>2, Held, SaveOutcome
  <1>4. settings' \in AllSettings /\ \A n \in Nets : settings'[n] = settings[n]
    BY <1>1, <1>2, Held
  <1>5. SettingsTypeOK'
    BY <1>1, <1>3, <1>4, Held DEF SettingsTypeOK, editVars
  <1>6. Offered'
    BY <1>1, <1>4 DEF SettingsInv, Offered, Intact, editVars
  <1>7. Waiting' /\ CopyOnly'
    BY <1>1, Held DEF SettingsInv, Waiting, CopyOnly, editVars
  <1>8. Durable'
    BY <1>1, <1>3 DEF Durable
  <1> QED BY <1>5, <1>6, <1>7, <1>8 DEF SettingsInv

\* The ESP32-S3 hub commits a proposal or undoes it: afterwards flash holds what RAM
\* holds, if the last save succeeded.
LEMMA CommitOutcome ==
    ASSUME SettingsInv, NEW proposed \in AllSettings, NEW written \in BOOLEAN, NEW ok \in BOOLEAN,
           Commits(proposed, written, ok)
    PROVE  /\ settings' \in AllSettings /\ flash' \in AllSettings /\ saved' \in BOOLEAN
           /\ saved' => flash' = settings'
  <1>1. CASE written /\ started
    BY <1>1, Held, SaveOutcome DEF Commits
  <1>2. CASE ~(written /\ started)
    <2>1. SaveBack(After(flash, proposed, written), ok) /\ UNCHANGED settings
      BY <1>2 DEF Commits
    <2>2. PICK f \in After(flash, proposed, written) : flash' \in After(f, settings, ok)
      BY <2>1 DEF SaveBack
    <2>3. f \in AllSettings
      BY <2>2, Held, AfterIsSettings
    <2>4. flash' \in AllSettings /\ (ok => flash' = settings) /\ saved' = ok
      BY <2>1, <2>2, <2>3, Held, AfterIsSettings DEF SaveBack, Outcome
    <2> QED BY <2>1, <2>4, Held
  <1> QED BY <1>1, <1>2

\* A step of the ESP32-S3 hub that leaves settings in RAM and flash, the same in both
\* if the last save succeeded.
LEMMA CopyStep ==
    ASSUME SettingsInv, hub = "s3", hub' = hub, UNCHANGED <<pending, previous, overtaken, torn>>,
           settings' \in AllSettings, flash' \in AllSettings, saved' \in BOOLEAN,
           saved' => flash' = settings',
           modal' \in {"none", "editor", modal}, editing' \in Fields, scanned' \in Ssids,
           started' \in BOOLEAN
    PROVE  SettingsInv'
  <1>1. SettingsTypeOK'
    BY Held DEF SettingsTypeOK
  <1> QED BY <1>1 DEF SettingsInv, Offered, Waiting, CopyOnly, Durable

LEMMA S3Step ==
    ASSUME SettingsInv,
           \/ \E field \in Fields : OpenEditor(field)
           \/ \E m \in Modes, ok \in BOOLEAN : WebModeS3(m, ok)
           \/ \E net \in Nets, name \in Names : UseAsks(net, name)
           \/ EditorAbandoned
           \/ \E written, ok \in BOOLEAN :
                 \/ EditorSaved(written, ok)
                 \/ \E net \in Nets, name \in Names : UseSaves(net, name, written, ok)
                 \/ \E m \in Modes : ModeApplied(m, written, ok)
           \/ ServicesStart
    PROVE  SettingsInv'
  <1>0. /\ hub = "s3" /\ hub' = hub /\ UNCHANGED <<pending, previous, overtaken, torn>>
    BY DEF OpenEditor, WebModeS3, UseAsks, EditorAbandoned, EditorSaved, UseSaves, ModeApplied,
           ServicesStart, S3
  <1>1. /\ scanned \in Ssids /\ started \in BOOLEAN /\ NoName \in Ssids
        /\ saved => flash = settings
    BY <1>0, Held DEF SettingsTypeOK, SettingsInv, CopyOnly, Durable, Ssids
  <1>2. CASE \E field \in Fields : OpenEditor(field)
    BY <1>0, <1>1, <1>2, Held, CopyStep DEF OpenEditor, Opened
  <1>3. ASSUME NEW m \in Modes, NEW ok \in BOOLEAN, WebModeS3(m, ok) PROVE SettingsInv'
    <2>1. settings' \in AllSettings
      BY <1>3, Held, SetMode DEF WebModeS3
    <2>2. flash' \in AllSettings /\ saved' = ok /\ (ok => flash' = settings')
      BY <1>3, <2>1, Held, SaveOutcome DEF WebModeS3
    <2> QED BY <1>0, <1>1, <1>3, <2>1, <2>2, Held, CopyStep DEF WebModeS3
  <1>4. ASSUME NEW net \in Nets, NEW name \in Names, UseAsks(net, name) PROVE SettingsInv'
    <2>1. [net |-> net, what |-> "password"] \in Fields /\ name \in Ssids
      BY DEF Fields, Ssids
    <2> QED BY <1>0, <1>1, <1>4, <2>1, Held, CopyStep DEF UseAsks, Opened
  <1>5. CASE EditorAbandoned
    BY <1>0, <1>1, <1>5, Held, CopyStep DEF EditorAbandoned, EditorClosed
  <1>6. ASSUME NEW written \in BOOLEAN, NEW ok \in BOOLEAN, EditorSaved(written, ok)
        PROVE  SettingsInv'
    <2>1. PICK pair \in S3Edits(settings[editing.net]) :
              Commits([settings EXCEPT ![editing.net] = pair], written, ok)
      BY <1>6 DEF EditorSaved
    <2> DEFINE proposed == [settings EXCEPT ![editing.net] = pair]
    <2>2. pair \in Pairs
      BY <1>1, <2>1, Held, S3EditsArePairs
    <2>3. Replaced(proposed, settings, editing.net, pair)
      BY DEF Replaced
    <2>4. Commits(proposed, written, ok)
      BY <2>1
    <2> HIDE DEF proposed
    <2>5. proposed \in AllSettings
      BY <2>2, <2>3, Held, SetNet
    <2> QED BY <1>0, <1>1, <1>6, <2>4, <2>5, Held, CommitOutcome, CopyStep
            DEF EditorSaved, EditorClosed
  <1>7. ASSUME NEW written \in BOOLEAN, NEW ok \in BOOLEAN, NEW net \in Nets, NEW name \in Names,
               UseSaves(net, name, written, ok)
        PROVE  SettingsInv'
    <2> DEFINE kept == IF settings[net].ssid = name THEN settings[net].password ELSE NoPassword
               pair == [ssid |-> name, password |-> kept]
               proposed == [settings EXCEPT ![net] = pair]
    <2>1. settings[net] \in Pairs
      BY Held, NetPair
    <2>2. pair \in Pairs
      BY <2>1 DEF Pairs, Ssids
    <2>3. Replaced(proposed, settings, net, pair)
      BY DEF Replaced
    <2>4. Commits(proposed, written, ok) /\ UNCHANGED <<modal, editing, scanned, started>>
      BY <1>7 DEF UseSaves
    <2> HIDE DEF pair, proposed
    <2>5. proposed \in AllSettings
      BY <2>2, <2>3, Held, SetNet
    <2> QED BY <1>0, <1>1, <2>4, <2>5, Held, CommitOutcome, CopyStep
  <1>8. ASSUME NEW written \in BOOLEAN, NEW ok \in BOOLEAN, NEW m \in Modes,
               ModeApplied(m, written, ok)
        PROVE  SettingsInv'
    <2> DEFINE proposed == [settings EXCEPT !.mode = m]
    <2>1. Commits(proposed, written, ok) /\ UNCHANGED <<modal, editing, scanned, started>>
      BY <1>8 DEF ModeApplied
    <2>2. proposed \in AllSettings
      BY Held, SetMode
    <2> HIDE DEF proposed
    <2> QED BY <1>0, <1>1, <2>1, <2>2, Held, CommitOutcome, CopyStep
  <1>9. CASE ServicesStart
    BY <1>0, <1>1, <1>9, Held, CopyStep DEF ServicesStart
  <1> QED BY <1>2, <1>3, <1>4, <1>5, <1>6, <1>7, <1>8, <1>9

\* The steps both hubs have.
LEMMA OtherSavedStep ==
    ASSUME SettingsInv, NEW ok \in BOOLEAN, OtherSaved(ok)
    PROVE  SettingsInv'
  <1>1. /\ Save(settings', ok) /\ overtaken' = (overtaken \/ pending)
        /\ UNCHANGED <<hub, settings, editVars, started, torn>>
    BY DEF OtherSaved
  <1>2. SettingsTypeOK'
    BY <1>1, Held, SaveOutcome DEF SettingsTypeOK, editVars
  <1> QED BY <1>1, <1>2, Held, SavingStep DEF SettingsInv, Offered, CopyOnly, Intact, editVars

\* A reset loads what flash holds; a network it finds half-written sets `torn`.
LEMMA ResetStep == ASSUME SettingsInv, Reset PROVE SettingsInv'
  <1>1. SettingsTypeOK'
    BY Held DEF Reset, SettingsTypeOK, Ssids
  <1>2. Offered'
    BY DEF Reset, SettingsInv, Offered, Intact
  <1> QED BY <1>1, <1>2 DEF Reset, SettingsInv, Waiting, CopyOnly, Durable

LEMMA SettingsStep == SettingsInv /\ [SettingsNext]_settingsVars => SettingsInv'
  <1> SUFFICES ASSUME SettingsInv, [SettingsNext]_settingsVars PROVE SettingsInv'
    OBVIOUS
  <1>1. CASE UNCHANGED settingsVars
    BY <1>1 DEF settingsVars, SettingsInv, SettingsTypeOK, Offered, Waiting, CopyOnly, Durable,
                Intact
  <1>2. CASE SettingsNext
    <2>1. ASSUME NEW name \in Names, NEW ok \in BOOLEAN, NEW unlocked \in BOOLEAN,
                 CodeApplied(name, IF unlocked THEN NoPassword ELSE name, ok)
          PROVE  SettingsInv'
      BY <2>1, CodeAppliedStep
    <2> QED BY <1>2, <2>1, PickerStep, PickerAsksStep, PickerSavesStep, EditorReadyStep,
               EditorCancelledStep, ModeSetP4Step, S3Step, OtherSavedStep, ResetStep
            DEF SettingsNext
  <1> QED BY <1>1, <1>2

LEMMA SettingsInvariance == SettingsSpec => []SettingsInv
  <1> QED BY SettingsInitInv, SettingsStep, PTL DEF SettingsSpec

\* The Home Hub offers no password to a network it was not typed for, for any names
\* and any order of picks, edits, codes, saves that fail half-way and resets, unless a
\* reset found a network half-written (main.cpp: wifi_picker_use_clicked,
\* apply_settings_editor_value, settings_keyboard_event, camera_apply_wifi_clicked).
THEOREM PasswordsStayPaired == SettingsSpec => []PairIntact
  <1>1. SettingsInv => PairIntact
    BY DEF SettingsInv, Offered, PairIntact
  <1> QED BY <1>1, SettingsInvariance, PTL

\* After a save that succeeded flash holds what either hub works with, whatever was
\* refused, taken back or undone before (main.cpp: set_communications_mode,
\* editor_saved, apply_mode; settings_store.cpp: save).
THEOREM SettingsDurable == SettingsSpec => []Durable
  <1>1. SettingsInv => Durable
    BY DEF SettingsInv
  <1> QED BY <1>1, SettingsInvariance, PTL

\* The settings in RAM, in the editors and in flash keep their types, for any networks
\* and any order of edits.
THEOREM SettingsTypeCorrect == SettingsSpec => []SettingsTypeOK
  <1>1. SettingsInv => SettingsTypeOK
    BY DEF SettingsInv
  <1> QED BY <1>1, SettingsInvariance, PTL

-----------------------------------------------------------------------------
(* The map.                                                                *)

\* What a slot's entry may say it holds, and the views there are.
Contents == {None} \cup (Int \X Int)
Views == [zoom : MinZoom..MaxZoom, center : Int, height : Nat]

MapTypes ==
    /\ board \in Boards
    /\ view \in Views
    /\ slot \in [Index -> [id : Contents, buffer : Index]]
    /\ DOMAIN pixels = Index /\ DOMAIN image = Index /\ DOMAIN asked = Index
    /\ board = "s3" => ~dirty /\ ~page

\* No two slots share a pixel buffer, in any order of the slots.
OwnBuffers == \A i, j \in Index : slot[i].buffer = slot[j].buffer => i = j

\* A valid slot has its tile in its buffer.
SlotsDecoded == \A i \in Index : slot[i].id # None => pixels[slot[i].buffer] = slot[i].id

\* An image that is not hidden lies where the tile of its slot belongs; on the Home Hub
\* a view that has moved on waits for its refresh.
ImagesPlaced ==
    ~dirty => \A i \in Index : \A at \in image[i] :
                  i \in DOMAIN Placed /\ at = Placed[i].at /\ slot[i].id = Placed[i].id

\* S3: a slot that waits for a tile is hidden, not valid, and waits for the tile of its
\* place in the view as it is now.
WaitsHidden ==
    board = "s3" =>
        \A i \in Index : asked[i] # None =>
            /\ slot[i].id = None /\ image[i] = {}
            /\ i \in DOMAIN Placed /\ asked[i] = Placed[i].id

\* The inductive invariant of the map.
MapInv == MapTypes /\ OwnBuffers /\ SlotsDecoded /\ ImagesPlaced /\ WaitsHidden

\* The rank of an element in a set of numbers from 1 to n: how many are no larger.
\* Ranks tell the elements apart and take every value up to the size of the set.
LEMMA Ranks ==
    ASSUME NEW n \in Nat, NEW S \in SUBSET (1..n)
    PROVE  /\ IsFiniteSet(S) /\ Cardinality(S) \in Nat
           /\ \A j \in S : Cardinality(S \cap (1..j)) \in 1..Cardinality(S)
           /\ \A j, k \in S : Cardinality(S \cap (1..j)) = Cardinality(S \cap (1..k)) => j = k
           /\ \A m \in 1..Cardinality(S) : \E j \in S : Cardinality(S \cap (1..j)) = m
  <1> DEFINE rank == [j \in S |-> Cardinality(S \cap (1..j))]
             to == 1..Cardinality(S)
  <1>1. IsFiniteSet(S) /\ Cardinality(S) \in Nat
    <2>1. IsFiniteSet(1..n)
      BY FS_Interval
    <2>2. IsFiniteSet(S)
      BY <2>1, FS_Subset
    <2> QED
      BY <2>2, FS_CardinalityType
  <1>2. \A j \in S : rank[j] \in to
    <2> SUFFICES ASSUME NEW j \in S PROVE rank[j] \in to
      OBVIOUS
    <2> DEFINE upTo == S \cap (1..j)
    <2>1. /\ IsFiniteSet(upTo)
          /\ Cardinality(upTo) \in Nat /\ Cardinality(upTo) <= Cardinality(S)
      BY <1>1, FS_Subset, FS_CardinalityType
    <2>2. j \in upTo
      OBVIOUS
    <2>3. Cardinality(upTo) # 0
      BY <2>1, <2>2, FS_EmptySet
    <2> QED
      BY <1>1, <2>1, <2>3
  <1>3. ASSUME NEW j \in S, NEW k \in S, j < k
        PROVE  rank[j] < rank[k]
    <2> DEFINE low == S \cap (1..j)
               high == S \cap (1..k)
    <2>1. IsFiniteSet(high) /\ low \in SUBSET high /\ k \in high /\ k \notin low
      BY <1>1, <1>3, FS_Subset
    <2>2. Cardinality(low) <= Cardinality(high) /\ Cardinality(low) # Cardinality(high)
      BY <2>1, FS_Subset
    <2>3. Cardinality(low) \in Nat /\ Cardinality(high) \in Nat
      BY <2>1, FS_Subset, FS_CardinalityType
    <2> QED
      BY <2>2, <2>3
  <1>4. \A j, k \in S : rank[j] = rank[k] => j = k
    <2> SUFFICES ASSUME NEW j \in S, NEW k \in S, rank[j] = rank[k], j # k PROVE FALSE
      OBVIOUS
    <2>1. j < k \/ k < j
      OBVIOUS
    <2>2. rank[j] \in Nat /\ rank[k] \in Nat
      BY <1>1, <1>2
    <2> HIDE DEF rank
    <2> QED
      BY <1>3, <2>1, <2>2
  <1>5. rank \in Surjection(S, to)
    <2>1. rank \in Injection(S, to)
      <3> HIDE DEF to
      <3> QED
        BY <1>2, <1>4 DEF Injection, IsInjective
    <2>2. IsFiniteSet(to) /\ Cardinality(to) = Cardinality(S)
      BY <1>1, FS_Interval
    <2> HIDE DEF rank, to
    <2> QED
      BY <2>1, <2>2, FS_Injection
  <1>6. \A m \in to : \E j \in S : rank[j] = m
    <2> HIDE DEF rank, to
    <2> QED
      BY <1>5 DEF Surjection
  <1> QED
    BY <1>1, <1>2, <1>4, <1>6

\* No two slots take the same entry: the new order of the slots is a permutation of the
\* old one, whatever they hold, provided the tiles of the grid differ.
LEMMA SourcesDiffer ==
    ASSUME Slots[board] \in Nat, NEW s, NEW grid, DOMAIN grid \subseteq Index,
           \A i, k \in DOMAIN grid : grid[i].id = grid[k].id => i = k
    PROVE  /\ SourceIndices(s, grid) \in [Index -> Index]
           /\ \A i, k \in Index :
                  SourceIndices(s, grid)[i] = SourceIndices(s, grid)[k] => i = k
  <1> DEFINE held(i) == {j \in Index : i \in DOMAIN grid /\ s[j].id = grid[i].id}
             kept == {i \in Index : held(i) # {}}
             given == [i \in kept |-> CHOOSE j \in held(i) : TRUE]
             used == {given[i] : i \in kept}
             left == Index \ used
             rest == Index \ kept
             fill(i) == CHOOSE j \in left : Cardinality(left \cap (1..j))
                                                = Cardinality((1..i) \ kept)
             from == SourceIndices(s, grid)
  <1>1. from = [i \in Index |-> IF i \in kept THEN given[i] ELSE fill(i)]
    BY DEF SourceIndices
  <1>2. \A i \in kept : given[i] \in Index /\ i \in DOMAIN grid /\ s[given[i]].id = grid[i].id
    OBVIOUS
  <1>3. \A i, k \in kept : given[i] = given[k] => i = k
    BY <1>2
  <1>4. IsFiniteSet(Index) /\ IsFiniteSet(kept) /\ used \in SUBSET Index
    <2>1. IsFiniteSet(Index)
      BY FS_Interval DEF Index
    <2>2. kept \in SUBSET Index
      OBVIOUS
    <2>3. used \in SUBSET Index
      <3> HIDE DEF kept, given
      <3> QED
        BY <1>2
    <2> HIDE DEF kept, used
    <2> QED
      BY <2>1, <2>2, <2>3, FS_Subset
  <1>5. Cardinality(left) = Cardinality(rest)
    <2>1. given \in Bijection(kept, used)
      <3>1. given \in [kept -> used]
        OBVIOUS
      <3>2. \A j \in used : \E i \in kept : given[i] = j
        OBVIOUS
      <3> HIDE DEF given, kept, used
      <3> QED
        BY <1>3, <3>1, <3>2 DEF Bijection, Injection, Surjection, IsInjective
    <2>2. Cardinality(used) = Cardinality(kept)
      <3> HIDE DEF used, kept, given
      <3> QED
        BY <1>4, <2>1, FS_Bijection DEF ExistsBijection
    <2>3. Index \cap used = used /\ Index \cap kept = kept
      BY <1>4
    <2>4. Cardinality(Index \ used) = Cardinality(Index) - Cardinality(used)
      <3>1. Cardinality(Index \ used) = Cardinality(Index) - Cardinality(Index \cap used)
        <4> HIDE DEF used
        <4> QED
          BY <1>4, FS_Difference
      <3> QED
        BY <2>3, <3>1
    <2>5. Cardinality(Index \ kept) = Cardinality(Index) - Cardinality(kept)
      <3> HIDE DEF kept
      <3> QED
        BY <1>4, <2>3, FS_Difference
    <2> QED
      BY <2>2, <2>4, <2>5
  <1>6. rest \in SUBSET (1..Slots[board]) /\ left \in SUBSET (1..Slots[board])
    BY DEF Index
  <1>7. \A i \in rest : (1..i) \ kept = rest \cap (1..i)
    BY DEF Index
  <1>8. \A i \in rest : Cardinality(rest \cap (1..i)) \in 1..Cardinality(rest)
    <2> HIDE DEF rest
    <2> QED
      BY <1>6, Ranks
  <1>9. \A i, k \in rest : Cardinality(rest \cap (1..i)) = Cardinality(rest \cap (1..k)) => i = k
    <2> HIDE DEF rest
    <2> QED
      BY <1>6, Ranks
  <1>10. \A m \in 1..Cardinality(left) : \E j \in left : Cardinality(left \cap (1..j)) = m
    <2> HIDE DEF left
    <2> QED
      BY <1>6, Ranks
  <1>11. \A i \in rest : fill(i) \in left
              /\ Cardinality(left \cap (1..fill(i))) = Cardinality(rest \cap (1..i))
    <2> SUFFICES ASSUME NEW i \in rest
                 PROVE  \E j \in left : Cardinality(left \cap (1..j)) = Cardinality((1..i) \ kept)
      BY <1>7
    <2>1. Cardinality((1..i) \ kept) \in 1..Cardinality(left)
      <3> HIDE DEF left, rest, kept
      <3> QED
        BY <1>5, <1>7, <1>8
    <2> HIDE DEF left
    <2> QED
      BY <1>10, <2>1
  <1>12. \A i, k \in rest : fill(i) = fill(k) => i = k
    <2> HIDE DEF left, rest, fill
    <2> QED
      BY <1>9, <1>11
  <1>13. \A i \in kept, k \in rest : given[i] # fill(k)
    <2>1. \A i \in kept : given[i] \notin left
      <3> HIDE DEF kept, given
      <3> QED
        OBVIOUS
    <2> HIDE DEF kept, given, left, fill
    <2> QED
      BY <1>11, <2>1
  <1>14. \A k \in rest : fill(k) \in Index
    BY <1>11
  <1> HIDE DEF given, fill, kept, from
  <1>15. \A i \in Index : from[i] = IF i \in kept THEN given[i] ELSE fill(i)
    BY <1>1
  <1>16. from \in [Index -> Index]
    BY <1>1, <1>2, <1>14
  <1>17. \A i, k \in Index : from[i] = from[k] => i = k
    BY <1>3, <1>12, <1>13, <1>15
  <1> QED
    BY <1>16, <1>17 DEF from
\* What a grid of tiles is: it fits the slots and its tiles differ.
Grids(grid) ==
    /\ DOMAIN grid \subseteq Index
    /\ \A i \in DOMAIN grid : grid[i].id \in Int \X Int /\ grid[i].id # None
    /\ \A i, k \in DOMAIN grid : grid[i].id = grid[k].id => i = k

LEMMA TilesAreNoNone == \A a, b : <<a, b>> # None
  BY DEF None

LEMMA TilesFit ==
    ASSUME board \in Boards, NEW v \in Views, NEW over \in Nat
    PROVE  Grids(VisibleTiles(v, over))
  <1> DEFINE first == (Top(v) \div Tile) - over
             last == ((Top(v) + v.height - 1) \div Tile) + over
             low == Clamp(first, 0, Rows(v.zoom))
             high == Clamp(last, -1, Rows(v.zoom) - 1)
             n == Clamp(high - low + 1, 0, Slots[board])
             grid == VisibleTiles(v, over)
  <1>1. v.zoom \in Int /\ Top(v) \in Int /\ Rows(v.zoom) \in Int /\ Slots[board] \in Nat
    BY HubMapAssumption DEF Views, Top, Rows
  <1>2. first \in Int /\ last \in Int
    BY <1>1 DEF Views, Tile
  <1>3. low \in Int /\ high \in Int
    <2> HIDE DEF first, last
    <2> QED
      BY <1>1, <1>2 DEF Clamp
  <1>4. n \in 0..Slots[board]
    <2> HIDE DEF low, high
    <2> QED
      BY <1>1, <1>3 DEF Clamp
  <1>5. grid = [i \in 1..n |-> [id |-> <<v.zoom, low + i - 1>>,
                                at |-> Tile * (low + i - 1) - Top(v)]]
    BY DEF VisibleTiles
  <1> HIDE DEF n, low, grid
  <1>6. DOMAIN grid \subseteq Index
    BY <1>1, <1>4, <1>5 DEF Index
  <1>7. \A i \in DOMAIN grid : i \in Int /\ grid[i].id = <<v.zoom, low + i - 1>>
    BY <1>1, <1>4, <1>5
  <1>8. \A i \in DOMAIN grid : grid[i].id \in Int \X Int /\ grid[i].id # None
    <2> SUFFICES ASSUME NEW i \in DOMAIN grid PROVE grid[i].id \in Int \X Int /\ grid[i].id # None
      OBVIOUS
    <2>1. v.zoom \in Int /\ low + i - 1 \in Int /\ grid[i].id = <<v.zoom, low + i - 1>>
      BY <1>1, <1>3, <1>7
    <2> QED
      BY <2>1, TilesAreNoNone
  <1>9. \A i, k \in DOMAIN grid : grid[i].id = grid[k].id => i = k
    BY <1>1, <1>3, <1>7
  <1> QED
    BY <1>6, <1>8, <1>9 DEF Grids, grid

LEMMA PlacedFits == MapTypes => Grids(Placed)
  BY TilesFit DEF MapTypes, Placed

\* The engine keeps a view a view.
LEMMA CentredView ==
    ASSUME NEW v \in Views, NEW at \in Int PROVE Centred(v, at) \in Views
  <1>1. Scale[v.zoom] \in Nat
    BY HubMapAssumption DEF Views
  <1>2. at * Scale[v.zoom] \in Int
    BY <1>1
  <1> QED
    BY <1>2 DEF Centred, Views

LEMMA ZoomedView ==
    ASSUME NEW v \in Views, NEW z \in MinZoom..MaxZoom PROVE Zoomed(v, z) \in Views
  <1>1. /\ Scale[z] \in Nat /\ Scale[v.zoom] \in Nat /\ Scale[v.zoom] > 0
        /\ v.center \in Int
    BY HubMapAssumption DEF Views
  <1>2. v.center * Scale[z] \in Int
    BY <1>1
  <1>3. (v.center * Scale[z]) \div Scale[v.zoom] \in Int
    <2> DEFINE a == v.center * Scale[z]
               b == Scale[v.zoom]
    <2>1. a \in Int /\ b \in Int /\ b > 0
      BY <1>1, <1>2
    <2> HIDE DEF a, b
    <2>2. a \div b \in Int
      BY <2>1
    <2> QED
      BY <2>2 DEF a, b
  <1> QED
    BY <1>3 DEF Zoomed, Views

LEMMA PannedView ==
    ASSUME NEW v \in Views, NEW drag \in Int PROVE Panned(v, drag) \in Views
  <1>1. WorldSize(v.zoom) \in Int
    BY HubMapAssumption DEF Views, WorldSize, Rows, Tile
  <1>2. Clamp(v.center - drag, 0, WorldSize(v.zoom)) \in Int
    BY <1>1 DEF Clamp, Views
  <1> QED
    BY <1>2 DEF Panned, Views

LEMMA CentredAndZoomedView ==
    ASSUME NEW v \in Views, NEW y \in Int, NEW z \in MinZoom..MaxZoom
    PROVE  CentredAndZoomed(v, y, z) \in Views
  <1>1. (v.height \div 2) - y \in Int
    BY DEF Views
  <1>2. Panned(v, (v.height \div 2) - y) \in Views
    BY <1>1, PannedView
  <1> QED
    BY <1>2, ZoomedView DEF CentredAndZoomed

LEMMA NewZoomRange == MapTypes => \A steps \in Int : NewZoom(steps) \in MinZoom..MaxZoom
  BY HubMapAssumption DEF MapTypes, Views, NewZoom, Clamp
LEMMA MapInitInv == Init => MapInv
  <1> SUFFICES ASSUME Init PROVE MapInv
    OBVIOUS
  <1> USE DEF Init
  <1>1. view \in Views
    <2> PICK z \in MinZoom..MaxZoom, c \in CatAt :
               view = [zoom |-> z, center |-> c * Scale[z], height |-> Landscape]
      OBVIOUS
    <2>1. c \in Int /\ Scale[z] \in Nat /\ Landscape \in Nat
      BY HubMapAssumption
    <2>2. c * Scale[z] \in Int
      BY <2>1
    <2> QED
      BY <2>1, <2>2 DEF Views
  <1>2. \A i \in Index : slot[i].id = None /\ slot[i].buffer = i /\ image[i] = {} /\ asked[i] = None
    BY DEF HideAll
  <1>3. MapTypes
    <2>1. slot \in [Index -> [id : Contents, buffer : Index]]
      BY DEF Contents
    <2>2. board = "s3" => ~dirty /\ ~page
      OBVIOUS
    <2> QED
      BY <1>1, <2>1, <2>2 DEF MapTypes, HideAll
  <1> QED
    BY <1>2, <1>3 DEF MapInv, OwnBuffers, SlotsDecoded, ImagesPlaced, WaitsHidden

\* The slots of a Home Hub in another order are as good as they were.
LEMMA ReorderedSlots ==
    ASSUME MapTypes, OwnBuffers, SlotsDecoded, NEW grid, Grids(grid),
           NEW moved, moved = Reordered(slot, grid) \/ moved = slot
    PROVE  /\ moved \in [Index -> [id : Contents, buffer : Index]]
           /\ \A i, j \in Index : moved[i].buffer = moved[j].buffer => i = j
           /\ \A i \in Index : moved[i].id # None => pixels[moved[i].buffer] = moved[i].id
  <1>1. CASE moved = slot
    BY <1>1 DEF MapTypes, OwnBuffers, SlotsDecoded
  <1>2. CASE moved = Reordered(slot, grid)
    <2> DEFINE from == SourceIndices(slot, grid)
    <2>1. from \in [Index -> Index] /\ \A i, k \in Index : from[i] = from[k] => i = k
      <3>1. Slots[board] \in Nat
        BY HubMapAssumption DEF MapTypes
      <3> QED
        BY <3>1, SourcesDiffer DEF Grids
    <2> HIDE DEF from
    <2>2. moved = [i \in Index |-> slot[from[i]]]
      BY <1>2 DEF Reordered, from
    <2> QED
      BY <2>1, <2>2 DEF MapTypes, OwnBuffers, SlotsDecoded
  <1> QED
    BY <1>1, <1>2

\* What a refresh of the Home Hub's map leaves: a grid, whether the images are bound
\* afresh, the slots in their order, and the places whose tile is to be decoded.
Leaves(grid, changed, moved, stale, good) ==
    LET failed == {i \in stale : grid[i].id \notin good}
        into(b) == {i \in stale : moved[i].buffer = b}
    IN  /\ slot' = [i \in Index |->
              IF i \in failed THEN [moved[i] EXCEPT !.id = None]
              ELSE IF i \in stale THEN [moved[i] EXCEPT !.id = grid[i].id] ELSE moved[i]]
        /\ pixels' = [b \in DOMAIN pixels |->
              IF into(b) = {} THEN pixels[b]
              ELSE Decoded(grid[CHOOSE i \in into(b) : TRUE].id, good, pixels[b])]
        /\ image' = [i \in Index |->
              IF i \notin DOMAIN grid \ failed THEN {}
              ELSE IF changed THEN {grid[i].at} ELSE Moved(image[i], grid[i].at)]
        /\ bound' = (bound \/ changed) /\ dirty' = FALSE /\ asked' = asked

LEMMA RefreshP4Is ==
    ASSUME NEW v, NEW good, RefreshP4(v, good),
           NEW grid, grid = VisibleTiles(v, Overscan),
           NEW moved, moved = IF Rebinds(grid) THEN Reordered(slot, grid) ELSE slot
    PROVE  Leaves(grid, Rebinds(grid), moved, {i \in DOMAIN grid : moved[i].id # grid[i].id}, good)
  <1>1. \E g \in {VisibleTiles(v, Overscan)} :
        \E c \in {Rebinds(g)} :
        \E m \in {IF c THEN Reordered(slot, g) ELSE slot} :
        \E s \in {{i \in DOMAIN g : m[i].id # g[i].id}} : Leaves(g, c, m, s, good)
    BY DEF RefreshP4, Leaves
  <1> QED
    BY <1>1

\* A refresh of the Home Hub's map with the view it leaves.
LEMMA RefreshP4Step ==
    ASSUME MapTypes, OwnBuffers, SlotsDecoded, board = "p4", board' = board,
           NEW v \in Views, view' = v, NEW good, RefreshP4(v, good), page' = page
    PROVE  MapInv'
  <1> DEFINE grid == VisibleTiles(v, Overscan)
             changed == Rebinds(grid)
             moved == IF changed THEN Reordered(slot, grid) ELSE slot
             stale == {i \in DOMAIN grid : moved[i].id # grid[i].id}
             failed == {i \in stale : grid[i].id \notin good}
             into(b) == {i \in stale : moved[i].buffer = b}
  <1>1. Grids(grid) /\ Placed' = grid /\ Index' = Index
    <2>1. Grids(grid)
      BY TilesFit DEF MapTypes, Overscan
    <2>2. Placed' = grid
      BY DEF Placed, VisibleTiles, Overscan, Index
    <2> QED
      BY <2>1, <2>2 DEF Index
  <1>2. /\ slot' = [i \in Index |->
                IF i \in failed THEN [moved[i] EXCEPT !.id = None]
                ELSE IF i \in stale THEN [moved[i] EXCEPT !.id = grid[i].id] ELSE moved[i]]
        /\ pixels' = [b \in DOMAIN pixels |->
                IF into(b) = {} THEN pixels[b]
                ELSE Decoded(grid[CHOOSE i \in into(b) : TRUE].id, good, pixels[b])]
        /\ image' = [i \in Index |->
                IF i \notin DOMAIN grid \ failed THEN {}
                ELSE IF changed THEN {grid[i].at} ELSE Moved(image[i], grid[i].at)]
        /\ dirty' = FALSE /\ asked' = asked
    <2>1. Leaves(grid, changed, moved, stale, good)
      <3> HIDE DEF grid
      <3> QED
        BY RefreshP4Is DEF grid
    <2> QED
      BY <2>1 DEF Leaves
  <1>3. /\ moved \in [Index -> [id : Contents, buffer : Index]]
        /\ \A i, j \in Index : moved[i].buffer = moved[j].buffer => i = j
        /\ \A i \in Index : moved[i].id # None => pixels[moved[i].buffer] = moved[i].id
    <2>1. moved = Reordered(slot, grid) \/ moved = slot
      OBVIOUS
    <2> HIDE DEF moved, grid
    <2> QED
      BY <1>1, <2>1, ReorderedSlots
  <1> HIDE DEF grid, changed, moved
  <1>4. \A i \in DOMAIN grid : i \in Index /\ grid[i].id \in Contents /\ grid[i].id # None
    BY <1>1 DEF Grids, Contents
  <1>5. \A i \in Index :
            /\ slot'[i] \in [id : Contents, buffer : Index]
            /\ slot'[i].buffer = moved[i].buffer
            /\ slot'[i].id = IF i \in failed THEN None
                             ELSE IF i \in stale THEN grid[i].id ELSE moved[i].id
    <2> SUFFICES ASSUME NEW i \in Index
                 PROVE  /\ slot'[i] \in [id : Contents, buffer : Index]
                        /\ slot'[i].buffer = moved[i].buffer
                        /\ slot'[i].id = IF i \in failed THEN None
                                         ELSE IF i \in stale THEN grid[i].id ELSE moved[i].id
      OBVIOUS
    <2>1. moved[i] \in [id : Contents, buffer : Index] /\ None \in Contents
      BY <1>3 DEF Contents
    <2>2. i \in stale => grid[i].id \in Contents
      BY <1>4
    <2> HIDE DEF stale, failed
    <2> QED
      BY <1>2, <2>1, <2>2
  <1>6. MapTypes'
    <2>1. slot' \in [Index -> [id : Contents, buffer : Index]]
      <3> HIDE DEF stale, failed
      <3> QED
        BY <1>2, <1>5
    <2>2. DOMAIN pixels' = Index /\ DOMAIN image' = Index /\ DOMAIN asked' = Index
      BY <1>2 DEF MapTypes
    <2>3. ~dirty' /\ board' \in Boards /\ view' \in Views /\ board' # "s3"
      BY <1>2 DEF MapTypes
    <2> QED
      BY <1>1, <2>1, <2>2, <2>3 DEF MapTypes
  <1>7. OwnBuffers'
    BY <1>1, <1>3, <1>5 DEF OwnBuffers
  <1>8. SlotsDecoded'
    <2> SUFFICES ASSUME NEW i \in Index, slot'[i].id # None
                 PROVE  pixels'[slot'[i].buffer] = slot'[i].id
      BY <1>1 DEF SlotsDecoded
    <2> DEFINE b == moved[i].buffer
    <2>1. b \in DOMAIN pixels /\ slot'[i].buffer = b
      BY <1>3, <1>5 DEF MapTypes
    <2>2. CASE i \in stale
      <3>1. slot'[i].id = grid[i].id /\ grid[i].id \in good
        BY <1>5, <2>2
      <3>2. into(b) = {i}
        BY <1>3, <1>4, <2>2
      <3>3. (CHOOSE k \in into(b) : TRUE) = i
        <4> HIDE DEF into, b
        <4> QED
          BY <3>2
      <3>4. pixels'[b] = Decoded(grid[i].id, good, pixels[b])
        <4> HIDE DEF into, b
        <4> QED
          BY <1>2, <2>1, <3>2, <3>3
      <3> QED
        BY <2>1, <3>1, <3>4 DEF Decoded
    <2>3. CASE i \notin stale
      <3>1. into(b) = {}
        BY <1>3, <1>4, <2>3
      <3>2. pixels'[b] = pixels[b]
        <4> HIDE DEF into, b
        <4> QED
          BY <1>2, <2>1, <3>1
      <3> QED
        BY <1>3, <1>5, <2>1, <2>3, <3>2
    <2> QED
      BY <2>2, <2>3
  <1>9. ImagesPlaced'
    <2> SUFFICES ASSUME NEW i \in Index, NEW at \in image'[i]
                 PROVE  i \in DOMAIN grid /\ at = grid[i].at /\ slot'[i].id = grid[i].id
      BY <1>1 DEF ImagesPlaced
    <2>1. i \in DOMAIN grid /\ i \notin failed /\ at = grid[i].at
      <3> HIDE DEF failed
      <3> QED
        BY <1>2 DEF Moved
    <2> QED
      BY <1>5, <2>1
  <1> QED
    BY <1>6, <1>7, <1>8, <1>9 DEF MapInv, WaitsHidden

\* An update of the Home Hub's map: a view that is not the old one counts as changed.
LEMMA UpdateP4Step ==
    ASSUME MapInv, board = "p4", board' = board, NEW v \in Views, NEW changed \in BOOLEAN,
           changed \/ v = view, UpdateP4(v, changed)
    PROVE  MapInv'
  <1> PICK where \in CatAt, good \in {Readable \cup f : f \in SUBSET Flaky} :
      LET w == IF followed THEN Centred(v, where) ELSE v
          soiled == changed \/ dirty \/ followed
      IN  /\ view' = w
          /\ UNCHANGED <<page, card>>
          /\ IF soiled /\ page /\ card THEN RefreshP4(w, good)
             ELSE IF soiled /\ page
                  THEN /\ image' = HideAll /\ dirty' = FALSE
                       /\ UNCHANGED <<slot, pixels, asked, bound>>
                  ELSE /\ dirty' = soiled /\ UNCHANGED <<bound, slot, pixels, image, asked>>
    BY DEF UpdateP4
  <1> DEFINE w == IF followed THEN Centred(v, where) ELSE v
             soiled == changed \/ dirty \/ followed
  <1>1. w \in Views
    <2>1. where \in Int
      BY HubMapAssumption
    <2> QED
      BY <2>1, CentredView
  <1>2. CASE soiled /\ page /\ card
    <2>1. RefreshP4(w, good) /\ view' = w /\ page' = page
      BY <1>2
    <2> HIDE DEF w
    <2> QED
      BY <1>1, <2>1, RefreshP4Step DEF MapInv
  <1>3. CASE soiled /\ page /\ ~card
    <2>1. image' = HideAll /\ UNCHANGED <<slot, pixels, asked, page>> /\ view' = w
      BY <1>3
    <2> HIDE DEF w
    <2> QED
      BY <1>1, <2>1
      DEF MapInv, MapTypes, OwnBuffers, SlotsDecoded, ImagesPlaced, WaitsHidden, HideAll, Index
  <1>4. CASE soiled /\ ~page
    <2>1. dirty' /\ UNCHANGED <<slot, pixels, image, asked, page>> /\ view' = w
      BY <1>4
    <2> HIDE DEF w
    <2> QED
      BY <1>1, <2>1
      DEF MapInv, MapTypes, OwnBuffers, SlotsDecoded, ImagesPlaced, WaitsHidden, Index
  <1>5. CASE ~soiled
    <2>1. ~dirty /\ ~dirty' /\ view' = view /\ UNCHANGED <<slot, pixels, image, asked, page>>
      BY <1>5
    <2>2. Placed' = Placed
      BY <2>1 DEF Placed, VisibleTiles
    <2> QED
      BY <2>1, <2>2
      DEF MapInv, MapTypes, OwnBuffers, SlotsDecoded, ImagesPlaced, WaitsHidden, Index
  <1> QED
    BY <1>2, <1>3, <1>4, <1>5
\* A refresh of the ESP32-S3 hub's map with the view it leaves.
LEMMA RefreshS3Step ==
    ASSUME MapInv, board = "s3", board' = board, NEW v \in Views, view' = v,
           NEW there \in BOOLEAN, RefreshS3(v, there)
    PROVE  MapInv'
  <1> DEFINE grid == VisibleTiles(v, 0)
             used(i) == i \in DOMAIN grid /\ there
             waits(i) == used(i) /\ ~Keeps(i, grid[i].id) /\ asked[i] = grid[i].id
             asks(i) == used(i) /\ ~Keeps(i, grid[i].id) /\ asked[i] # grid[i].id
  <1>1. Grids(grid) /\ Placed' = grid /\ Index' = Index
    <2>1. Grids(grid)
      BY TilesFit DEF MapInv, MapTypes
    <2>2. Placed' = grid
      BY DEF Placed, VisibleTiles, Index
    <2> QED
      BY <2>1, <2>2 DEF Index
  <1>2. /\ slot' = [i \in Index |-> IF asks(i) THEN [slot[i] EXCEPT !.id = None] ELSE slot[i]]
        /\ asked' = [i \in Index |-> IF ~used(i) THEN None
                                     ELSE IF asks(i) THEN grid[i].id ELSE asked[i]]
        /\ image' = [i \in Index |->
              IF ~used(i) \/ asks(i) THEN {}
              ELSE IF waits(i) THEN Moved(image[i], grid[i].at) ELSE {grid[i].at}]
        /\ UNCHANGED <<pixels, page, dirty>>
    BY DEF RefreshS3
  <1> HIDE DEF grid
  <1>3. \A i \in Index :
            /\ slot'[i] \in [id : Contents, buffer : Index]
            /\ slot'[i].buffer = slot[i].buffer
            /\ slot'[i].id = IF asks(i) THEN None ELSE slot[i].id
            /\ asked'[i] = IF ~used(i) THEN None
                           ELSE IF asks(i) THEN grid[i].id ELSE asked[i]
            /\ image'[i] = IF ~used(i) \/ asks(i) THEN {}
                           ELSE IF waits(i) THEN Moved(image[i], grid[i].at) ELSE {grid[i].at}
    <2> HIDE DEF used, asks, waits
    <2> QED
      BY <1>2 DEF MapInv, MapTypes, Contents
  <1>4. MapTypes'
    <2>1. slot' \in [Index -> [id : Contents, buffer : Index]]
      <3> HIDE DEF used, asks
      <3> QED
        BY <1>2, <1>3
    <2>2. DOMAIN pixels' = Index /\ DOMAIN image' = Index /\ DOMAIN asked' = Index
      BY <1>2 DEF MapInv, MapTypes
    <2> QED
      BY <1>1, <1>2, <2>1, <2>2 DEF MapInv, MapTypes
  <1>5. OwnBuffers'
    <2>1. \A i \in Index : slot'[i].buffer = slot[i].buffer
      <3> HIDE DEF used, asks, waits
      <3> QED
        BY <1>3
    <2>2. \A i, j \in Index : slot[i].buffer = slot[j].buffer => i = j
      BY DEF MapInv, OwnBuffers
    <2> QED
      BY <1>1, <2>1, <2>2 DEF OwnBuffers
  <1>6. SlotsDecoded'
    BY <1>1, <1>2, <1>3 DEF MapInv, SlotsDecoded
  <1>7. \A i \in DOMAIN grid : i \in Index /\ grid[i].id # None
    BY <1>1 DEF Grids
  <1>8. \A i \in Index : waits(i) => image'[i] = {}
    BY <1>3, <1>7 DEF MapInv, WaitsHidden, Moved
  <1>9. ImagesPlaced'
    <2> SUFFICES ASSUME NEW i \in Index, NEW at \in image'[i]
                 PROVE  i \in DOMAIN grid /\ at = grid[i].at /\ slot'[i].id = grid[i].id
      BY <1>1 DEF ImagesPlaced
    <2>1. image'[i] = IF ~used(i) \/ asks(i) THEN {}
                      ELSE IF waits(i) THEN Moved(image[i], grid[i].at) ELSE {grid[i].at}
      BY <1>3
    <2>2. ~waits(i)
      BY <1>8
    <2>3. used(i) /\ ~asks(i) /\ at = grid[i].at
      <3> HIDE DEF used, asks, waits
      <3> QED
        BY <2>1, <2>2
    <2> QED
      BY <1>3, <2>2, <2>3 DEF Keeps
  <1>10. WaitsHidden'
    <2> SUFFICES ASSUME NEW i \in Index, asked'[i] # None
                 PROVE  /\ slot'[i].id = None /\ image'[i] = {}
                        /\ i \in DOMAIN grid /\ asked'[i] = grid[i].id
      BY <1>1 DEF WaitsHidden
    <2>1. used(i)
      BY <1>3
    <2>2. CASE asks(i)
      BY <1>3, <2>1, <2>2
    <2>3. CASE ~asks(i)
      <3>1. asked[i] # None /\ slot[i].id = None
        BY <1>3, <2>1, <2>3 DEF MapInv, WaitsHidden
      <3>2. waits(i)
        BY <1>7, <2>1, <2>3, <3>1 DEF Keeps
      <3> QED
        BY <1>3, <1>8, <2>1, <2>3, <3>1, <3>2
    <2> QED
      BY <2>2, <2>3
  <1> QED
    BY <1>4, <1>5, <1>6, <1>9, <1>10 DEF MapInv

LEMMA LoadNextTileStep == MapInv /\ LoadNextTile => MapInv'
  <1> SUFFICES ASSUME MapInv, LoadNextTile PROVE MapInv'
    OBVIOUS
  <1> PICK i \in Index, good \in {Readable \cup f : f \in SUBSET Flaky} :
        /\ asked[i] # None /\ \A j \in Index : j < i => asked[j] = None
        /\ asked' = [asked EXCEPT ![i] = None]
        /\ pixels' = [pixels EXCEPT ![slot[i].buffer] = Decoded(asked[i], good, @)]
        /\ IF asked[i] \in good
           THEN /\ slot' = [slot EXCEPT ![i].id = asked[i]]
                /\ image' = [image EXCEPT ![i] = {VisibleTiles(view, 0)[i].at}]
           ELSE image' = [image EXCEPT ![i] = {}] /\ UNCHANGED slot
    BY DEF LoadNextTile
  <1>1. /\ board = "s3" /\ Index' = Index /\ Placed' = Placed /\ Placed = VisibleTiles(view, 0)
        /\ UNCHANGED <<board, view, page, dirty>>
    BY DEF LoadNextTile, viewVars, Index, Placed, VisibleTiles
  <1>2. Grids(Placed)
    BY PlacedFits DEF MapInv
  <1>3. /\ slot[i].id = None /\ image[i] = {}
        /\ i \in DOMAIN Placed /\ asked[i] = Placed[i].id /\ asked[i] \in Contents
    BY <1>1, <1>2 DEF MapInv, WaitsHidden, Grids, Contents
  <1>4. slot \in [Index -> [id : Contents, buffer : Index]] /\ DOMAIN pixels = Index
        /\ DOMAIN image = Index /\ DOMAIN asked = Index
    BY DEF MapInv, MapTypes
  <1>5. pixels'[slot[i].buffer] = Decoded(asked[i], good, pixels[slot[i].buffer])
        /\ DOMAIN pixels' = Index
        /\ \A b \in Index \ {slot[i].buffer} : pixels'[b] = pixels[b]
    BY <1>4
  <1>6. /\ DOMAIN asked' = Index /\ DOMAIN image' = Index
        /\ asked'[i] = None /\ \A j \in Index \ {i} : asked'[j] = asked[j] /\ image'[j] = image[j]
    BY <1>4
  <1>7. CASE asked[i] \in good
    <2>1. /\ slot' \in [Index -> [id : Contents, buffer : Index]]
          /\ slot'[i].id = asked[i] /\ image'[i] = {Placed[i].at}
          /\ \A j \in Index \ {i} : slot'[j] = slot[j]
          /\ \A j \in Index : slot'[j].buffer = slot[j].buffer
      BY <1>1, <1>3, <1>4, <1>7
    <2>2. pixels'[slot[i].buffer] = asked[i]
      BY <1>5, <1>7 DEF Decoded
    <2>3. MapTypes' /\ OwnBuffers'
      BY <1>1, <1>5, <1>6, <2>1 DEF MapInv, MapTypes, OwnBuffers
    <2>4. SlotsDecoded'
      BY <1>1, <1>4, <1>5, <2>1, <2>2 DEF MapInv, OwnBuffers, SlotsDecoded
    <2>5. ImagesPlaced'
      BY <1>1, <1>3, <1>6, <2>1 DEF MapInv, ImagesPlaced
    <2>6. WaitsHidden'
      BY <1>1, <1>6, <2>1 DEF MapInv, WaitsHidden
    <2> QED
      BY <2>3, <2>4, <2>5, <2>6 DEF MapInv
  <1>8. CASE asked[i] \notin good
    <2>1. slot' = slot /\ image'[i] = {}
      BY <1>4, <1>8
    <2>2. MapTypes' /\ OwnBuffers'
      BY <1>1, <1>5, <1>6, <2>1 DEF MapInv, MapTypes, OwnBuffers
    <2>3. SlotsDecoded'
      BY <1>1, <1>3, <1>4, <1>5, <2>1 DEF MapInv, OwnBuffers, SlotsDecoded
    <2>4. ImagesPlaced'
      BY <1>1, <1>6, <2>1 DEF MapInv, ImagesPlaced
    <2>5. WaitsHidden'
      BY <1>1, <1>6, <2>1 DEF MapInv, WaitsHidden
    <2> QED
      BY <2>2, <2>3, <2>4, <2>5 DEF MapInv
  <1> QED
    BY <1>7, <1>8

\* Whatever moves the view shows it at once.
LEMMA ShowStep ==
    ASSUME MapInv, board' = board, NEW v \in Views, Show(v)
    PROVE  MapInv'
  <1>1. CASE board = "p4"
    BY <1>1, UpdateP4Step DEF Show
  <1>2. CASE board # "p4"
    <2>1. board = "s3" /\ UpdateS3(v)
      BY <1>2, HubMapAssumption DEF MapInv, MapTypes, Show
    <2> QED
      BY <2>1, RefreshS3Step DEF UpdateS3
  <1> QED
    BY <1>1, <1>2

\* A step that leaves the view and the tiles.
LEMMA IdleStep == MapInv /\ board' = board /\ UNCHANGED <<viewVars, tiles>> => MapInv'
  <1> SUFFICES ASSUME MapInv, board' = board, UNCHANGED <<viewVars, tiles>> PROVE MapInv'
    OBVIOUS
  <1>1. Index' = Index /\ Placed' = Placed
    BY DEF Index, Placed, VisibleTiles, viewVars
  <1> QED
    BY <1>1
    DEF viewVars, tiles, MapInv, MapTypes, OwnBuffers, SlotsDecoded, ImagesPlaced, WaitsHidden

LEMMA ZoomByStep ==
    ASSUME MapInv, board' = board, NEW steps \in Int, ZoomBy(steps)
    PROVE  MapInv'
  <1>1. Zoomed(view, NewZoom(steps)) \in Views
    BY NewZoomRange, ZoomedView DEF MapInv, MapTypes
  <1> QED
    BY <1>1, ShowStep, IdleStep DEF ZoomBy

\* A press, a drag or a pinch, a tap.
LEMMA GestureStep == MapInv /\ Gesture => MapInv'
  <1>1. ASSUME MapInv, NEW fingers, MapPressed(fingers) PROVE MapInv'
    BY <1>1, IdleStep DEF MapPressed
  <1>2. ASSUME MapInv, NEW steps \in Int, NEW fingers, NEW far, NEW drag \in Int,
               MapPressing(steps, fingers, far, drag)
        PROVE  MapInv'
    <2>1. Panned(view, drag) \in Views
      BY <1>2, PannedView DEF MapInv, MapTypes
    <2>2. \/ ZoomBy(steps)
          \/ Show(Panned(view, drag))
          \/ UNCHANGED <<viewVars, tiles>>
      BY <1>2 DEF MapPressing
    <2>3. board' = board
      BY <1>2 DEF MapPressing
    <2> QED
      BY <1>2, <2>1, <2>2, <2>3, ZoomByStep, ShowStep, IdleStep
  <1>3. ASSUME MapInv, NEW far, NEW soon, NEW opened, NEW y \in Int, MapReleased(far, soon, opened, y)
        PROVE  MapInv'
    <2>1. CentredAndZoomed(view, y, NewZoom(1)) \in Views
      BY <1>3, NewZoomRange, CentredAndZoomedView DEF MapInv, MapTypes
    <2>2. \/ Show(CentredAndZoomed(view, y, NewZoom(1)))
          \/ UNCHANGED <<viewVars, tiles>>
      BY <1>3 DEF MapReleased
    <2>3. board' = board
      BY <1>3 DEF MapReleased
    <2> QED
      BY <1>3, <2>1, <2>2, <2>3, ShowStep, IdleStep
  <1>4. 0 \in Int /\ {-1, 0, 1} \subseteq Int /\ Landscape - 1 \in Int
    BY HubMapAssumption
  <1> SUFFICES ASSUME MapInv, Gesture PROVE MapInv'
    OBVIOUS
  <1>5. CASE \E f \in 1..2 : MapPressed(f)
    BY <1>1, <1>5
  <1>6. CASE \E s \in {-1, 1}, f \in 1..2 : MapPressing(s, f, FALSE, 0)
    <2> PICK s \in {-1, 1}, f \in 1..2 : MapPressing(s, f, FALSE, 0)
      BY <1>6
    <2>1. s \in Int
      BY <1>4
    <2> QED
      BY <1>2, <1>4, <2>1
  <1>7. CASE \E far \in BOOLEAN, d \in {-1, 0, 1} : MapPressing(0, 1, far, d)
    <2> PICK far \in BOOLEAN, d \in {-1, 0, 1} : MapPressing(0, 1, far, d)
      BY <1>7
    <2>1. d \in Int
      BY <1>4
    <2> QED
      BY <1>2, <1>4, <2>1
  <1>8. CASE MapPressing(0, 2, FALSE, 0)
    BY <1>2, <1>4, <1>8
  <1>9. CASE \E y \in {0, Landscape - 1} : MapReleased(FALSE, TRUE, FALSE, y)
    <2> PICK y \in {0, Landscape - 1} : MapReleased(FALSE, TRUE, FALSE, y)
      BY <1>9
    <2>1. y \in Int
      BY <1>4
    <2> QED
      BY <1>3, <2>1
  <1>10. CASE \/ MapReleased(FALSE, FALSE, FALSE, 0) \/ MapReleased(FALSE, FALSE, TRUE, 0)
              \/ MapReleased(TRUE, FALSE, FALSE, 0)
    BY <1>3, <1>4, <1>10
  <1> QED
    BY <1>5, <1>6, <1>7, <1>8, <1>9, <1>10 DEF Gesture

\* A rebuild of the page takes the images with it.
LEMMA RebuildStep ==
    ASSUME MapInv, NEW map \in BOOLEAN, NEW height \in {Landscape, Portrait}, Rebuild(map, height)
    PROVE  MapInv'
  <1>1. height \in Nat
    BY HubMapAssumption
  <1>2. /\ board = "p4" /\ board' = board /\ Index' = Index
        /\ view' = [view EXCEPT !.height = height]
        /\ image' = [i \in Index |-> {}]
        /\ UNCHANGED <<slot, pixels, asked>>
    BY DEF Rebuild, Rebuilt, HideAll, Index
  <1>3. view' \in Views
    BY <1>1, <1>2 DEF MapInv, MapTypes, Views
  <1> QED
    BY <1>2, <1>3
    DEF MapInv, MapTypes, OwnBuffers, SlotsDecoded, ImagesPlaced, WaitsHidden

LEMMA MapNextInv == MapInv /\ [Next]_vars => MapInv'
  <1> SUFFICES ASSUME MapInv, [Next]_vars PROVE MapInv'
    OBVIOUS
  <1>1. view \in Views
    BY DEF MapInv, MapTypes
  <1>2. CASE Gesture
    BY <1>2, GestureStep
  <1>3. ASSUME NEW s \in {-1, 1}, ZoomClicked(s) PROVE MapInv'
    <2>1. s \in Int /\ ZoomBy(s) /\ board' = board
      BY <1>3 DEF ZoomClicked
    <2> QED
      BY <2>1, ZoomByStep
  <1>4. ASSUME NEW c \in CatAt, NEW z \in MinZoom..MaxZoom, HomeClicked(c, z) PROVE MapInv'
    <2>1. c \in Int
      BY HubMapAssumption
    <2>2. [view EXCEPT !.zoom = z] \in Views
      BY <1>1 DEF Views
    <2>3. Centred([view EXCEPT !.zoom = z], c) \in Views
      BY <2>1, <2>2, CentredView
    <2> QED
      BY <1>4, <2>3, ShowStep DEF HomeClicked
  <1>5. ASSUME NEW c \in CatAt, JumpClicked(c) PROVE MapInv'
    <2>1. Centred(view, c) \in Views
      BY <1>1, HubMapAssumption, CentredView
    <2> QED
      BY <1>5, <2>1, ShowStep DEF JumpClicked
  <1>6. CASE FollowClicked
    BY <1>6, IdleStep DEF FollowClicked
  <1>7. CASE UpdateTimer
    BY <1>1, <1>7, UpdateP4Step DEF UpdateTimer
  <1>8. ASSUME NEW m \in BOOLEAN, NEW h \in {Landscape, Portrait}, Rebuild(m, h) PROVE MapInv'
    BY <1>8, RebuildStep
  <1>9. CASE LoadNextTile
    BY <1>9, LoadNextTileStep
  <1>10. CASE UNCHANGED vars
    BY <1>10, IdleStep DEF vars, viewVars, tiles
  <1> QED
    BY <1>2, <1>3, <1>4, <1>5, <1>6, <1>7, <1>8, <1>9, <1>10 DEF Next

LEMMA MapInvShows == MapInv => ShownIsRight
  <1> SUFFICES ASSUME MapInv, ~dirty, NEW i \in Index, NEW at \in image[i]
               PROVE  [id |-> pixels[slot[i].buffer], at |-> at]
                          \in {Placed[k] : k \in DOMAIN Placed}
    BY DEF ShownIsRight
  <1>1. i \in DOMAIN Placed /\ at = Placed[i].at /\ slot[i].id = Placed[i].id /\ Placed[i].id # None
    BY PlacedFits DEF MapInv, ImagesPlaced, Grids
  <1>2. pixels[slot[i].buffer] = Placed[i].id
    BY <1>1 DEF MapInv, SlotsDecoded
  <1>3. Placed[i] = [id |-> Placed[i].id, at |-> Placed[i].at]
    BY <1>1 DEF Placed, VisibleTiles
  <1> QED
    BY <1>1, <1>2, <1>3

\* The map shows nothing wrong: for every layer, view and number of slots, whatever
\* files decode, an image that is not hidden shows the tile whose place it has, however
\* the view came there (refresh_map_tiles, refresh_tiles, load_next_tile).
THEOREM MapShowsRight == Spec => []ShownIsRight
  <1>1. Init => MapInv
    BY MapInitInv
  <1>2. MapInv /\ [Next]_vars => MapInv'
    BY MapNextInv
  <1>3. MapInv => ShownIsRight
    BY MapInvShows
  <1> QED
    BY <1>1, <1>2, <1>3, PTL DEF Spec
-----------------------------------------------------------------------------
(* Nothing blank on the map.  A refresh that needs no other tile moves the  *)
(* images it finds, hidden ones included, so what was hidden must be out of *)
(* view: that takes the margin, and a first slot that tells where the grid  *)
(* starts.                                                                 *)

\* The rows of a view, and the row of the first place of its grid.
FirstRow(v) == Top(v) \div Tile
LastRow(v) == (Top(v) + v.height - 1) \div Tile
Lowest(v, over) == IF FirstRow(v) - over < 0 THEN 0 ELSE FirstRow(v) - over

\* The views the map really has: their centre is in the world.
WorldViews == {v \in Views : v.height \in {Landscape, Portrait} /\ v.center \in 0..WorldSize(v.zoom)}

\* Halves of whole numbers, rounded down.
LEMMA HalfOf == \A a \in Int : a \div 2 \in Int /\ 2 * (a \div 2) <= a /\ a <= 2 * (a \div 2) + 1
  OBVIOUS

\* A view spans at most half its height and one row, and meets the world.
LEMMA RowsOfViews ==
    ASSUME NEW v \in WorldViews
    PROVE  /\ v.zoom \in Int /\ v.height \in Nat \ {0} /\ Rows(v.zoom) \in Nat \ {0} /\ Top(v) \in Int
           /\ FirstRow(v) \in Int /\ LastRow(v) \in Int
           /\ LastRow(v) <= FirstRow(v) + (v.height \div 2)
           /\ FirstRow(v) + ((v.height - 1) \div 2) <= LastRow(v)
           /\ v.height \div 2 <= ((v.height - 1) \div 2) + 1
           /\ 0 <= LastRow(v) /\ FirstRow(v) <= Rows(v.zoom)
           /\ FirstRow(v) <= LastRow(v) + 1
  <1>1. /\ v.zoom \in Int /\ v.height \in Nat \ {0} /\ v.center \in Int
        /\ 0 <= v.center /\ v.center <= 2 * Rows(v.zoom)
    BY HubMapAssumption DEF WorldViews, Views, WorldSize, Rows, Tile
  <1>2. Rows(v.zoom) \in Nat \ {0}
    <2>1. TopRows \in Nat \ {0} /\ Scale[v.zoom] \in Nat \ {0}
      BY HubMapAssumption DEF WorldViews, Views
    <2> QED
      BY <2>1 DEF Rows
  <1> DEFINE h == v.height
             t == Top(v)
             c == v.center
             rows == Rows(v.zoom)
  <1>3. t = c - (h \div 2) /\ FirstRow(v) = t \div 2 /\ LastRow(v) = (t + h - 1) \div 2
    BY DEF Top, FirstRow, LastRow, Tile
  <1> HIDE DEF h, t, c, rows
  <1>4. h \in Nat \ {0} /\ c \in Int /\ 0 <= c /\ c <= 2 * rows /\ rows \in Nat \ {0}
    BY <1>1, <1>2 DEF h, c, rows
  <1>5. t \in Int /\ t + h - 1 \in Int
    BY <1>3, <1>4, HalfOf
  <1> DEFINE half == h \div 2
             f == FirstRow(v)
             l == LastRow(v)
             part == (h - 1) \div 2
  <1>6. /\ part \in Int /\ 2 * part <= h - 1 /\ h - 1 <= 2 * part + 1
        /\ half \in Int /\ 2 * half <= h /\ h <= 2 * half + 1
        /\ f \in Int /\ 2 * f <= t /\ t <= 2 * f + 1
        /\ l \in Int /\ 2 * l <= t + h - 1 /\ t + h - 1 <= 2 * l + 1
        /\ t = c - half
    BY <1>3, <1>4, <1>5, HalfOf
  <1> HIDE DEF half, f, l, part
  <1>7. l <= f + half /\ f + part <= l /\ half <= part + 1 /\ 0 <= l /\ f <= rows /\ f <= l + 1
    BY <1>4, <1>5, <1>6
  <1> QED
    BY <1>1, <1>2, <1>5, <1>6, <1>7 DEF h, t, c, rows, half, part, f, l

\* The grid of the Home Hub holds every row of the view and of its margin that the
\* world has: the images never run out.
LEMMA GridRows ==
    ASSUME board = "p4", "p4" \in Boards, NEW v \in WorldViews, NEW over \in {0, 1}
    PROVE  LET grid == VisibleTiles(v, over)
           IN  /\ \A i \in Int : LET row == Lowest(v, over) + i - 1
                                 IN  i \in DOMAIN grid <=> /\ 1 <= i /\ row <= Rows(v.zoom) - 1
                                                           /\ row <= LastRow(v) + over
               /\ \A i \in DOMAIN grid : /\ i \in Int
                                         /\ grid[i].id = <<v.zoom, Lowest(v, over) + i - 1>>
                                         /\ grid[i].at = Tile * (Lowest(v, over) + i - 1) - Top(v)
  <1> DEFINE first == FirstRow(v) - over
             last == LastRow(v) + over
             low == Clamp(first, 0, Rows(v.zoom))
             high == Clamp(last, -1, Rows(v.zoom) - 1)
             n == Clamp(high - low + 1, 0, Slots[board])
             grid == VisibleTiles(v, over)
             lowest == Lowest(v, over)
             rows == Rows(v.zoom)
             many == Slots[board]
  <1>1. grid = [i \in 1..n |-> [id |-> <<v.zoom, low + i - 1>>,
                                at |-> Tile * (low + i - 1) - Top(v)]]
    BY DEF VisibleTiles, FirstRow, LastRow
  <1>2. /\ rows \in Nat \ {0} /\ first \in Int /\ last \in Int /\ many \in Nat
        /\ last - first + 1 <= many /\ first <= last + 1 /\ 0 <= last /\ first <= rows
    <2>1. Slots["p4"] \in Nat /\ (v.height \div 2) + 3 <= Slots["p4"]
      BY HubMapAssumption, MapSlotsAssumption DEF WorldViews
    <2>2. v.height \div 2 \in Int
      BY RowsOfViews, HalfOf
    <2> QED
      BY <2>1, <2>2, RowsOfViews
  <1>3. lowest = IF first < 0 THEN 0 ELSE first
    BY DEF Lowest
  <1> HIDE DEF first, last, rows, many, grid, lowest
  <1>4. /\ low = lowest /\ low \in Int /\ n \in Nat
        /\ \A i \in Int : i \in 1..n <=> 1 <= i /\ low + i - 1 <= rows - 1 /\ low + i - 1 <= last
    BY <1>2, <1>3 DEF Clamp, rows, many
  <1> HIDE DEF low, n
  <1>5. DOMAIN grid = 1..n
    BY <1>1
  <1> QED
    BY <1>1, <1>4, <1>5 DEF last, rows, grid, lowest

\* Home Hub: once the first slot has a tile below the northern edge, the tiles that
\* follow it in the slots, as far as a view that starts there reaches with its margin,
\* are shown: a grid that needs no other tile leaves the images, and none of them hidden.
ShownBlock ==
    board = "p4" /\ page /\ bound /\ card =>
        \A z \in MinZoom..MaxZoom : \A low \in 1..Rows(z) : \A i \in Index :
            /\ slot[1].id = <<z, low>> /\ slot[i].id = <<z, low + i - 1>>
            /\ low + i - 1 <= Rows(z) - 1
            /\ i <= 3 + ((view.height - 1) \div 2)
            => image[i] # {}

\* Home Hub: what is in view is shown, one place further in the grid with the margin.
Current ==
    board = "p4" /\ page /\ card /\ ~dirty /\ ~Northernmost =>
        \A k \in DOMAIN VisibleTiles(view, 0) :
            VisibleTiles(view, 0)[k].id \in Readable => image[k + 1] # {}

\* A refresh of the Home Hub's map shows every tile in view that can be decoded.
LEMMA RefreshP4Shows ==
    ASSUME MapInv, ShownBlock, board = "p4", board' = board,
           NEW v \in WorldViews, view' = v, v.height = view.height,
           NEW good, Readable \subseteq good, RefreshP4(v, good),
           page, page' = page, card, card' = card
    PROVE  ShownBlock' /\ Current'
  <1> DEFINE grid == VisibleTiles(v, Overscan)
             changed == Rebinds(grid)
             moved == IF changed THEN Reordered(slot, grid) ELSE slot
             stale == {i \in DOMAIN grid : moved[i].id # grid[i].id}
             failed == {i \in stale : grid[i].id \notin good}
             lowest == Lowest(v, 1)
             rows == Rows(v.zoom)
  <1>1. Grids(grid) /\ Index' = Index /\ "p4" \in Boards
    BY TilesFit DEF MapInv, MapTypes, Overscan, WorldViews, Index
  <1>2. /\ \A i \in Int : i \in DOMAIN grid <=> /\ 1 <= i /\ lowest + i - 1 <= rows - 1
                                               /\ lowest + i - 1 <= LastRow(v) + 1
        /\ \A i \in DOMAIN grid : i \in Int /\ grid[i].id = <<v.zoom, lowest + i - 1>>
    BY <1>1, GridRows DEF Overscan
  <1>3. /\ v.zoom \in MinZoom..MaxZoom /\ rows \in Nat \ {0} /\ LastRow(v) \in Int
        /\ FirstRow(v) \in Int /\ FirstRow(v) <= rows
        /\ 0 <= LastRow(v) /\ FirstRow(v) <= LastRow(v) + 1
        /\ FirstRow(v) + ((v.height - 1) \div 2) <= LastRow(v)
        /\ LastRow(v) <= FirstRow(v) + ((v.height - 1) \div 2) + 1
        /\ v.height \in Nat /\ (v.height - 1) \div 2 \in Int
    BY RowsOfViews, HalfOf DEF WorldViews, Views
  <1>4. lowest = (IF FirstRow(v) - 1 < 0 THEN 0 ELSE FirstRow(v) - 1)
    BY DEF Lowest
  <1>5. Leaves(grid, changed, moved, stale, good)
    <2> HIDE DEF grid
    <2> QED
      BY RefreshP4Is DEF grid
  <1>6. \A i \in Index : moved[i] \in [id : Contents, buffer : Index]
    <2>1. moved = Reordered(slot, grid) \/ moved = slot
      OBVIOUS
    <2> HIDE DEF moved, grid
    <2> QED
      BY <1>1, <2>1, ReorderedSlots DEF MapInv
  <1> HIDE DEF grid, changed, moved, lowest, rows
  <1>7. \A i \in DOMAIN grid : i \in Index /\ grid[i].id # None /\ grid[i].id \in Contents
    BY <1>1 DEF Grids, Contents
  <1>8. \A i \in DOMAIN grid :
            /\ slot'[i].id = (IF i \in failed THEN None ELSE grid[i].id)
            /\ image'[i] = IF i \in failed THEN {}
                           ELSE IF changed THEN {grid[i].at} ELSE Moved(image[i], grid[i].at)
    <2> SUFFICES ASSUME NEW i \in DOMAIN grid
                 PROVE  /\ slot'[i].id = (IF i \in failed THEN None ELSE grid[i].id)
                        /\ image'[i] = IF i \in failed THEN {}
                             ELSE IF changed THEN {grid[i].at} ELSE Moved(image[i], grid[i].at)
      OBVIOUS
    <2>1. /\ slot'[i] = IF i \in failed THEN [moved[i] EXCEPT !.id = None]
                        ELSE IF i \in stale THEN [moved[i] EXCEPT !.id = grid[i].id] ELSE moved[i]
          /\ image'[i] = IF i \notin DOMAIN grid \ failed THEN {}
                         ELSE IF changed THEN {grid[i].at} ELSE Moved(image[i], grid[i].at)
      <3> HIDE DEF stale
      <3> QED
        BY <1>5, <1>7 DEF Leaves
    <2>2. moved[i] \in [id : Contents, buffer : Index]
      BY <1>6, <1>7
    <2>3. i \notin stale => moved[i].id = grid[i].id
      OBVIOUS
    <2> HIDE DEF stale, failed
    <2> QED
      BY <2>1, <2>2, <2>3
  <1>9. 1 \in DOMAIN grid /\ grid[1].id = <<v.zoom, lowest>>
    BY <1>2, <1>3, <1>4
  <1>10. ~changed => /\ bound /\ moved = slot /\ \A i \in DOMAIN grid : slot[i].id = grid[i].id
    BY DEF changed, moved, Rebinds
  <1>11. changed => \A i \in DOMAIN grid : image'[i] = {} => i \in failed
    <2> HIDE DEF failed
    <2> QED
      BY <1>8
  <1>12. ~changed => \A i \in DOMAIN grid : image'[i] = {} => image[i] = {}
    <2>1. ~changed => failed = {}
      BY <1>10
    <2> QED
      BY <1>8, <2>1 DEF Moved
  <1>13. ~changed => \A low \in 1..rows : \A i \in DOMAIN grid :
               /\ slot[1].id = <<v.zoom, low>> /\ slot[i].id = <<v.zoom, low + i - 1>>
               /\ low + i - 1 <= rows - 1
               /\ i <= 3 + ((v.height - 1) \div 2)
               => image'[i] # {}
    BY <1>3, <1>7, <1>10, <1>12 DEF ShownBlock, rows
  <1>14. ShownBlock'
    <2> SUFFICES ASSUME NEW z \in MinZoom..MaxZoom, NEW low \in 1..Rows(z), NEW i \in Index,
                        slot'[1].id = <<z, low>>, slot'[i].id = <<z, low + i - 1>>,
                        low + i - 1 <= Rows(z) - 1,
                        i <= 3 + ((v.height - 1) \div 2)
                 PROVE  image'[i] # {}
      BY <1>1 DEF ShownBlock, Rows
    <2>1. slot'[1].id # None /\ slot'[i].id # None
      BY TilesAreNoNone
    <2>2. slot'[1].id = grid[1].id
      <3> HIDE DEF failed
      <3> QED
        BY <1>8, <1>9, <2>1
    <2>3. z = v.zoom /\ low = lowest
      BY <1>9, <2>2
    <2>4. low \in 1..rows /\ low = FirstRow(v) - 1 /\ low + i - 1 <= rows - 1 /\ i \in Int /\ 1 <= i
      <3>1. Rows(z) = rows /\ i \in Int /\ 1 <= i /\ low >= 1
        BY <1>3, <2>3 DEF rows, Index
      <3> QED
        BY <1>3, <1>4, <2>3, <3>1
    <2>5. i \in DOMAIN grid
      BY <1>2, <1>3, <2>3, <2>4
    <2>6. i \notin failed
      <3> HIDE DEF failed
      <3> QED
        BY <1>8, <2>1, <2>5
    <2>7. CASE changed
      BY <1>11, <2>5, <2>6, <2>7
    <2>8. CASE ~changed
      <3>1. slot[1].id = <<v.zoom, low>> /\ slot[i].id = <<v.zoom, low + i - 1>>
        BY <1>2, <1>9, <1>10, <2>3, <2>5, <2>8
      <3> QED
        BY <1>13, <2>4, <2>5, <2>8, <3>1
    <2> QED
      BY <2>7, <2>8
  <1>15. Current'
    <2> DEFINE seen == VisibleTiles(v, 0)
    <2> SUFFICES ASSUME ~(FirstRow(v) < 2), NEW k \in DOMAIN seen, seen[k].id \in Readable
                 PROVE  image'[k + 1] # {}
      BY DEF Current, Northernmost, FirstRow, Top, VisibleTiles
    <2>1. /\ k \in Int /\ 1 <= k /\ FirstRow(v) + k - 1 <= rows - 1
          /\ FirstRow(v) + k - 1 <= LastRow(v)
          /\ seen[k].id = <<v.zoom, FirstRow(v) + k - 1>>
      <3>1. Lowest(v, 0) = FirstRow(v)
        BY <1>3 DEF Lowest
      <3>2. /\ k \in Int /\ seen[k].id = <<v.zoom, Lowest(v, 0) + k - 1>>
            /\ 1 <= k /\ Lowest(v, 0) + k - 1 <= rows - 1 /\ Lowest(v, 0) + k - 1 <= LastRow(v) + 0
        BY <1>1, GridRows DEF rows
      <3> QED
        BY <1>3, <3>1, <3>2
    <2>2. lowest = FirstRow(v) - 1 /\ lowest \in 1..rows
      BY <1>3, <1>4, <2>1
    <2>3. k + 1 \in DOMAIN grid /\ grid[k + 1].id = <<v.zoom, lowest + (k + 1) - 1>>
      BY <1>2, <1>3, <2>1, <2>2
    <2>4. grid[k + 1].id = seen[k].id
      BY <1>3, <2>1, <2>2, <2>3
    <2>5. CASE changed
      BY <1>11, <2>3, <2>4, <2>5
    <2>6. CASE ~changed
      <3>1. slot[1].id = <<v.zoom, lowest>> /\ slot[k + 1].id = <<v.zoom, lowest + (k + 1) - 1>>
        BY <1>9, <1>10, <2>3, <2>6
      <3>2. lowest + (k + 1) - 1 <= rows - 1 /\ k + 1 <= 3 + ((v.height - 1) \div 2)
        BY <1>3, <2>1, <2>2
      <3> QED
        BY <1>13, <2>2, <2>3, <2>6, <3>1, <3>2
    <2> QED
      BY <2>5, <2>6
  <1> QED
    BY <1>14, <1>15

\* Of a quotient and of a product of bounded numbers.
LEMMA ShareOf ==
    ASSUME NEW a \in Int, NEW q \in Nat, NEW b \in Nat \ {0}, 0 <= a, a <= q * b
    PROVE  a \div b \in 0..q
  <1>1. a \div b \in Int /\ 0 <= a \div b
    OBVIOUS
  <1>2. a \div b <= q
    OBVIOUS
  <1> QED
    BY <1>1, <1>2

LEMMA SameFactor ==
    ASSUME NEW a \in Nat, NEW b \in Nat, NEW s \in Nat, a <= b
    PROVE  a * s \in Nat /\ a * s <= b * s
  OBVIOUS

\* The engine keeps the centre in the world.
LEMMA CentredInWorld ==
    ASSUME NEW v \in Views, v.height \in {Landscape, Portrait}, NEW at \in CatAt
    PROVE  Centred(v, at) \in WorldViews /\ Centred(v, at).height = v.height
  <1> DEFINE s == Scale[v.zoom]
             t == 2 * TopRows
             w == Centred(v, at)
  <1>1. s \in Nat /\ t \in Nat /\ at \in 0..t
    BY HubMapAssumption DEF Views
  <1>2. WorldSize(v.zoom) = t * s
    BY HubMapAssumption, <1>1 DEF WorldSize, Rows, Tile
  <1>3. w = [zoom |-> v.zoom, center |-> at * s, height |-> v.height] /\ v.zoom \in MinZoom..MaxZoom
        /\ v.height \in Nat
    BY DEF Centred, Views
  <1> HIDE DEF s, t
  <1>4. at * s \in Int /\ at * s \in 0..(t * s)
    BY <1>1, SameFactor
  <1> QED
    BY <1>2, <1>3, <1>4 DEF WorldViews, Views

LEMMA ZoomedInWorld ==
    ASSUME NEW v \in WorldViews, NEW z \in MinZoom..MaxZoom
    PROVE  Zoomed(v, z) \in WorldViews /\ Zoomed(v, z).height = v.height
  <1> DEFINE b == Scale[v.zoom]
             s == Scale[z]
             t == 2 * TopRows
             c == v.center
  <1>1. b \in Nat \ {0} /\ s \in Nat /\ t \in Nat
    BY HubMapAssumption DEF WorldViews, Views
  <1>2. WorldSize(v.zoom) = t * b /\ WorldSize(z) = t * s
    BY HubMapAssumption, <1>1 DEF WorldSize, Rows, Tile
  <1>3. c \in 0..(t * b)
    BY <1>2 DEF WorldViews
  <1>4. Zoomed(v, z) = [zoom |-> z, center |-> (c * s) \div b, height |-> v.height]
        /\ v.height \in Nat /\ v.height \in {Landscape, Portrait}
    <2> DEFINE q == (c * s) \div b
    <2>1. Zoomed(v, z) = [v EXCEPT !.zoom = z, !.center = q]
      BY DEF Zoomed
    <2> HIDE DEF q
    <2> QED
      BY <2>1 DEF q, WorldViews, Views
  <1> HIDE DEF b, s, t, c
  <1>5. c \in Nat /\ t * b \in Nat /\ c <= t * b
    BY <1>1, <1>3
  <1>6. c * s \in Nat /\ c * s <= (t * b) * s
    BY <1>1, <1>5, SameFactor
  <1>7. (t * b) * s = (t * s) * b /\ t * s \in Nat
    BY <1>1
  <1>8. (c * s) \div b \in 0..(t * s)
    BY <1>1, <1>6, <1>7, ShareOf
  <1> QED
    BY <1>2, <1>4, <1>8 DEF WorldViews, Views

LEMMA PannedInWorld ==
    ASSUME NEW v \in WorldViews, NEW drag \in Int
    PROVE  Panned(v, drag) \in WorldViews /\ Panned(v, drag).height = v.height
  <1>1. WorldSize(v.zoom) \in Nat
    BY RowsOfViews DEF WorldSize, Tile
  <1>2. Clamp(v.center - drag, 0, WorldSize(v.zoom)) \in 0..WorldSize(v.zoom)
    BY <1>1 DEF Clamp, WorldViews, Views
  <1> QED
    BY <1>2 DEF Panned, WorldViews, Views

LEMMA CentredAndZoomedInWorld ==
    ASSUME NEW v \in WorldViews, NEW y \in Int, NEW z \in MinZoom..MaxZoom
    PROVE  CentredAndZoomed(v, y, z) \in WorldViews /\ CentredAndZoomed(v, y, z).height = v.height
  <1>1. (v.height \div 2) - y \in Int
    BY DEF WorldViews, Views
  <1>2. Panned(v, (v.height \div 2) - y) \in WorldViews
        /\ Panned(v, (v.height \div 2) - y).height = v.height
    BY <1>1, PannedInWorld
  <1> QED
    BY <1>2, ZoomedInWorld DEF CentredAndZoomed

\* S3: a tile of the view that can be decoded is asked for, or in its slot and shown.
AskedOrShown ==
    board = "s3" /\ card =>
        \A i \in DOMAIN Placed : Placed[i].id \in Readable =>
            \/ asked[i] = Placed[i].id
            \/ slot[i].id = Placed[i].id /\ image[i] = {Placed[i].at}

\* What nothing blank rests on, beside MapInv.
NoBlanks == view \in WorldViews /\ ShownBlock /\ Current /\ AskedOrShown

\* The steps that move the view, update it, rebuild the page or decode a tile.
LEMMA UpdateP4Shows ==
    ASSUME MapInv, NoBlanks, board = "p4", board' = board, NEW v \in WorldViews,
           v.height = view.height, NEW changed \in BOOLEAN, changed \/ v = view, UpdateP4(v, changed)
    PROVE  NoBlanks'
  <1> PICK where \in CatAt, good \in {Readable \cup f : f \in SUBSET Flaky} :
      LET w == IF followed THEN Centred(v, where) ELSE v
          soiled == changed \/ dirty \/ followed
      IN  /\ view' = w
          /\ UNCHANGED <<page, card>>
          /\ IF soiled /\ page /\ card THEN RefreshP4(w, good)
             ELSE IF soiled /\ page
                  THEN /\ image' = HideAll /\ dirty' = FALSE
                       /\ UNCHANGED <<slot, pixels, asked, bound>>
                  ELSE /\ dirty' = soiled /\ UNCHANGED <<bound, slot, pixels, image, asked>>
    BY DEF UpdateP4
  <1> DEFINE w == IF followed THEN Centred(v, where) ELSE v
             soiled == changed \/ dirty \/ followed
  <1>1. w \in WorldViews /\ w.height = view.height /\ WorldViews' = WorldViews
    BY CentredInWorld DEF WorldViews
  <1>2. view' \in WorldViews'
    BY <1>1
  <1>3. AskedOrShown'
    BY DEF AskedOrShown
  <1>4. CASE soiled /\ page /\ card
    <2>1. RefreshP4(w, good) /\ view' = w /\ page' = page /\ card' = card /\ Readable \subseteq good
      BY <1>4
    <2> HIDE DEF w
    <2>2. ShownBlock' /\ Current'
      BY <1>1, <1>4, <2>1, RefreshP4Shows DEF NoBlanks
    <2> QED
      BY <1>2, <1>3, <2>2 DEF NoBlanks
  <1>5. CASE soiled /\ page /\ ~card
    <2>1. ~card'
      BY <1>5
    <2> QED
      BY <1>2, <1>3, <2>1 DEF NoBlanks, ShownBlock, Current
  <1>6. CASE soiled /\ ~page
    <2>1. ~page'
      BY <1>6
    <2> QED
      BY <1>2, <1>3, <2>1 DEF NoBlanks, ShownBlock, Current
  <1>7. CASE ~soiled
    <2>1. UNCHANGED <<board, view, page, card, bound, slot, image>> /\ ~dirty
      BY <1>7
    <2> QED
      BY <1>2, <1>3, <2>1
      DEF NoBlanks, ShownBlock, Current, Northernmost, VisibleTiles, Index
  <1> QED
    BY <1>4, <1>5, <1>6, <1>7

LEMMA UpdateS3Shows ==
    ASSUME MapInv, board = "s3", board' = board, NEW v \in WorldViews, UpdateS3(v)
    PROVE  NoBlanks'
  <1> PICK there \in BOOLEAN : view' = v /\ RefreshS3(v, there)
    BY DEF UpdateS3
  <1> DEFINE grid == VisibleTiles(v, 0)
  <1>1. view' \in WorldViews' /\ ShownBlock' /\ Current'
    BY DEF WorldViews, ShownBlock, Current
  <1>2. Placed' = grid /\ Grids(grid)
    BY TilesFit DEF Placed, VisibleTiles, MapInv, MapTypes, WorldViews
  <1>3. ASSUME card', NEW i \in DOMAIN grid
        PROVE  asked'[i] = grid[i].id \/ (slot'[i].id = grid[i].id /\ image'[i] = {grid[i].at})
    <2>1. i \in Index /\ there /\ slot[i] \in [id : Contents, buffer : Index]
      BY <1>2, <1>3 DEF Grids, RefreshS3, MapInv, MapTypes
    <2>2. CASE Keeps(i, grid[i].id)
      BY <1>3, <2>1, <2>2 DEF RefreshS3, Keeps
    <2>3. CASE ~Keeps(i, grid[i].id)
      BY <1>3, <2>1, <2>3 DEF RefreshS3
    <2> QED
      BY <2>2, <2>3
  <1> HIDE DEF grid
  <1>4. AskedOrShown'
    BY <1>2, <1>3 DEF AskedOrShown
  <1> QED
    BY <1>1, <1>4 DEF NoBlanks

LEMMA LoadNextTileShows ==
    ASSUME MapInv, NoBlanks, LoadNextTile
    PROVE  NoBlanks'
  <1> PICK i \in Index, good \in {Readable \cup f : f \in SUBSET Flaky} :
        /\ asked[i] # None /\ \A j \in Index : j < i => asked[j] = None
        /\ asked' = [asked EXCEPT ![i] = None]
        /\ pixels' = [pixels EXCEPT ![slot[i].buffer] = Decoded(asked[i], good, @)]
        /\ IF asked[i] \in good
           THEN /\ slot' = [slot EXCEPT ![i].id = asked[i]]
                /\ image' = [image EXCEPT ![i] = {VisibleTiles(view, 0)[i].at}]
           ELSE image' = [image EXCEPT ![i] = {}] /\ UNCHANGED slot
    BY DEF LoadNextTile
  <1>1. /\ board = "s3" /\ board' = "s3" /\ Placed' = Placed /\ Placed = VisibleTiles(view, 0)
        /\ UNCHANGED <<view, card>> /\ Grids(Placed)
    BY PlacedFits DEF LoadNextTile, viewVars, Placed, VisibleTiles, MapInv
  <1>2. view' \in WorldViews' /\ ShownBlock' /\ Current'
    BY <1>1 DEF NoBlanks, WorldViews, ShownBlock, Current
  <1>3. /\ slot \in [Index -> [id : Contents, buffer : Index]]
        /\ DOMAIN image = Index /\ DOMAIN asked = Index /\ asked[i] = Placed[i].id
        /\ Readable \subseteq good
    BY <1>1 DEF MapInv, MapTypes, WaitsHidden
  <1>4. ASSUME card, NEW k \in DOMAIN Placed, Placed[k].id \in Readable
        PROVE  \/ asked'[k] = Placed[k].id
               \/ slot'[k].id = Placed[k].id /\ image'[k] = {Placed[k].at}
    <2>1. k \in Index
      BY <1>1 DEF Grids
    <2>2. CASE k = i
      <3>1. asked[i] \in good
        BY <1>3, <1>4, <2>2
      <3> QED
        BY <1>1, <1>3, <2>1, <2>2, <3>1
    <2>3. CASE k # i
      <3>1. asked'[k] = asked[k] /\ image'[k] = image[k] /\ slot'[k] = slot[k]
        BY <1>3, <2>1, <2>3
      <3> QED
        BY <1>1, <1>4, <3>1 DEF NoBlanks, AskedOrShown
    <2> QED
      BY <2>2, <2>3
  <1>5. AskedOrShown'
    BY <1>1, <1>4 DEF AskedOrShown
  <1> QED
    BY <1>2, <1>5 DEF NoBlanks

LEMMA RebuildShows ==
    ASSUME MapInv, NoBlanks, NEW map \in BOOLEAN, NEW height \in {Landscape, Portrait},
           Rebuild(map, height)
    PROVE  NoBlanks'
  <1>1. height \in Nat
    BY HubMapAssumption
  <1>2. view' \in WorldViews'
    BY <1>1 DEF Rebuild, NoBlanks, WorldViews, Views
  <1> QED
    BY <1>2 DEF Rebuild, Rebuilt, NoBlanks, ShownBlock, Current, AskedOrShown

\* Every step of the map shows a view of the world, updates the one there is, rebuilds
\* the page, decodes a tile, or leaves view and tiles alone.
LEMMA MapMoves ==
    ASSUME MapTypes, view \in WorldViews, [Next]_vars
    PROVE  \/ board' = board /\ \E v \in WorldViews : v.height = view.height /\ Show(v)
           \/ UpdateTimer
           \/ \E m \in BOOLEAN, h \in {Landscape, Portrait} : Rebuild(m, h)
           \/ LoadNextTile
           \/ board' = board /\ UNCHANGED <<viewVars, tiles>>
  <1> DEFINE Goal == \/ board' = board /\ \E v \in WorldViews : v.height = view.height /\ Show(v)
                     \/ UpdateTimer
                     \/ \E m \in BOOLEAN, h \in {Landscape, Portrait} : Rebuild(m, h)
                     \/ LoadNextTile
                     \/ board' = board /\ UNCHANGED <<viewVars, tiles>>
  <1>1. ASSUME NEW steps \in Int, ZoomBy(steps), board' = board PROVE Goal
    <2>1. Zoomed(view, NewZoom(steps)) \in WorldViews
          /\ Zoomed(view, NewZoom(steps)).height = view.height
      BY NewZoomRange, ZoomedInWorld
    <2> QED
      BY <1>1, <2>1 DEF ZoomBy
  <1>2. ASSUME NEW steps \in Int, NEW fingers, NEW far, NEW drag \in Int,
               MapPressing(steps, fingers, far, drag)
        PROVE  Goal
    <2>1. Panned(view, drag) \in WorldViews /\ Panned(view, drag).height = view.height
      BY PannedInWorld
    <2>2. \/ ZoomBy(steps)
          \/ Show(Panned(view, drag))
          \/ UNCHANGED <<viewVars, tiles>>
      BY <1>2 DEF MapPressing
    <2>3. board' = board
      BY <1>2 DEF MapPressing
    <2> QED
      BY <1>1, <2>1, <2>2, <2>3
  <1>3. ASSUME NEW far, NEW soon, NEW opened, NEW y \in Int, MapReleased(far, soon, opened, y)
        PROVE  Goal
    <2>1. CentredAndZoomed(view, y, NewZoom(1)) \in WorldViews
          /\ CentredAndZoomed(view, y, NewZoom(1)).height = view.height
      BY NewZoomRange, CentredAndZoomedInWorld
    <2> QED
      BY <1>3, <2>1 DEF MapReleased
  <1>4. ASSUME NEW f, MapPressed(f) PROVE Goal
    BY <1>4 DEF MapPressed
  <1>5. ASSUME Gesture PROVE Goal
    <2>1. /\ 0 \in Int /\ {-1, 0, 1} \subseteq Int /\ {-1, 1} \subseteq Int
          /\ {0, Landscape - 1} \subseteq Int
      BY HubMapAssumption
    <2> HIDE DEF Goal
    <2> QED
      BY <1>2, <1>3, <1>4, <1>5, <2>1 DEF Gesture
  <1>6. ASSUME NEW s \in {-1, 1}, ZoomClicked(s) PROVE Goal
    BY <1>1, <1>6 DEF ZoomClicked
  <1>7. ASSUME NEW c \in CatAt, NEW z \in MinZoom..MaxZoom, HomeClicked(c, z) PROVE Goal
    <2> DEFINE v == [view EXCEPT !.zoom = z]
    <2>1. v \in Views /\ v.height = view.height /\ v.height \in {Landscape, Portrait}
      BY DEF WorldViews, Views
    <2> HIDE DEF v
    <2>2. Centred(v, c) \in WorldViews /\ Centred(v, c).height = view.height
      BY <2>1, CentredInWorld
    <2> QED
      BY <1>7, <2>2 DEF HomeClicked, v
  <1>8. ASSUME NEW c \in CatAt, JumpClicked(c) PROVE Goal
    <2>1. Centred(view, c) \in WorldViews /\ Centred(view, c).height = view.height
      BY CentredInWorld DEF WorldViews
    <2> QED
      BY <1>8, <2>1 DEF JumpClicked
  <1>9. CASE FollowClicked
    BY <1>9 DEF FollowClicked
  <1>10. CASE UNCHANGED vars
    BY <1>10 DEF vars, viewVars, tiles
  <1> QED
    BY <1>5, <1>6, <1>7, <1>8, <1>9, <1>10 DEF Next

LEMMA NoBlanksStep == MapInv /\ NoBlanks /\ [Next]_vars => NoBlanks'
  <1> SUFFICES ASSUME MapInv, NoBlanks, [Next]_vars PROVE NoBlanks'
    OBVIOUS
  <1>1. ASSUME NEW v \in WorldViews, v.height = view.height, Show(v), board' = board
        PROVE  NoBlanks'
    <2>1. CASE board = "p4"
      BY <1>1, <2>1, UpdateP4Shows DEF Show
    <2>2. CASE board # "p4"
      <3>1. board = "s3" /\ UpdateS3(v)
        BY <1>1, <2>2, HubMapAssumption DEF MapInv, MapTypes, Show
      <3> QED
        BY <1>1, <3>1, UpdateS3Shows
    <2> QED
      BY <2>1, <2>2
  <1>2. CASE UpdateTimer
    BY <1>2, UpdateP4Shows DEF UpdateTimer, NoBlanks
  <1>3. ASSUME NEW m \in BOOLEAN, NEW h \in {Landscape, Portrait}, Rebuild(m, h) PROVE NoBlanks'
    BY <1>3, RebuildShows
  <1>4. CASE LoadNextTile
    BY <1>4, LoadNextTileShows
  <1>5. CASE board' = board /\ UNCHANGED <<viewVars, tiles>>
    BY <1>5
    DEF viewVars, tiles, NoBlanks, WorldViews, ShownBlock, Current, AskedOrShown, Northernmost,
        Placed, VisibleTiles, Index
  <1> QED
    BY <1>1, <1>2, <1>3, <1>4, <1>5, MapMoves DEF MapInv, NoBlanks

LEMMA NoBlanksInit == Init => NoBlanks
  <1> SUFFICES ASSUME Init PROVE NoBlanks
    OBVIOUS
  <1> PICK z \in MinZoom..MaxZoom, c \in CatAt :
             view = [zoom |-> z, center |-> c * Scale[z], height |-> Landscape]
    BY DEF Init
  <1>1. view \in WorldViews
    <2> DEFINE v == [zoom |-> z, center |-> c, height |-> Landscape]
    <2>1. v \in Views /\ v.height \in {Landscape, Portrait} /\ Centred(v, c) = view
      BY HubMapAssumption DEF Views, Centred
    <2> HIDE DEF v
    <2> QED
      BY <2>1, CentredInWorld
  <1>2. CASE board = "p4"
    <2>1. dirty /\ ~bound
      BY <1>2 DEF Init
    <2> QED
      BY <1>1, <1>2, <2>1 DEF NoBlanks, ShownBlock, Current, AskedOrShown
  <1>3. CASE board # "p4"
    <2>1. ~card
      BY <1>3 DEF Init
    <2> QED
      BY <1>1, <1>3, <2>1 DEF NoBlanks, ShownBlock, Current, AskedOrShown
  <1> QED
    BY <1>2, <1>3

LEMMA NoBlanksShows == MapInv /\ NoBlanks => VisibleShown
  <1> SUFFICES ASSUME MapInv, NoBlanks, Settled, ~Northernmost, NEW k \in DOMAIN VisibleTiles(view, 0),
                      VisibleTiles(view, 0)[k].id \in Readable
               PROVE  \E i \in Index : /\ image[i] = {VisibleTiles(view, 0)[k].at}
                                       /\ pixels[slot[i].buffer] = VisibleTiles(view, 0)[k].id
    BY DEF VisibleShown
  <1> DEFINE seen == VisibleTiles(view, 0)
  <1>1. Grids(seen) /\ Grids(Placed)
    BY TilesFit, PlacedFits DEF MapInv, MapTypes
  <1>2. CASE board = "s3"
    <2>1. /\ k \in Index /\ Placed = seen /\ card /\ asked[k] = None /\ seen[k].id # None
      BY <1>1, <1>2 DEF Placed, Grids, Settled
    <2>2. slot[k].id = seen[k].id /\ image[k] = {seen[k].at}
      BY <1>2, <2>1 DEF NoBlanks, AskedOrShown
    <2> QED
      BY <2>1, <2>2 DEF MapInv, SlotsDecoded
  <1>3. CASE board = "p4"
    <2> DEFINE grid == VisibleTiles(view, 1)
               i == k + 1
    <2>1. image[i] # {} /\ ~dirty /\ Placed = grid /\ "p4" \in Boards
      BY <1>3 DEF Settled, NoBlanks, Current, Placed, MapInv, MapTypes
    <2>2. /\ k \in Int /\ seen[k].id = <<view.zoom, Lowest(view, 0) + k - 1>>
          /\ seen[k].at = Tile * (Lowest(view, 0) + k - 1) - Top(view)
          /\ 1 <= k /\ Lowest(view, 0) + k - 1 <= Rows(view.zoom) - 1
          /\ Lowest(view, 0) + k - 1 <= LastRow(view) + 0
      BY <1>3, <2>1, GridRows DEF NoBlanks
    <2>3. FirstRow(view) \in Int /\ FirstRow(view) >= 2 /\ LastRow(view) \in Int
          /\ Rows(view.zoom) \in Int
      BY <1>3, RowsOfViews DEF Northernmost, FirstRow, NoBlanks
    <2>4. Lowest(view, 0) = FirstRow(view) /\ Lowest(view, 1) = FirstRow(view) - 1
      BY <2>3 DEF Lowest
    <2>5. i \in DOMAIN grid
      BY <1>3, <2>1, <2>2, <2>3, <2>4, GridRows DEF NoBlanks
    <2>6. /\ grid[i].id = <<view.zoom, Lowest(view, 1) + i - 1>>
          /\ grid[i].at = Tile * (Lowest(view, 1) + i - 1) - Top(view)
      BY <1>3, <2>1, <2>5, GridRows DEF NoBlanks
    <2>7. Lowest(view, 1) + i - 1 = Lowest(view, 0) + k - 1
      BY <2>2, <2>3, <2>4
    <2>8. grid[i].id = seen[k].id /\ grid[i].at = seen[k].at
      BY <2>2, <2>6, <2>7
    <2>9. i \in Index /\ seen[k].id # None
      BY <1>1, <2>1, <2>5 DEF Grids
    <2> HIDE DEF seen, grid, i
    <2>10. \A at \in image[i] : at = grid[i].at /\ slot[i].id = grid[i].id
      BY <2>1, <2>9 DEF MapInv, ImagesPlaced
    <2>11. image[i] = {seen[k].at} /\ slot[i].id = seen[k].id
      BY <2>1, <2>8, <2>10
    <2> QED
      BY <2>9, <2>11 DEF MapInv, SlotsDecoded, seen
  <1> QED
    BY <1>2, <1>3, HubMapAssumption DEF MapInv, MapTypes

\* Nothing stays blank: for every layer, view and set of readable tiles, and images
\* enough for a view with its margin, a map that has settled shows every tile in view
\* that can be decoded, however the view came there; on the Home Hub below the two
\* northernmost rows (refresh_map_tiles, update_ui, rebuild_current_page, refresh_tiles,
\* load_next_tile).
THEOREM NothingBlank == Spec => []VisibleShown
  <1>1. Init => MapInv /\ NoBlanks
    BY MapInitInv, NoBlanksInit
  <1>2. MapInv /\ NoBlanks /\ [Next]_vars => MapInv' /\ NoBlanks'
    BY MapNextInv, NoBlanksStep
  <1>3. MapInv /\ NoBlanks => VisibleShown
    BY NoBlanksShows
  <1> QED
    BY <1>1, <1>2, <1>3, PTL DEF Spec
=============================================================================
