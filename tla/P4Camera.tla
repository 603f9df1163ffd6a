------------------------------ MODULE P4Camera ------------------------------
(***************************************************************************)
(* The Home Hub's camera (hub/esp-idf-p4/main/home_hub_camera.cpp and the   *)
(* camera's page in main.cpp): a task that captures and previews frames, a  *)
(* task that looks for QR codes in them, and the page that starts, stops    *)
(* and reads both.  They share flags that nothing but their order protects: *)
(* the request to stop, the profile, "decoder ready" and "code found".      *)
(*                                                                         *)
(* A frame is the code it shows or nothing; tuning, drawing and the frames  *)
(* of the preview are left out.                                            *)
(***************************************************************************)
EXTENDS Naturals, FiniteSets

CONSTANTS
    Workers,  \* room for tasks of each kind
    Codes     \* contents of QR codes; Nothing is none

Nothing == "nothing"
NoTask == "no task"

ASSUME P4CameraAssumption == Nothing \notin Codes /\ NoTask \notin Workers

VARIABLES
    capture,  \* camera_task of each worker: dead, opening, streaming, closing
    decoder,  \* decoder_task of each worker: dead, begin, loop, waiting, decoding
    sees,     \* what a decoding decoder has in hand
    task,     \* g_task
    decode,   \* g_decode_task
    stop,     \* g_stop_requested
    mode,     \* g_mode
    ready,    \* g_decoder_ready
    found,    \* g_qr_found
    scan,     \* g_scan_frame
    fresh,    \* g_scan_generation is ahead of what was consumed
    payload,  \* g_status.payload
    news,     \* g_status.result_generation is ahead of camera_result_generation
    open,     \* the camera's page is built
    ui,       \* the page's thread: ready, starting (inside start), switching (inside setMode)
    told,     \* the result the page shows
    missed    \* history: a result came while the profile was switched, the page that showed
              \* it was rebuilt, or an earlier text was not cleared

tasks == <<capture, decoder, sees, task, decode>>
result == <<found, scan, fresh, payload, news>>
pageVars == <<open, ui, told, missed>>
cameraVars == <<tasks, stop, mode, ready, result, pageVars>>

Free(pc) == {w \in Workers : pc[w] = "dead"}
-----------------------------------------------------------------------------
(* camera_task.                                                             *)

\* Opening the device and its buffers fails, or a decoder is created; then the stream
\* starts or does not.
CaptureOpens(w, works, streams) ==
    /\ capture[w] = "opening"
    /\ IF works
       THEN \E d \in Free(decoder) :
              /\ decoder' = [decoder EXCEPT ![d] = "begin"] /\ decode' = d
              /\ capture' = [capture EXCEPT ![w] = IF streams THEN "streaming" ELSE "closing"]
              /\ UNCHANGED task
       ELSE capture' = [capture EXCEPT ![w] = "dead"] /\ task' = NoTask
            /\ UNCHANGED <<decoder, decode>>
    /\ UNCHANGED <<sees, stop, mode, ready, result, pageVars>>

\* publish_frame: prepared for the decoder only when it waits for one.
Frame(w, code) ==
    /\ capture[w] = "streaming" /\ ~stop
    /\ mode = "qr" /\ ready /\ ~found
    /\ scan' = code /\ fresh' = TRUE
    /\ UNCHANGED <<tasks, stop, mode, ready, found, payload, news, pageVars>>

CaptureStops(w) ==
    /\ capture[w] = "streaming" /\ stop
    /\ capture' = [capture EXCEPT ![w] = "closing"]
    /\ UNCHANGED <<decoder, sees, task, decode, stop, mode, ready, result, pageVars>>

\* Whatever ended the stream, the decoder is told to end as well.
CaptureEnds(w) ==
    /\ capture[w] = "closing"
    /\ stop' = TRUE
    /\ capture' = [capture EXCEPT ![w] = "dead"] /\ task' = NoTask
    /\ UNCHANGED <<decoder, sees, decode, mode, ready, result, pageVars>>
-----------------------------------------------------------------------------
(* decoder_task.                                                            *)

\* The decoder is allocated, or the task ends.
DecoderBegins(d, works) ==
    /\ decoder[d] = "begin"
    /\ decoder' = [decoder EXCEPT ![d] = IF works THEN "loop" ELSE "dead"]
    /\ decode' = (IF works THEN decode ELSE NoTask)
    /\ UNCHANGED <<capture, sees, task, stop, mode, ready, result, pageVars>>

\* The top of the loop: end, wait for another profile, or ask for a frame.
DecoderLoops(d) ==
    /\ decoder[d] = "loop"
    /\ ready' = (~stop /\ mode = "qr")
    /\ decoder' = [decoder EXCEPT ![d] = IF stop THEN "dead"
                                         ELSE IF mode = "qr" THEN "waiting" ELSE "loop"]
    /\ decode' = (IF stop THEN NoTask ELSE decode)
    /\ UNCHANGED <<capture, sees, task, stop, mode, result, pageVars>>

\* Notified, or after 100 ms: a frame is taken if there is a new one and no reason not to.
DecoderWakes(d) ==
    LET takes == ~stop /\ ~found /\ mode = "qr" /\ fresh
    IN  /\ decoder[d] = "waiting"
        /\ ready' = FALSE
        /\ decoder' = [decoder EXCEPT ![d] = IF takes THEN "decoding" ELSE "loop"]
        /\ sees' = (IF takes THEN [sees EXCEPT ![d] = scan] ELSE sees)
        /\ fresh' = (fresh /\ ~takes)
        /\ UNCHANGED <<capture, task, decode, stop, mode, found, scan, payload, news, pageVars>>

\* A code is read, or not: only another text is news.  (The profile is not looked at
\* again.)
DecoderReads(d, reads) ==
    /\ decoder[d] = "decoding"
    /\ reads => sees[d] # Nothing
    /\ decoder' = [decoder EXCEPT ![d] = "loop"]
    /\ sees' = [sees EXCEPT ![d] = Nothing]
    /\ IF reads
       THEN /\ payload' = sees[d] /\ news' = (news \/ payload # sees[d])
            /\ found' = TRUE
            /\ missed' = (missed \/ ui = "switching")
       ELSE UNCHANGED <<payload, news, found, missed>>
    /\ UNCHANGED <<capture, task, decode, stop, mode, ready, scan, fresh, open, ui, told>>
-----------------------------------------------------------------------------
(* start, stop, setMode, and the page.                                      *)

\* What start waits for while the last stream closes (_OnlyCapture: the camera's task,
\* not the decoder).
Idle_OnlyCapture == task = NoTask
Idle == task = NoTask /\ decode = NoTask

\* setMode and start clear the text only if they get g_lock within 100 ms.
Clears(locked) == payload' = IF locked THEN Nothing ELSE payload

\* navigate_to the camera's page: setMode(Photo), then start, which returns at once while
\* a stream runs and otherwise waits, the display locked, until the last tasks are gone.
PageOpens(locked) ==
    /\ ~open /\ ui = "ready"
    /\ open' = TRUE /\ told' = Nothing /\ missed' = FALSE
    /\ mode' = "photo"
    /\ found' = (found /\ mode = "photo") /\ ready' = (ready /\ mode = "photo")
    /\ IF mode = "photo" THEN UNCHANGED payload ELSE Clears(locked)
    /\ ui' = (IF task # NoTask /\ ~stop THEN "ready" ELSE "starting")
    /\ UNCHANGED <<tasks, stop, scan, fresh, news>>

\* start, once they are gone: the camera's task is created, or cannot be.
Started(created, locked) ==
    /\ ui = "starting" /\ Idle
    /\ stop' = FALSE
    /\ Clears(locked) /\ found' = FALSE /\ fresh' = FALSE /\ ready' = FALSE
    /\ IF created
       THEN \E w \in Free(capture) :
              capture' = [capture EXCEPT ![w] = "opening"] /\ task' = w
       ELSE UNCHANGED <<capture, task>>
    /\ ui' = "ready"
    /\ UNCHANGED <<decoder, sees, decode, mode, scan, news, open, told, missed>>

\* start, after a second of waiting, or without memory: the page stays dark.
StartFails ==
    /\ ui = "starting"
    /\ ui' = "ready"
    /\ UNCHANGED <<tasks, stop, mode, ready, result, open, told, missed>>

\* navigate_to another page: stop.
PageCloses ==
    /\ open /\ ui = "ready"
    /\ open' = FALSE /\ told' = Nothing
    /\ stop' = TRUE
    /\ UNCHANGED <<tasks, mode, ready, result, ui, missed>>

\* setMode, its first half: the profile and the flags.  (_KeepsFound: a code found under
\* the last profile still counts as found.)
ProfileChanges_KeepsFound(to) ==
    /\ open /\ ui = "ready" /\ mode # to
    /\ mode' = to
    /\ ready' = FALSE
    /\ ui' = "switching"
    /\ UNCHANGED <<tasks, stop, result, open, told, missed>>
ProfileChanges(to) ==
    /\ open /\ ui = "ready" /\ mode # to
    /\ mode' = to
    /\ found' = FALSE /\ ready' = FALSE
    /\ missed' = FALSE
    /\ ui' = "switching"
    /\ UNCHANGED <<tasks, stop, scan, fresh, payload, news, open, told>>

\* setMode, its second half, and set_camera_profile: earlier results are forgotten and
\* the page is rebuilt.  A text that stays is not news when the same code is read again.
ProfileChanged(locked) ==
    /\ ui = "switching"
    /\ Clears(locked) /\ news' = FALSE
    /\ missed' = (missed \/ payload' # Nothing)
    /\ told' = Nothing
    /\ ui' = "ready"
    /\ UNCHANGED <<tasks, stop, mode, ready, found, scan, fresh, open>>

\* camera_page_timer.
PageTimer ==
    /\ open /\ ui = "ready" /\ mode = "qr"
    /\ news
    /\ told' = payload /\ news' = FALSE
    /\ UNCHANGED <<tasks, stop, mode, ready, found, scan, fresh, payload, open, ui, missed>>

\* A change of theme rebuilds the page without what it showed.
PageRebuilt ==
    /\ open /\ ui = "ready"
    /\ told' = Nothing
    /\ missed' = (missed \/ told # Nothing)
    /\ UNCHANGED <<tasks, stop, mode, ready, result, open, ui>>
-----------------------------------------------------------------------------
CameraInit ==
    /\ capture = [w \in Workers |-> "dead"] /\ decoder = [w \in Workers |-> "dead"]
    /\ sees = [w \in Workers |-> Nothing]
    /\ task = NoTask /\ decode = NoTask
    /\ stop = FALSE /\ mode = "photo" /\ ready = FALSE /\ found = FALSE
    /\ scan = Nothing /\ fresh = FALSE
    /\ payload = Nothing /\ news = FALSE
    /\ open = FALSE /\ ui = "ready" /\ told = Nothing /\ missed = FALSE

CameraNext ==
    \/ \E w \in Workers, works, streams \in BOOLEAN : CaptureOpens(w, works, streams)
    \/ \E w \in Workers, code \in Codes \cup {Nothing} : Frame(w, code)
    \/ \E w \in Workers : CaptureStops(w) \/ CaptureEnds(w)
    \/ \E d \in Workers, works \in BOOLEAN : DecoderBegins(d, works) \/ DecoderReads(d, works)
    \/ \E d \in Workers : DecoderLoops(d) \/ DecoderWakes(d)
    \/ \E locked \in BOOLEAN : PageOpens(locked) \/ ProfileChanged(locked)
    \/ \E created, locked \in BOOLEAN : Started(created, locked)
    \/ StartFails
    \/ PageCloses
    \/ \E to \in {"photo", "qr"} : ProfileChanges(to)
    \/ PageTimer
    \/ PageRebuilt

CameraSpec == CameraInit /\ [][CameraNext]_cameraVars
-----------------------------------------------------------------------------
CameraTypeOK ==
    /\ capture \in [Workers -> {"dead", "opening", "streaming", "closing"}]
    /\ decoder \in [Workers -> {"dead", "begin", "loop", "waiting", "decoding"}]
    /\ sees \in [Workers -> Codes \cup {Nothing}]
    /\ {task, decode} \subseteq Workers \cup {NoTask}
    /\ {stop, ready, found, fresh, news, open, missed} \subseteq BOOLEAN
    /\ mode \in {"photo", "qr"} /\ ui \in {"ready", "starting", "switching"}
    /\ {scan, payload, told} \subseteq Codes \cup {Nothing}

\* However quickly the page is left and opened again, one camera task and one decoder run
\* at most, and the handles by which they are stopped are theirs.
OneWorker ==
    \A w \in Workers : /\ capture[w] # "dead" => task = w
                       /\ decoder[w] # "dead" => decode = w

\* A code is not lost between the two tasks and the page: when the decoder has stopped
\* looking because one was found, the page shows it or is about to, unless the result
\* came in the middle of a change of profile, the page that showed it was rebuilt, or
\* the change of profile could not clear an earlier text, whose code is then not news.
CodeAnnounced ==
    open /\ ui = "ready" /\ mode = "qr" /\ found /\ ~missed =>
        payload # Nothing /\ (news \/ told = payload)
=============================================================================
