---------------------------- MODULE NativeCapture ----------------------------
(***************************************************************************)
(* Recording the device through the operator's bridge                      *)
(* (src/tools/airtest-poco-bridge): one recorder shared by all requests.   *)
(* A capture is started, stopped or discarded by requests that carry a     *)
(* lease of NativeBridge (native_identity_capture_exchange.py), by plain   *)
(* requests, or by the closing bridge; frames are taken by a sampler       *)
(* thread, a video is watched by a monitor thread                          *)
(* (native_identity_capture_video.py), and capture_control of server.py    *)
(* keeps the table of what is being recorded.                              *)
(*                                                                         *)
(* Three locks matter: _operation is held by a leased request, the command *)
(* lock by whoever is inside capture_control, and both are refused, never  *)
(* waited for; _recording_lock guards the table and is held over the SDK   *)
(* call that starts a video.  A capture is named by the guard its start    *)
(* made, here a number.  A request that is refused before it changed       *)
(* anything is a stuttering step.                                          *)
(***************************************************************************)
EXTENDS Naturals, FiniteSets

CONSTANTS
    Client,      \* concurrent HTTP requests
    MaxCaptures, \* captures and screenshots one checked run tries
    MaxFrames    \* maxFrames of a sampled capture

ASSUME CaptureAssumption ==
    /\ {MaxCaptures, MaxFrames} \subseteq Nat
    /\ {"free", "closer"} \cap Client = {}

VARIABLES
    world,    \* [lease, same]: authorization in force, connection unchanged
    phase,    \* of the bridge: "open", "closing", "closed" or "failed"
    op,       \* holder of _operation, or "free"
    cmd,      \* holder of _capture_command_lock, or "free"
    lock,     \* holder of _recording_lock over a start, or "free"
    rec,      \* the one entry of _recording, or Nothing
    sampler,  \* where the thread that takes frames is
    watch,    \* [step, asked, stopped, failed]: the monitor of a video
    session,  \* the capture the lease's session holds, or 0
    task,     \* what each request, and the closing bridge, is doing
    made,     \* captures tried so far
    run,      \* captures the SDK is recording a video of
    files,    \* frames on disk: <<capture, number>>
    foreign,  \* frames and screenshots of another connection (history)
    accepted  \* frames and screenshots handed out as evidence (history)

locks == <<op, cmd, lock>>
threads == <<sampler, watch>>
disk == <<run, files, foreign, accepted>>
captureVars == <<world, phase, locks, rec, threads, session, task, made, disk>>

Closer == "closer"
Nothing == [gen |-> 0]
Recording == rec # Nothing
Idle == [do |-> "none", by |-> "none", step |-> "none", gen |-> 0,
          mode |-> "none", stopped |-> FALSE]
Ended == [step |-> "ended", asked |-> FALSE, stopped |-> FALSE, failed |-> FALSE]

-----------------------------------------------------------------------------
(* Guards.                                                                 *)

\* NativeCaptureGuard.check: the lease's own check, then the connection.
Check == world.lease /\ world.same /\ phase = "open"

\* _video_connection of stop_video: the lease is not asked for any more.
Connected == world.same /\ phase # "closed"

Guarded(t) == task[t].by # "plain"
Allowed(t) == Guarded(t) => Check

To(t, step) == task' = [task EXCEPT ![t].step = step]

\* capture_control returns: the command lock is free again.
Leave(t, stopped) ==
    /\ cmd' = "free"
    /\ task' = [task EXCEPT ![t] = IF task[t].by = "plain" THEN Idle
                                 ELSE [@ EXCEPT !.step = "finish", !.stopped = stopped]]

-----------------------------------------------------------------------------
CaptureInit ==
    /\ world = [lease |-> TRUE, same |-> TRUE] /\ phase = "open"
    /\ op = "free" /\ cmd = "free" /\ lock = "free"
    /\ rec = Nothing /\ sampler = "off" /\ watch = Ended
    /\ session = 0
    /\ task = [t \in Client \cup {Closer} |-> Idle]
    /\ made = 0 /\ run = {} /\ files = {} /\ foreign = {} /\ accepted = {}

(* The lease runs out, the device is exchanged, a video reaches max_time.  *)

Lapse ==
    /\ world.lease /\ world' = [world EXCEPT !.lease = FALSE]
    /\ UNCHANGED <<phase, locks, rec, threads, session, task, made, disk>>

Exchange ==
    /\ world.same /\ world' = [world EXCEPT !.same = FALSE]
    /\ UNCHANGED <<phase, locks, rec, threads, session, task, made, disk>>

RecorderEnds(g) ==
    /\ g \in run /\ run' = run \ {g}
    /\ UNCHANGED <<world, phase, locks, rec, threads, session, task, made,
                   files, foreign, accepted>>

-----------------------------------------------------------------------------
(* Requests.                                                               *)

\* A leased start or screenshot: a guard that checks out.  A second start is
\* refused.  (The ordinal only decides whether a request is new; a repeated
\* one gets the stored answer, an older one is refused: both change nothing.)
LeasedBegin(t, do, mode) ==
    /\ task[t].do = "none" /\ op = "free" /\ Check
    /\ made < MaxCaptures /\ (do = "start" => session = 0)
    /\ op' = t /\ made' = made + 1
    /\ session' = IF do = "start" THEN made + 1 ELSE session
    /\ task' = [task EXCEPT ![t] =
                 [do |-> do, by |-> "lease", gen |-> made + 1, mode |-> mode,
                  step |-> IF do = "start" THEN "command" ELSE "shoot", stopped |-> FALSE]]
    /\ UNCHANGED <<world, phase, cmd, lock, rec, threads, disk>>

\* A leased stop or discard names the capture of the session and works with
\* the guard of its start, without a new check.
LeasedCleanup(t, do, mode) ==
    /\ task[t].do = "none" /\ op = "free" /\ session # 0 /\ op' = t
    /\ task' = [task EXCEPT ![t] =
                 [do |-> do, by |-> "lease", gen |-> session, mode |-> mode,
                  step |-> "command", stopped |-> FALSE]]
    /\ UNCHANGED <<world, phase, cmd, lock, rec, threads, session, made, disk>>

\* A plain request goes to capture_control at once and has no guard.
PlainBegin(t, do, mode) ==
    /\ task[t].do = "none" /\ cmd = "free"
    /\ do = "start" => made < MaxCaptures
    /\ made' = IF do = "start" THEN made + 1 ELSE made
    /\ task' = [task EXCEPT ![t] =
                 [do |-> do, by |-> "plain", mode |-> mode,
                  gen |-> IF do = "start" THEN made' ELSE 0,
                  step |-> "command", stopped |-> FALSE]]
    /\ UNCHANGED <<world, phase, locks, rec, threads, session, disk>>

\* capture_control: a command in progress refuses another.
Command(t) ==
    /\ task[t].step = "command"
    /\ IF cmd = "free"
       THEN cmd' = t /\ To(t, IF task[t].do = "start" THEN "check" ELSE "find")
       ELSE /\ UNCHANGED cmd
            /\ task' = [task EXCEPT ![t] = IF Guarded(t) THEN [@ EXCEPT !.step = "finish"] ELSE Idle]
    /\ UNCHANGED <<world, phase, op, lock, rec, threads, session, made, disk>>

\* The leased request keeps its capture only while the table holds it.
Finish(t) ==
    /\ task[t].step = "finish" /\ task[t].by = "lease" /\ lock = "free"
    /\ session' = IF task[t].do = "screenshot" \/ rec.gen = task[t].gen
                  THEN session ELSE 0
    /\ op' = "free" /\ task' = [task EXCEPT ![t] = Idle]
    /\ UNCHANGED <<world, phase, cmd, lock, rec, threads, made, disk>>

-----------------------------------------------------------------------------
(* Screenshots: the SDK call of a leased screenshot, then the check.       *)

ScreenshotShoot(t) ==
    /\ task[t].step = "shoot"
    /\ foreign' = IF world.same THEN foreign ELSE foreign \cup {<<task[t].gen, 0>>}
    /\ To(t, "verify")
    /\ UNCHANGED <<world, phase, locks, rec, threads, session, made, run, files, accepted>>

ScreenshotVerify(t) ==
    /\ task[t].step = "verify"
    /\ accepted' = IF Check THEN accepted \cup {<<task[t].gen, 0>>} ELSE accepted
    /\ To(t, "finish")
    /\ UNCHANGED <<world, phase, locks, rec, threads, session, made, run, files, foreign>>

-----------------------------------------------------------------------------
(* start                                                                   *)

\* The first check, before _recording_lock is asked for.
StartCheck(t) ==
    /\ task[t].step = "check"
    /\ IF Allowed(t) THEN UNCHANGED cmd /\ To(t, task[t].mode) ELSE Leave(t, FALSE)
    /\ UNCHANGED <<world, phase, op, lock, rec, threads, session, made, disk>>

New(t) == [gen |-> task[t].gen, mode |-> task[t].mode, guarded |-> Guarded(t),
           stop |-> FALSE, kept |-> {}, failure |-> FALSE,
           unconfirmed |-> FALSE, watched |-> FALSE]

\* Sampled frames: the table and the directory are empty, the sampler runs.
StartFrames(t) ==
    /\ task[t].step = "frames" /\ lock = "free"
    /\ IF ~Recording /\ files = {}
       THEN rec' = New(t) /\ sampler' = "loop"
       ELSE UNCHANGED <<rec, sampler>>
    /\ Leave(t, FALSE)
    /\ UNCHANGED <<world, phase, op, lock, watch, session, made, disk>>

\* Video: start_video checks again under the lock.
StartVideo(t) ==
    /\ task[t].step = "video" /\ lock = "free"
    /\ IF ~Recording /\ Allowed(t)
       THEN lock' = t /\ UNCHANGED cmd /\ To(t, "sdk")
       ELSE UNCHANGED lock /\ Leave(t, FALSE)
    /\ UNCHANGED <<world, phase, op, rec, threads, session, made, disk>>

\* Mutant of StartSdk: an unclear start is refused and forgotten.
StartSdkForgets(t, outcome, going, watched) ==
    /\ task[t].step = "sdk" /\ lock' = "free" /\ Leave(t, FALSE)
    /\ going <=> outcome # "none"
    /\ run' = IF going THEN run \cup {task[t].gen} ELSE run
    /\ IF outcome = "ok"
       THEN /\ rec' = [New(t) EXCEPT !.watched = watched, !.failure = ~watched]
            /\ watch' = [Ended EXCEPT !.step = "watching"]
       ELSE UNCHANGED <<rec, watch>>
    /\ UNCHANGED <<world, phase, op, sampler, session, made, files, foreign, accepted>>

\* The SDK does not start ("none"), starts ("ok"), or raises or answers so
\* that it may be recording or not.  Without a guard only "ok" is kept;
\* with one an unclear start is kept as unconfirmed, and a start whose
\* monitor cannot run is kept unwatched.
StartSdk(t, outcome, going, watched) ==
    /\ task[t].step = "sdk" /\ lock' = "free" /\ Leave(t, FALSE)
    /\ CASE outcome = "none" -> ~going
         [] outcome = "ok" -> going
         [] OTHER -> Guarded(t)
    /\ run' = IF going THEN run \cup {task[t].gen} ELSE run
    /\ CASE outcome = "none" -> UNCHANGED <<rec, watch>>
         [] outcome = "unclear" ->
              /\ rec' = [New(t) EXCEPT !.unconfirmed = TRUE, !.failure = TRUE]
              /\ UNCHANGED watch
         [] outcome = "ok" /\ ~Guarded(t) -> (rec' = New(t) /\ UNCHANGED watch)
         [] OTHER ->
              /\ rec' = [New(t) EXCEPT !.watched = watched, !.failure = ~watched]
              /\ watch' = IF watched THEN [Ended EXCEPT !.step = "watching"] ELSE watch
    /\ UNCHANGED <<world, phase, op, sampler, session, made, files, foreign, accepted>>

-----------------------------------------------------------------------------
(* The sampler.                                                            *)

\* The frame the sampler is at.
Frame == <<rec.gen, Cardinality(rec.kept) + 1>>

SamplerFails == sampler' = "off"
                /\ rec' = [rec EXCEPT !.failure = TRUE, !.stop = TRUE]

\* Asked to stop, or enough frames: the thread ends.  Otherwise it checks.
SampleLoop ==
    /\ sampler = "loop" /\ lock = "free"
    /\ LET over == rec.stop \/ Cardinality(rec.kept) >= MaxFrames
       IN  CASE over -> (sampler' = "off" /\ rec' = [rec EXCEPT !.stop = TRUE])
             [] ~over /\ rec.guarded /\ ~Check -> SamplerFails
             [] OTHER -> sampler' = "shoot" /\ UNCHANGED rec
    /\ UNCHANGED <<world, phase, locks, watch, session, task, made, disk>>

\* The SDK takes the frame from whatever is connected, or raises.
SampleRaises ==
    /\ sampler = "shoot" /\ lock = "free" /\ SamplerFails
    /\ UNCHANGED <<world, phase, locks, watch, session, task, made, disk>>

SampleShoot ==
    /\ sampler = "shoot"
    /\ foreign' = IF world.same THEN foreign ELSE foreign \cup {Frame}
    /\ sampler' = "keep"
    /\ UNCHANGED <<world, phase, locks, rec, watch, session, task, made, run, files, accepted>>

\* Checked, written, checked again and counted.  A frame beyond maxBytes is
\* removed and ends the capture; one that failed a check may stay on disk.
SampleKeep(room, left) ==
    LET good == rec.guarded => Check
    IN  /\ sampler = "keep" /\ lock = "free"
        /\ CASE good /\ room ->
                  /\ files' = files \cup {Frame} /\ rec' = [rec EXCEPT !.kept = @ \cup {Frame}]
                  /\ sampler' = "loop"
             [] good /\ ~room ->
                  /\ rec' = [rec EXCEPT !.stop = TRUE] /\ UNCHANGED files
                  /\ sampler' = "off"
             [] OTHER ->
                  /\ files' = IF left THEN files \cup {Frame} ELSE files
                  /\ SamplerFails
        /\ UNCHANGED <<world, phase, locks, watch, session, task, made, run, foreign, accepted>>

-----------------------------------------------------------------------------
(* The monitor of a guarded video.                                         *)

\* check_video fails, or a stop was asked for: the recording is to end.
WatchLook ==
    /\ watch.step = "watching" /\ (watch.asked \/ ~Check)
    /\ watch' = [watch EXCEPT !.step = "stopping", !.failed = @ \/ ~watch.asked]
    /\ UNCHANGED <<world, phase, locks, rec, sampler, session, task, made, disk>>

\* stop_video: only the original connection is used, and it must still be
\* there after the SDK has answered.
WatchStop(answer, gone) ==
    /\ watch.step = "stopping"
    /\ answer => Connected /\ gone
    /\ gone => Connected
    /\ run' = IF gone THEN run \ {rec.gen} ELSE run
    /\ watch' = [watch EXCEPT !.step = "ended", !.stopped = answer]
    /\ UNCHANGED <<world, phase, locks, rec, sampler, session, task, made, files, foreign, accepted>>

-----------------------------------------------------------------------------
(* stop and discard                                                        *)

\* The entry must be the request's own: mode, and guard by identity.
Own(t) == /\ Recording /\ rec.mode = task[t].mode /\ rec.guarded = Guarded(t)
          /\ rec.guarded => rec.gen = task[t].gen

\* The sampler is told to stop; a monitor that is missing or has failed to
\* stop is launched once more, without watching (it may fail to launch).
StopFind(t, launched) ==
    /\ task[t].step = "find" /\ lock = "free"
    /\ LET video == Own(t) /\ rec.guarded /\ rec.mode = "video" /\ ~rec.unconfirmed
           again == ~rec.watched \/ (watch.step = "ended" /\ ~watch.stopped)
       IN  /\ IF ~Own(t) \/ (video /\ again /\ ~launched)
              THEN UNCHANGED rec /\ Leave(t, ~Recording)
              ELSE /\ UNCHANGED cmd /\ To(t, "await")
                   /\ rec' = IF video THEN [rec EXCEPT !.watched = TRUE]
                             ELSE [rec EXCEPT !.stop = TRUE]
           /\ watch' = CASE video /\ again /\ launched ->
                              [watch EXCEPT !.step = "stopping", !.asked = TRUE]
                         [] video /\ ~again -> [watch EXCEPT !.asked = TRUE]
                         [] OTHER -> watch
    /\ UNCHANGED <<world, phase, op, lock, sampler, session, made, disk>>

\* What the request waits for is over.
Still(t) ==
    CASE rec.mode = "frames" -> sampler = "off"
      [] rec.mode = "video" /\ rec.guarded ->
           ~rec.unconfirmed /\ watch.step = "ended" /\ watch.stopped
      [] OTHER -> TRUE

\* The wait ends with the thread, or gives up: the entry stays for a retry.
\* A plain video is stopped here, and stays too when the stop is not clear.
StopAwait(t, gives_up) ==
    /\ task[t].step = "await"
    /\ IF gives_up THEN UNCHANGED <<rec, run>> /\ Leave(t, FALSE)
       ELSE /\ Still(t) /\ UNCHANGED cmd /\ To(t, "pop")
            /\ rec' = [rec EXCEPT !.failure = @ \/ (rec.mode = "video" /\ watch.failed)]
            /\ run' = IF rec.mode = "video" /\ ~rec.guarded THEN run \ {rec.gen} ELSE run
    /\ UNCHANGED <<world, phase, op, lock, threads, session, made, files, foreign, accepted>>

\* _validated_frame_capture: no failure, some frames, and exactly those.
Whole == ~rec.failure /\ rec.kept # {} /\ files = rec.kept

\* The entry is taken out; a stop hands out what is whole.
StopPop(t) ==
    /\ task[t].step = "pop" /\ lock = "free" /\ rec' = Nothing /\ watch' = Ended
    /\ IF task[t].do = "discard"
       THEN UNCHANGED <<cmd, accepted>> /\ To(t, "remove")
       ELSE /\ accepted' = IF rec.guarded /\ rec.mode = "frames" /\ Whole THEN accepted \cup rec.kept
                           ELSE accepted
            /\ Leave(t, TRUE)
    /\ UNCHANGED <<world, phase, op, lock, sampler, session, made, run, files, foreign>>

\* The directory of the mode is removed after the lock was given back.
DiscardRemove(t) ==
    /\ task[t].step = "remove"
    /\ files' = IF task[t].mode = "frames" THEN {} ELSE files
    /\ Leave(t, TRUE)
    /\ UNCHANGED <<world, phase, op, lock, rec, threads, session, made, run, foreign, accepted>>

-----------------------------------------------------------------------------
(* close: no new operation, then every guarded capture is stopped with its *)
(* own guard, then the transport is closed.                                *)

BeginClosing ==
    /\ phase = "open" /\ phase' = "closing"
    /\ UNCHANGED <<world, locks, rec, threads, session, task, made, disk>>

\* close_native_captures reads the table; it gives up on a lock that is
\* held too long.
CloseOwned(gives_up) ==
    /\ phase = "closing" /\ task[Closer].do = "none"
    /\ ~gives_up => lock = "free"
    /\ IF gives_up THEN phase' = "failed" /\ UNCHANGED task
       ELSE IF Recording /\ rec.guarded
       THEN /\ UNCHANGED phase
            /\ task' = [task EXCEPT ![Closer] =
                         [do |-> "stop", by |-> "close", step |-> "command",
                          gen |-> rec.gen, mode |-> rec.mode, stopped |-> FALSE]]
       ELSE phase' = "closed" /\ UNCHANGED task
    /\ UNCHANGED <<world, locks, rec, threads, session, made, disk>>

\* Mutant of CloseStopped: the stop is taken as confirmed.
CloseStoppedAnyway ==
    /\ task[Closer].step = "finish" /\ task' = [task EXCEPT ![Closer] = Idle]
    /\ phase' = "closed"
    /\ UNCHANGED <<world, locks, rec, threads, session, made, disk>>

\* Only a confirmed stop lets the transport close.
CloseStopped ==
    /\ task[Closer].step = "finish" /\ task' = [task EXCEPT ![Closer] = Idle]
    /\ phase' = IF task[Closer].stopped THEN "closed" ELSE "failed"
    /\ UNCHANGED <<world, locks, rec, threads, session, made, disk>>

-----------------------------------------------------------------------------
Mode == {"frames", "video"}

Requests ==
    \E t \in Client :
        \/ \E m \in Mode : LeasedBegin(t, "start", m) \/ PlainBegin(t, "start", m)
        \/ LeasedBegin(t, "screenshot", "none")
        \/ \E m \in Mode, d \in {"stop", "discard"} : LeasedCleanup(t, d, m) \/ PlainBegin(t, d, m)
        \/ Finish(t) \/ ScreenshotShoot(t) \/ ScreenshotVerify(t)
        \/ StartCheck(t) \/ StartFrames(t) \/ StartVideo(t)
        \/ \E g, w \in BOOLEAN, o \in {"none", "ok", "unclear"} : StartSdk(t, o, g, w)
        \/ DiscardRemove(t)

Commands ==
    \E t \in Client \cup {Closer} :
        \/ Command(t)
        \/ \E b \in BOOLEAN : StopFind(t, b) \/ StopAwait(t, b)
        \/ StopPop(t)

Threads ==
    \/ SampleLoop \/ SampleRaises \/ SampleShoot \/ WatchLook
    \/ \E a, b \in BOOLEAN : SampleKeep(a, b) \/ WatchStop(a, b)

CaptureNext ==
    \/ Lapse \/ Exchange
    \/ \E g \in run : RecorderEnds(g)
    \/ Requests \/ Commands \/ Threads
    \/ BeginClosing \/ CloseStopped
    \/ \E b \in BOOLEAN : CloseOwned(b)

CaptureSpec == CaptureInit /\ [][CaptureNext]_captureVars

-----------------------------------------------------------------------------
\* A capture made under the lease that is recorded, or may be, is one its
\* client can stop: it is in the table and, between requests, the session
\* still names it.  An entry nobody can name would block every later start.
RecorderReachable ==
    /\ \A g \in run : rec.gen = g
    /\ op = "free" /\ Recording /\ rec.guarded => session = rec.gen

\* Once the bridge has closed, no video is recorded under a lease and the
\* sampler of a leased capture takes no further frame, whatever start or
\* stop was under way when closing began.
ClosedIsQuiet ==
    phase = "closed" =>
        /\ ~(Recording /\ rec.guarded /\ rec.mode = "video")
        /\ Recording /\ rec.guarded => sampler # "shoot"

\* Evidence handed out under the lease shows the observed device: the check
\* after each frame outlasts an exchange between check and SDK call.
AcceptedIsOfTheDevice ==
    accepted \cap foreign = {}

\* A discard removes its own frames only: what the sampler of the capture in
\* the table has kept stays on disk until that capture is taken out.
KeptFramesStay == Recording /\ rec.mode = "frames" => rec.kept \subseteq files

\* Recorder, table and files agree, whichever request, sampler or monitor holds
\* which lock: what records can be stopped, what is kept is there, and what is
\* accepted is of the observed device.
CaptureInv ==
    /\ RecorderReachable
    /\ KeptFramesStay
    /\ AcceptedIsOfTheDevice

=============================================================================
