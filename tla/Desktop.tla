------------------------------- MODULE Desktop --------------------------------
(***************************************************************************)
(* The main thread of the desktop application: CameraMonitorController     *)
(* (app_windows/monitor_controller.py), the camera editor on top of it,    *)
(* and the provider the inference controllers read, for both front ends:   *)
(*   "qt"  MainWindow and CameraConfigurationPanel (app_windows/ui)        *)
(*   "wpf" BridgeRuntime (app_windows/wpf_bridge.py), driven by commands   *)
(*         of a shell process over a pipe                                  *)
(*                                                                         *)
(* Every handler of the Qt event loop is one step.  Beside it run the      *)
(* reconfiguration threads, one for each camera being changed.  A slot is  *)
(* the configuration of a camera: [edit, on], the number of the edit that  *)
(* wrote it and whether it has a stream.                                   *)
(***************************************************************************)
EXTENDS Integers, FiniteSets

CONSTANTS
    Cameras,    \* camera ids of the grid
    Absent,     \* Python's None
    Edited,     \* bound: the cameras the user edits
    MaxEdits    \* bound: edits of all cameras together

ASSUME DesktopAssumption == /\ MaxEdits \in Nat /\ Edited \subseteq Cameras
                            /\ IsFiniteSet(Cameras) /\ Absent \notin Cameras \cup Nat

VARIABLES
    frontend,  \* "qt" or "wpf", fixed
    shell,     \* the user's side: "open", "asked" to shut down, or "gone"
    main,      \* the event loop: "new", "loop", "closing", "stuck", "quit"
    edits,     \* number of edits made
    editor,    \* of each camera: [saved, pending, applying] slots, and what a dirty card shows
    monitor,   \* [started, slots, providers, gens, errors, packets, view]
    recon,     \* of each camera: its reconfiguration thread and completion
    provider,  \* every provider made: [camera, slot, worker]
    focus      \* [camera, panel, person, face]: the focused camera, the panel's, and
               \* the providers the inference controllers read

desktopVars == <<frontend, shell, main, edits, editor, monitor, recon, provider, focus>>

NoRecon == [pc |-> "none", gen |-> 0, old |-> Absent, slot |-> Absent, new |-> Absent,
            failed |-> FALSE]

Providers == 1 .. Cardinality(Cameras) + 2 * MaxEdits
Made == DOMAIN provider
NewProvider == Cardinality(Made) + 1
With(p, made) == [q \in Made \cup {p} |-> IF q = p THEN made ELSE provider[q]]

\* _initial_status.
InitialView(slot) == [status |-> IF slot.on THEN "CONNECTING" ELSE "DISABLED", frame |-> Absent]

NewMonitor(slots) ==
    [ started   |-> FALSE,
      slots     |-> slots,
      providers |-> [c \in Cameras |-> Absent],
      gens      |-> [c \in Cameras |-> 0],
      errors    |-> {},
      packets   |-> [c \in Cameras |-> Absent],
      view      |-> [c \in Cameras |-> InitialView(slots[c])] ]

NoFocus == [camera |-> Absent, panel |-> Absent, person |-> Absent, face |-> Absent]

\* A BackendFrameProvider and the thread of its worker: it "runs" until it is
\* told to stop, is "leaving" until it has ended, and then "gone"; it is
\* "unstarted" when it could not be started.
NewFrameProvider(c, slot, worker) == [camera |-> c, slot |-> slot, worker |-> worker]

\* stop() of the provider: the worker is told, and the join is bounded, so that
\* it returns when the worker has ended or while it is leaving.
ToldToStop(f) == [f EXCEPT !.worker = IF @ = "runs" THEN "leaving" ELSE @]

DesktopInit ==
    /\ frontend \in {"qt", "wpf"}
    /\ shell = "open" /\ main = "new" /\ edits = 0
    /\ \E slots \in [Cameras -> [edit : {0}, on : BOOLEAN]] :
          /\ editor = [c \in Cameras |-> [saved |-> slots[c], pending |-> Absent, applying |-> Absent,
                                         card |-> Absent]]
          /\ monitor = NewMonitor(slots)
    /\ recon = [c \in Cameras |-> NoRecon]
    /\ provider = [p \in {} |-> Absent]
    /\ focus = NoFocus

-----------------------------------------------------------------------------
(* CameraMonitorController.                                                *)

\* The providers that start() makes, one for each camera of the set.
FirstProviders(made) == CHOOSE f \in [made -> 1 .. Cardinality(made)] :
                          \A x, y \in made : f[x] = f[y] => x = y

\* start(), in the first turn of the event loop: a provider for every
\* camera that has a stream; the factory of one may raise, which leaves the
\* camera without, or its start(), which leaves it one that does not run.
\* Either is an error of that camera alone.
StartMonitor ==
    /\ main = "new"
    /\ \E built \in SUBSET {c \in Cameras : monitor.slots[c].on} : \E started \in SUBSET built :
         LET first     == FirstProviders(built)
             camera(p) == CHOOSE c \in built : first[c] = p
         IN /\ provider' = [p \in 1 .. Cardinality(built) |->
                              NewFrameProvider(camera(p), monitor.slots[camera(p)],
                                               IF camera(p) \in started THEN "runs" ELSE "unstarted")]
            /\ monitor' = [monitor EXCEPT !.started = TRUE,
                 !.errors    = {c \in Cameras : monitor.slots[c].on} \ started,
                 !.providers = [c \in Cameras |-> IF c \in built THEN first[c] ELSE Absent]]
    /\ main' = "loop"
    /\ UNCHANGED <<frontend, shell, edits, editor, recon, focus>>

BugApplyKeepsPacket(m, c, slot) ==
    [m EXCEPT !.slots[c] = slot, !.errors = @ \ {c}, !.view[c] = InitialView(slot),
              !.providers[c] = Absent, !.gens[c] = @ + 1]

\* apply_camera_slot of a started controller (the application edits no other)
\* for a camera that is not being reconfigured; its old provider goes to the
\* thread that starts.
ApplyCameraSlot(m, c, slot) ==
    [m EXCEPT !.slots[c] = slot, !.errors = @ \ {c}, !.packets[c] = Absent,
              !.view[c] = InitialView(slot), !.providers[c] = Absent, !.gens[c] = @ + 1]

Reconfigure(m, c, slot) ==
    [NoRecon EXCEPT !.pc = "stop", !.gen = m.gens[c] + 1, !.old = m.providers[c], !.slot = slot]

\* stop(): every installed provider is stopped, and the reconfiguration
\* threads are waited for, for a bounded time.
StopMonitor(m) ==
    /\ provider' = [p \in Made |-> IF \E c \in Cameras : m.providers[c] = p
                                     THEN ToldToStop(provider[p]) ELSE provider[p]]
    /\ monitor' = [m EXCEPT !.providers = [c \in Cameras |-> Absent], !.started = FALSE]

\* The one provider p is told to stop, if there is one.
StopOne(p) == provider' = IF p = Absent THEN provider ELSE [provider EXCEPT ![p] = ToldToStop(@)]

\* reconfigure(), a thread: it stops the old provider and waits for it as long
\* as the join lasts.  The join raises when the worker's thread never started,
\* and the exception is the outcome.
ReconStop(c) ==
    /\ recon[c].pc = "stop"
    /\ StopOne(recon[c].old)
    /\ recon' = IF recon[c].old /= Absent /\ provider[recon[c].old].worker = "unstarted"
                  THEN [recon EXCEPT ![c].pc = "emitted", ![c].failed = TRUE]
                  ELSE [recon EXCEPT ![c].pc = "start"]
    /\ UNCHANGED <<frontend, shell, main, edits, editor, monitor, focus>>

\* makes and starts the new one, or fails, and emits the outcome to the
\* event loop.
ReconStart(c) ==
    /\ recon[c].pc = "start"
    /\ \/ /\ recon[c].slot.on
          /\ provider' = With(NewProvider, NewFrameProvider(c, recon[c].slot, "runs"))
          /\ recon' = [recon EXCEPT ![c].pc = "emitted", ![c].new = NewProvider]
       \/ /\ ~recon[c].slot.on
          /\ recon' = [recon EXCEPT ![c].pc = "emitted"]
          /\ UNCHANGED provider
       \/ /\ recon[c].slot.on
          /\ recon' = [recon EXCEPT ![c].pc = "emitted", ![c].failed = TRUE]
          /\ UNCHANGED provider
    /\ UNCHANGED <<frontend, shell, main, edits, editor, monitor, focus>>

\* The thread of a worker that was told to stop ends.  When the event loop has
\* ended nothing looks at it any more.
WorkerEnds(p) ==
    /\ main = "loop" /\ provider[p].worker = "leaving"
    /\ provider' = [provider EXCEPT ![p].worker = "gone"]
    /\ UNCHANGED <<frontend, shell, main, edits, editor, monitor, recon, focus>>

\* _publish: what the tile shows from now on.
Shown(m, c, status, frame) == [m EXCEPT !.view[c] = [status |-> status, frame |-> frame]]

\* _on_reconfigure_completed, a current completion: what it does to the
\* controller before it emits camera_reconfigured.
Install(c) ==
    IF recon[c].failed
      THEN Shown([monitor EXCEPT !.errors = @ \cup {c}], c, "ERROR", Absent)
      ELSE [monitor EXCEPT !.providers[c] = IF recon[c].new /= Absent THEN recon[c].new ELSE @,
                           !.view[c] = InitialView(monitor.slots[c])]

\* poll(): the newest packet of each provider, and what its worker says.
Readings == {"raises", "frame", "waiting", "lost"}

PollOne(m, c, reading) ==
    CASE m.providers[c] = Absent ->
           IF c \in m.errors THEN Shown(m, c, "ERROR", Absent) ELSE m
      [] m.providers[c] /= Absent /\ reading = "raises" ->
           Shown([m EXCEPT !.errors = @ \cup {c}], c, "ERROR", Absent)
      [] m.providers[c] /= Absent /\ reading /= "raises" ->
           LET packet == IF reading = "frame" THEN provider[m.providers[c]].slot ELSE m.packets[c]
               status == CASE reading = "frame"   -> "LIVE"
                           [] reading = "waiting" -> IF packet = Absent THEN "CONNECTING" ELSE "LIVE"
                           [] reading = "lost"    -> "OFFLINE"
           IN Shown([m EXCEPT !.packets[c] = packet], c, status, packet)

\* A worker that was not started says STARTING for ever.
ReadingsOf(c) == IF monitor.providers[c] /= Absent /\ provider[monitor.providers[c]].worker = "unstarted"
                   THEN {"waiting"} ELSE Readings

\* A bridge that cannot write its snapshots has come to BrokenEmit.
CanEmit == frontend = "qt" \/ shell /= "gone"

PollCamera(c) ==
    /\ main = "loop" /\ CanEmit
    /\ \E reading \in ReadingsOf(c) : monitor' = PollOne(monitor, c, reading)
    /\ UNCHANGED <<frontend, shell, main, edits, editor, recon, provider, focus>>

-----------------------------------------------------------------------------
(* The editor of a camera, its changes as [editor, monitor, recon].        *)

Editing == [editor |-> editor, monitor |-> monitor, recon |-> recon]

\* _try_apply of the panel: nothing while an application is under way;
\* otherwise the draft is saved, then applied; the controller refuses a
\* camera whose thread it still holds, and the draft waits, as it does when
\* the file cannot be written.
TryApply(e, c, draft, written) ==
    IF e.editor[c].applying /= Absent \/ ~written THEN [e EXCEPT !.editor[c].pending = draft]
    ELSE IF e.recon[c].pc /= "none"
      THEN [e EXCEPT !.editor[c].saved = draft, !.editor[c].pending = draft]
      ELSE [ editor  |-> [e.editor EXCEPT ![c].saved = draft, ![c].pending = Absent, ![c].applying = draft],
             monitor |-> ApplyCameraSlot(e.monitor, c, draft),
             recon   |-> [e.recon EXCEPT ![c] = Reconfigure(e.monitor, c, draft)] ]

\* flush_pending: the panel tries the draft of a dirty card again when it
\* leaves its camera for another, and when the window closes.  What becomes
\* of e: the file may not be written then either.
FlushPending(e) ==
    IF focus.panel /= Absent /\ e.editor[focus.panel].card /= Absent
      THEN {TryApply([e EXCEPT !.editor[focus.panel].card = Absent],
                     focus.panel, e.editor[focus.panel].card, written) : written \in BOOLEAN}
      ELSE {e}

\* _save_camera of the bridge: saved and acknowledged, then applied; the
\* refusal of the controller becomes an error message.
SaveCamera(e, c, draft, written) ==
    IF ~written THEN e
    ELSE IF e.recon[c].pc /= "none" THEN [e EXCEPT !.editor[c].saved = draft]
    ELSE [ editor  |-> [e.editor EXCEPT ![c].saved = draft],
           monitor |-> ApplyCameraSlot(e.monitor, c, draft),
           recon   |-> [e.recon EXCEPT ![c] = Reconfigure(e.monitor, c, draft)] ]

Becomes(e) == editor' = e.editor /\ monitor' = e.monitor /\ recon' = e.recon

\* The user's last act is to leave.
UserActs == main = "loop" /\ shell = "open"

Edits(c) == UserActs /\ focus.camera = c /\ c \in Edited /\ edits < MaxEdits

\* The user edits the focused camera: the panel's timer fires 500 ms after
\* the last change of a field,
PanelEdit(c) ==
    /\ frontend = "qt" /\ Edits(c)
    /\ edits' = edits + 1
    /\ \E on, written \in BOOLEAN :
         LET draft == [edit |-> edits', on |-> on]
         IN Becomes(TryApply([Editing EXCEPT !.editor[c].card = draft], c, draft, written))
    /\ UNCHANGED <<frontend, shell, main, provider, focus>>

\* or the shell's save command is drained.
CommandEdit(c) ==
    /\ frontend = "wpf" /\ Edits(c)
    /\ edits' = edits + 1
    /\ \E on, written \in BOOLEAN : Becomes(SaveCamera(Editing, c, [edit |-> edits', on |-> on], written))
    /\ UNCHANGED <<frontend, shell, main, provider, focus>>

-----------------------------------------------------------------------------
(* The focus: set_active_camera of both inference controllers with the     *)
(* provider the monitor has now.                                           *)

Bind(c, m) == [focus EXCEPT !.camera = c, !.person = IF c = Absent THEN Absent ELSE m.providers[c],
                                          !.face   = IF c = Absent THEN Absent ELSE m.providers[c]]

\* show_focus: the panel moves to the camera and flushes what it held for
\* the last one.
ShowFocus(c) ==
    /\ frontend = "qt" /\ UserActs
    /\ \E e \in IF c /= focus.panel THEN FlushPending(Editing) ELSE {Editing} :
         /\ Becomes(e)
         /\ focus' = [Bind(c, e.monitor) EXCEPT !.panel = c]
    /\ UNCHANGED <<frontend, shell, main, edits, provider>>

ShowGrid ==
    /\ frontend = "qt" /\ UserActs
    /\ focus' = Bind(Absent, monitor)
    /\ UNCHANGED <<frontend, shell, main, edits, editor, monitor, recon, provider>>

\* The command set_active_camera.
CommandFocus(c) ==
    /\ frontend = "wpf" /\ UserActs
    /\ focus' = Bind(c, monitor)
    /\ UNCHANGED <<frontend, shell, main, edits, editor, monitor, recon, provider>>

BugReconfiguredKeepsProvider(c, m) == UNCHANGED focus

\* camera_reconfigured, at the inference controllers: the window binds the
\* focused camera again; the bridge tells its shell and nothing more, and
\* the shell shows the message.
Rebind(c, m) ==
    focus' = IF frontend = "qt" /\ focus.camera = c THEN Bind(c, m) ELSE focus

\* _on_reconfigure_completed while the loop runs: the controller installs
\* the provider, then camera_reconfigured reaches the inference controllers
\* and the panel.  The panel tries its waiting draft at once; the thread is
\* still registered, so this only saves it, if the file can be written, and
\* leaves it waiting.
Completed(c) ==
    /\ main = "loop" /\ CanEmit
    /\ recon[c].pc = "emitted" /\ recon[c].gen = monitor.gens[c]
    /\ recon' = [recon EXCEPT ![c].pc = "cleanup"]
    /\ monitor' = Install(c)
    /\ Rebind(c, Install(c))
    /\ \E written \in BOOLEAN :
         LET again == ~recon[c].failed /\ editor[c].pending /= Absent
         IN editor' = IF frontend = "qt"
                      THEN [editor EXCEPT ![c].applying = Absent,
                              ![c].saved = IF again /\ written THEN editor[c].pending ELSE @,
                              ![c].card  = IF again \/ recon[c].failed THEN @ ELSE Absent]
                      ELSE editor
    /\ UNCHANGED <<frontend, shell, main, edits, provider>>

\* _cleanup_reconfigure_thread, from a timer, once the thread has ended.
Cleanup(c) ==
    /\ main \in {"loop", "closing"} /\ recon[c].pc = "cleanup"
    /\ recon' = [recon EXCEPT ![c] = NoRecon]
    /\ UNCHANGED <<frontend, shell, main, edits, editor, monitor, provider, focus>>

-----------------------------------------------------------------------------
(* The end.                                                                *)

\* The user closes the window or the shell, which asks the bridge to end;
\* or the shell dies: end of file on the bridge's input asks as well.
ShellLeaves ==
    /\ shell = "open" /\ main = "loop"
    /\ shell' \in IF frontend = "qt" THEN {"asked"} ELSE {"asked", "gone"}
    /\ UNCHANGED <<frontend, main, edits, editor, monitor, recon, provider, focus>>

\* closeEvent of the window.
CloseWindow ==
    /\ frontend = "qt" /\ main = "loop" /\ shell /= "open"
    /\ \E e \in FlushPending(Editing) :
         StopMonitor(e.monitor) /\ editor' = e.editor /\ recon' = e.recon
    /\ main' = "closing"
    /\ UNCHANGED <<frontend, shell, edits, focus>>

BugShutdownForgetsQuit ==
    /\ frontend = "wpf" /\ main = "loop" /\ shell /= "open"
    /\ UNCHANGED desktopVars

\* The shutdown command: _shutdown; its last message may fail, which changes
\* nothing because the bridge is stopping already.
ShutdownBridge ==
    /\ frontend = "wpf" /\ main = "loop" /\ shell /= "open"
    /\ StopMonitor(monitor)
    /\ main' = "closing"
    /\ UNCHANGED <<frontend, shell, edits, editor, recon, focus>>

\* _emit of any other handler, with nobody left to read: the write fails
\* inside the write lock, _shutdown stops everything there, and its own
\* "stopped" message waits for the lock the thread holds.
BrokenEmit ==
    /\ main = "loop" /\ ~CanEmit
    /\ StopMonitor(monitor)
    /\ main' = "stuck"
    /\ UNCHANGED <<frontend, shell, edits, editor, recon, focus>>

\* A completion after the controller stopped: its provider is stopped.
LateCompletion(c) ==
    /\ main = "closing" /\ recon[c].pc = "emitted"
    /\ StopOne(recon[c].new)
    /\ recon' = [recon EXCEPT ![c].pc = "cleanup", ![c].new = Absent]
    /\ UNCHANGED <<frontend, shell, main, edits, editor, monitor, focus>>

\* The process ends, and with it its threads, which are daemons, and all they
\* hold; what was saved stays.
Quit ==
    /\ main = "closing"
    /\ main' = "quit"
    /\ monitor' = NewMonitor(monitor.slots)
    /\ recon' = [c \in Cameras |-> NoRecon]
    /\ provider' = [p \in {} |-> Absent]
    /\ focus' = NoFocus
    /\ UNCHANGED <<frontend, shell, edits, editor>>

-----------------------------------------------------------------------------
Leaves == CloseWindow \/ ShutdownBridge \/ BrokenEmit \/ Quit

MainThread ==
    \/ StartMonitor \/ Leaves
    \/ \E c \in Cameras : Completed(c) \/ Cleanup(c) \/ LateCompletion(c)

ReconThread(c) == ReconStop(c) \/ ReconStart(c)

DesktopNext ==
    \/ MainThread
    \/ ShellLeaves
    \/ \E c \in Cameras : ReconThread(c) \/ PollCamera(c) \/ PanelEdit(c) \/ CommandEdit(c) \/ ShowFocus(c)
    \/ ShowGrid
    \/ \E p \in Made : WorkerEnds(p)
    \/ \E c \in Cameras \cup {Absent} : CommandFocus(c)

\* The event loop turns, and takes up a request to end in the order it came.
DesktopFairness == WF_desktopVars(Leaves)

DesktopSpec == DesktopInit /\ [][DesktopNext]_desktopVars /\ DesktopFairness

-----------------------------------------------------------------------------
(* Properties.                                                             *)

Slots == [edit : 0 .. MaxEdits, on : BOOLEAN]

DesktopTypeOK ==
    /\ frontend \in {"qt", "wpf"} /\ shell \in {"open", "asked", "gone"}
    /\ main \in {"new", "loop", "closing", "stuck", "quit"}
    /\ editor \in [Cameras -> [saved: Slots, pending: Slots \cup {Absent}, applying: Slots \cup {Absent},
                          card: Slots \cup {Absent}]]
    /\ Made \subseteq Providers
    /\ monitor.providers \in [Cameras -> Made \cup {Absent}]
    /\ focus.person \in Made \cup {Absent} /\ focus.face \in Made \cup {Absent}

\* No provider is lost: one that was not told to stop is the installed one of
\* its camera, or in the hands of the camera's reconfiguration, and no camera
\* has two, through any sequence of edits, failures and completions, also those
\* that come after stop() (monitor_controller.py, apply_camera_slot and
\* _on_reconfigure_completed).
NoProviderLost ==
    /\ \A p \in Made : provider[p].worker = "runs" =>
         LET c == provider[p].camera
         IN p = monitor.providers[c] \/ p \in {recon[c].old, recon[c].new}
    /\ \A c \in Cameras : Cardinality({p \in Made : provider[p].camera = c /\ provider[p].worker = "runs"}) <= 1

\* A tile never shows a picture of another configuration of its camera than
\* the one it names, although the reconfiguration is another thread's.
PictureIsOfTheSlot ==
    \A c \in Cameras : monitor.view[c].frame \in {Absent, monitor.slots[c]}

\* Each slot has its own provider, and shows its own pictures.
SlotsKeepTheirProviders == NoProviderLost /\ PictureIsOfTheSlot

\* With the window, both inference controllers read the provider the grid
\* shows whenever the focused camera is not being reconfigured.  The bridge
\* does not: it leaves them with the provider that was stopped.
InferenceFollowsProvider ==
    (frontend = "qt" /\ main = "loop" /\ focus.camera /= Absent) =>
      (recon[focus.camera].pc \in {"none", "cleanup"} => focus = Bind(focus.camera, monitor))

\* The backend ends when its front end has left, unless the bridge wrote to
\* the broken pipe first.
BackendEnds == (shell /= "open" /\ main = "loop") ~> (main = "quit" \/ (main = "stuck" /\ shell = "gone"))

\* "la GUI riusa le astrazioni backend e crea un solo worker per camera nel
\* proprio processo" (app_windows/README.md:303): no two worker threads of one
\* camera are alive, also while an edit replaces the provider.
OneWorkerPerCamera ==
    \A p, q \in Made : /\ provider[p].camera = provider[q].camera
                       /\ {provider[p].worker, provider[q].worker} \subseteq {"runs", "leaving"}
                       => p = q

\* "Le modifiche valide vengono salvate e applicate automaticamente"
\* (app_windows/README.md:116): when no reconfiguration is under way, the
\* controller runs the last edit that was saved.
SavedEditsAreApplied ==
    \A c \in Cameras : (main = "loop" /\ recon[c].pc = "none") => editor[c].saved = monitor.slots[c]

=============================================================================
