----------------------------- MODULE DesktopProofs -----------------------------
(***************************************************************************)
(* Proofs about the desktop application (MCDesktop), part by part.         *)
(*                                                                         *)
(* Its main thread (Desktop): whatever is edited, fails or ends, each      *)
(* camera has one running provider, its tile shows pictures of its own     *)
(* configuration (SlotsKeepTheirProviders) and the window's inference      *)
(* controllers read that provider (InferenceFollowsProvider).  The         *)
(* inductive invariant is DesktopInv; FewProviders counts the providers    *)
(* that are made and will be made.                                         *)
(*                                                                         *)
(* Its inference controllers (DesktopInference): loaded models have an     *)
(* owner (ModelsAreClosed) and what starts to be shown is current          *)
(* (ResultsAreCurrent).  The inductive invariant is InferenceInv;          *)
(* PipesBounded counts the pipelines.                                      *)
(*                                                                         *)
(* Its configuration store (CameraStore): the two files, written one after *)
(* the other with every failure and crash, implement StorePromise.  The    *)
(* inductive invariant is StoreInv; the refinement mapping is the INSTANCE *)
(* of CameraStore, whose unfinished save is named Underway here.           *)
(***************************************************************************)
EXTENDS MCDesktop, FiniteSetTheorems, FunctionTheorems, TLAPS

-----------------------------------------------------------------------------
(* The inductive invariant of the main thread.                             *)

OrAbsent(S) == S \cup {Absent}

Editors == [saved : Slots, pending : OrAbsent(Slots), applying : OrAbsent(Slots), card : OrAbsent(Slots)]
Views == [status : {"CONNECTING", "DISABLED", "ERROR", "LIVE", "OFFLINE"}, frame : OrAbsent(Slots)]
Monitors == [ started : BOOLEAN, slots : [Cameras -> Slots], providers : [Cameras -> OrAbsent(Nat)],
              gens : [Cameras -> Nat], errors : SUBSET Cameras,
              packets : [Cameras -> OrAbsent(Slots)], view : [Cameras -> Views] ]
Recons == [ pc : {"none", "stop", "start", "emitted", "cleanup"}, gen : Nat, old : OrAbsent(Nat),
            slot : OrAbsent(Slots), new : OrAbsent(Nat), failed : BOOLEAN ]
FrameProviders == [camera : Cameras, slot : Slots, worker : {"unstarted", "runs", "leaving", "gone"}]
Foci == [camera : OrAbsent(Cameras), panel : OrAbsent(Cameras), person : OrAbsent(Nat), face : OrAbsent(Nat)]

DesktopTypes ==
    /\ frontend \in {"qt", "wpf"} /\ shell \in {"open", "asked", "gone"}
    /\ main \in {"new", "loop", "closing", "stuck", "quit"}
    /\ edits \in 0 .. MaxEdits
    /\ editor \in [Cameras -> Editors]
    /\ monitor \in Monitors
    /\ recon \in [Cameras -> Recons]
    /\ focus \in Foci

\* The providers are numbered in the order they are made.
ProvidersOf(p) == LET n == Cardinality(DOMAIN p) IN n \in Nat /\ p \in [1 .. n -> FrameProviders]

\* A provider p of camera c with the configuration slot, or none.
IsFor(made, p, c, slot) ==
    p /= Absent => p \in DOMAIN made /\ made[p].camera = c /\ made[p].slot = slot

IsOf(made, p, c) == p /= Absent => p \in DOMAIN made /\ made[p].camera = c

Busy == {"stop", "start", "emitted"}

\* The camera's provider belongs to the controller or, while the camera is
\* being reconfigured, to the reconfiguration, which works for the
\* configuration the controller has.
HandOver(m, r, made, c) ==
    /\ IsFor(made, m.providers[c], c, m.slots[c])
    /\ r[c].pc \in Busy => m.providers[c] = Absent /\ r[c].slot = m.slots[c]
    /\ r[c].pc \in {"none", "stop", "start"} => r[c].new = Absent
    /\ r[c].pc \in {"none", "stop", "start"} => ~r[c].failed
    /\ r[c].pc = "stop" => IsOf(made, r[c].old, c)
    /\ r[c].pc = "emitted" => IsFor(made, r[c].new, c, m.slots[c])
    /\ r[c].failed => r[c].new = Absent

\* The one provider of camera c that may run.
Holder(m, r, c) ==
    CASE r[c].pc = "stop"    -> r[c].old
      [] r[c].pc = "emitted" -> r[c].new
      [] r[c].pc = "start"   -> Absent
      [] OTHER               -> m.providers[c]

OneRuns(m, r, made) ==
    \A p \in DOMAIN made : made[p].worker = "runs" => p = Holder(m, r, made[p].camera)

\* Pictures wait and are shown only of the configuration the camera has.
Pictures(m, c) ==
    m.packets[c] \in {Absent, m.slots[c]} /\ m.view[c].frame \in {Absent, m.slots[c]}

\* The window's controllers read the provider of a focused camera that is
\* not being reconfigured.
Follows(f, m, r) ==
    (f.camera /= Absent /\ r[f.camera].pc \notin Busy) =>
       f.person = m.providers[f.camera] /\ f.face = m.providers[f.camera]

Fresh ==
    /\ focus.camera = Absent /\ Made = {}
    /\ \A c \in Cameras : recon[c].pc = "none"

DesktopInv ==
    /\ DesktopTypes
    /\ ProvidersOf(provider)
    /\ \A c \in Cameras : HandOver(monitor, recon, provider, c) /\ Pictures(monitor, c)
    /\ OneRuns(monitor, recon, provider)
    /\ (frontend = "qt" /\ main = "loop") => Follows(focus, monitor, recon)
    /\ main = "new" => Fresh


-----------------------------------------------------------------------------
(* The providers.                                                          *)

LEMMA CamerasFinite == IsFiniteSet(Cameras) /\ Cardinality(Cameras) \in Nat
BY FS_CardinalityType, DesktopAssumption

LEMMA FirstIs ==
  ASSUME NEW S \in SUBSET Cameras
  PROVE  /\ Cardinality(S) \in Nat /\ Cardinality(S) <= Cardinality(Cameras)
         /\ FirstProviders(S) \in [S -> 1 .. Cardinality(S)]
         /\ \A x, y \in S : FirstProviders(S)[x] = FirstProviders(S)[y] => x = y
         /\ \A p \in 1 .. Cardinality(S) : \E c \in S : FirstProviders(S)[c] = p
<1> DEFINE n == Cardinality(S)
           first == FirstProviders(S)
<1>1. IsFiniteSet(S) /\ n \in Nat /\ ExistsBijection(1 .. n, S) /\ n <= Cardinality(Cameras)
  BY CamerasFinite, FS_Subset, FS_CardinalityType
<1>2. ExistsBijection(S, 1 .. n)
  BY <1>1, Fun_ExistsBijSymmetric
<1>3. PICK f : f \in Bijection(S, 1 .. n)
  BY <1>2 DEF ExistsBijection
<1>4. f \in [S -> 1 .. n] /\ \A x, y \in S : f[x] = f[y] => x = y
  BY <1>3 DEF Bijection, Injection, IsInjective
<1>5. first \in [S -> 1 .. n] /\ \A x, y \in S : first[x] = first[y] => x = y
  <2>1. first = CHOOSE g \in [S -> 1 .. n] : \A x, y \in S : g[x] = g[y] => x = y
    BY DEF FirstProviders
  <2>2. \E g \in [S -> 1 .. n] : \A x, y \in S : g[x] = g[y] => x = y
    BY <1>4
  <2> HIDE DEF n, first
  <2> QED
    BY <2>1, <2>2
<1>6. IsFiniteSet(1 .. n) /\ Cardinality(1 .. n) = n
  BY <1>1, FS_Interval
<1> HIDE DEF first
<1>7. first \in Injection(S, 1 .. n)
  BY <1>5 DEF Injection, IsInjective
<1> HIDE DEF n
<1>8. first \in Surjection(S, 1 .. n)
  BY <1>6, <1>7, <1>1, FS_Injection DEF n
<1>9. \A p \in 1 .. n : \E c \in S : first[c] = p
  BY <1>8 DEF Surjection
<1> QED
  BY <1>1, <1>5, <1>9 DEF n, first

\* made2 has the providers of made, for the same cameras and slots.
KeepsMade(made, made2) ==
    \A p \in DOMAIN made : /\ p \in DOMAIN made2
                           /\ made2[p].camera = made[p].camera /\ made2[p].slot = made[p].slot

LEMMA ProvidersAre ==
  ASSUME NEW made, ProvidersOf(made)
  PROVE  /\ Cardinality(DOMAIN made) \in Nat /\ DOMAIN made = 1 .. Cardinality(DOMAIN made)
         /\ \A p \in DOMAIN made : p \in Nat /\ made[p] \in FrameProviders
BY DEF ProvidersOf

LEMMA NumberedIs ==
  ASSUME NEW n \in Nat, NEW made \in [1 .. n -> FrameProviders]
  PROVE  ProvidersOf(made)
<1>1. DOMAIN made = 1 .. n /\ Cardinality(1 .. n) = n
  BY FS_Interval
<1> QED
  BY <1>1 DEF ProvidersOf

LEMMA WithIs ==
  ASSUME ProvidersOf(provider), NEW r \in FrameProviders
  PROVE  LET made == With(NewProvider, r)
         IN /\ ProvidersOf(made) /\ KeepsMade(provider, made) /\ NewProvider \in Nat
            /\ NewProvider \notin Made /\ DOMAIN made = Made \cup {NewProvider}
            /\ made[NewProvider] = r /\ \A p \in Made : made[p] = provider[p]
<1> DEFINE n == Cardinality(Made)
           made == With(NewProvider, r)
<1>1. n \in Nat /\ Made = 1 .. n /\ \A p \in Made : provider[p] \in FrameProviders
  BY ProvidersAre DEF Made
<1>2. NewProvider = n + 1
  BY DEF NewProvider
<1> HIDE DEF n
<1>3. NewProvider \in Nat /\ NewProvider \notin Made /\ Made \cup {NewProvider} = 1 .. n + 1
  BY <1>1, <1>2
<1>4. /\ DOMAIN made = Made \cup {NewProvider} /\ made[NewProvider] = r
      /\ \A p \in Made : made[p] = provider[p]
  BY <1>3 DEF With
<1>5. made \in [1 .. n + 1 -> FrameProviders]
  BY <1>1, <1>3, <1>4 DEF With
<1>6. n + 1 \in Nat
  BY <1>1
<1> HIDE DEF made
<1>7. ProvidersOf(made)
  BY <1>5, <1>6, NumberedIs
<1>8. KeepsMade(provider, made)
  BY <1>4 DEF KeepsMade, Made
<1> QED
  BY <1>3, <1>4, <1>7, <1>8 DEF made

LEMMA ToldIs ==
  ASSUME NEW f \in FrameProviders
  PROVE  /\ ToldToStop(f) \in FrameProviders /\ ToldToStop(f).worker /= "runs"
         /\ ToldToStop(f).camera = f.camera /\ ToldToStop(f).slot = f.slot
BY DEF ToldToStop, FrameProviders

\* Of some providers the workers are told to stop or end.
Quieter(made, made2) ==
    /\ ProvidersOf(made2) /\ KeepsMade(made, made2) /\ DOMAIN made2 = DOMAIN made
    /\ \A p \in DOMAIN made : made2[p].worker = "runs" => made[p].worker = "runs"

\* One provider is told to stop, or none when there is none.
LEMMA StopOneIs ==
  ASSUME ProvidersOf(provider), NEW i, StopOne(i)
  PROVE  Quieter(provider, provider') /\ \A p \in Made : provider'[p].worker = "runs" => p /= i
<1>1. \A p \in Made : provider[p] \in FrameProviders /\ p \in Nat
  BY ProvidersAre DEF Made
<1>2. Absent \notin Nat
  BY DesktopAssumption
<1>3. CASE i = Absent
  BY <1>1, <1>2, <1>3 DEF StopOne, Quieter, KeepsMade, Made
<1>4. CASE i /= Absent
  <2>1. provider' = [provider EXCEPT ![i] = ToldToStop(@)]
    BY <1>4 DEF StopOne
  <2>2. DOMAIN provider' = Made /\ \A p \in Made : provider'[p] = IF p = i THEN ToldToStop(provider[p]) ELSE provider[p]
    BY <2>1 DEF Made
  <2>3. \A p \in Made : /\ provider'[p].camera = provider[p].camera /\ provider'[p].slot = provider[p].slot
                        /\ provider'[p].worker = "runs" => p /= i /\ provider[p].worker = "runs"
                        /\ provider'[p] \in FrameProviders
    BY <1>1, <2>2, ToldIs
  <2>4. provider' \in [Made -> FrameProviders]
    <3>1. provider' = [p \in Made |-> provider'[p]]
      BY <2>1 DEF Made, ProvidersOf
    <3> QED
      BY <2>3, <3>1
  <2>5. ProvidersOf(provider')
    BY <2>4, ProvidersAre, NumberedIs DEF Made
  <2> QED
    BY <2>2, <2>3, <2>5 DEF Quieter, KeepsMade, Made
<1> QED
  BY <1>3, <1>4

LEMMA HandOverKept ==
  ASSUME NEW m, NEW r, NEW made, NEW made2, NEW c, HandOver(m, r, made, c), KeepsMade(made, made2)
  PROVE  HandOver(m, r, made2, c)
BY DEF HandOver, KeepsMade, IsFor, IsOf

-----------------------------------------------------------------------------
(* The edits of a camera.                                                  *)

\* The controller and its threads m, r are as DesktopInv wants them, with the
\* providers made and the focus f.
Agrees(m, r, made, f) ==
    /\ m \in Monitors /\ r \in [Cameras -> Recons]
    /\ \A c \in Cameras : HandOver(m, r, made, c) /\ Pictures(m, c)
    /\ OneRuns(m, r, made)
    /\ (frontend = "qt") => Follows(f, m, r)

LEMMA InitialViewIs ==
  ASSUME NEW slot PROVE InitialView(slot) \in Views /\ InitialView(slot).frame = Absent
<1>1. CASE slot.on
  BY <1>1 DEF InitialView, Views, OrAbsent
<1>2. CASE ~slot.on
  BY <1>2 DEF InitialView, Views, OrAbsent
<1> QED
  BY <1>1, <1>2

\* Only camera c changes, and it is being reconfigured afterwards.
LEMMA ApplyKeeps ==
  ASSUME NEW m, NEW r, NEW f, Agrees(m, r, provider, f), ProvidersOf(provider), f \in Foci,
         NEW c \in Cameras, NEW slot \in Slots, r[c].pc = "none"
  PROVE  Agrees(ApplyCameraSlot(m, c, slot), [r EXCEPT ![c] = Reconfigure(m, c, slot)], provider, f)
<1> DEFINE m2 == ApplyCameraSlot(m, c, slot)
           new == Reconfigure(m, c, slot)
           r2 == [r EXCEPT ![c] = new]
<1>1. m \in Monitors /\ r \in [Cameras -> Recons]
  BY DEF Agrees
<1>2. PICK g \in Nat : g = m.gens[c] + 1
  BY <1>1 DEF Monitors
<1>3. PICK v \in Views : v = InitialView(slot) /\ v.frame = Absent
  BY InitialViewIs
<1>4. m2 = [m EXCEPT !.slots[c] = slot, !.errors = @ \ {c}, !.packets[c] = Absent,
                     !.view[c] = v, !.providers[c] = Absent, !.gens[c] = g]
  BY <1>2, <1>3 DEF ApplyCameraSlot
<1> HIDE DEF m2
<1>5. /\ m2 \in Monitors
      /\ m2.slots = [m.slots EXCEPT ![c] = slot] /\ m2.packets = [m.packets EXCEPT ![c] = Absent]
      /\ m2.view = [m.view EXCEPT ![c] = v] /\ m2.providers = [m.providers EXCEPT ![c] = Absent]
  BY <1>1, <1>4 DEF Monitors, OrAbsent
<1>6. m.providers[c] \in OrAbsent(Nat)
  BY <1>1 DEF Monitors
<1>7. /\ new \in Recons /\ new.pc = "stop" /\ new.old = m.providers[c] /\ new.slot = slot
      /\ new.new = Absent /\ new.failed = FALSE
  BY <1>2, <1>6 DEF Reconfigure, NoRecon, Recons, OrAbsent
<1> HIDE DEF new
<1>8. r2 \in [Cameras -> Recons] /\ r2[c] = new /\ \A d \in Cameras : d /= c => r2[d] = r[d]
  BY <1>1, <1>7
<1> HIDE DEF r2
<1>9. /\ m2.slots[c] = slot /\ m2.packets[c] = Absent /\ m2.view[c].frame = Absent /\ m2.providers[c] = Absent
      /\ \A d \in Cameras : d /= c => /\ m2.slots[d] = m.slots[d] /\ m2.packets[d] = m.packets[d]
                                      /\ m2.view[d] = m.view[d] /\ m2.providers[d] = m.providers[d]
  BY <1>1, <1>3, <1>5 DEF Monitors
<1>10. \A d \in Cameras : HandOver(m2, r2, provider, d)
  <2> TAKE d \in Cameras
  <2>1. HandOver(m, r, provider, d)
    BY DEF Agrees
  <2>2. CASE d = c
    BY <1>7, <1>8, <1>9, <2>1, <2>2 DEF HandOver, IsFor, IsOf, Busy
  <2>3. CASE d /= c
    BY <1>8, <1>9, <2>1, <2>3 DEF HandOver
  <2> QED
    BY <2>2, <2>3
<1>11. \A d \in Cameras : Pictures(m2, d)
  <2> TAKE d \in Cameras
  <2>1. Pictures(m, d)
    BY DEF Agrees
  <2> QED
    BY <1>9, <2>1 DEF Pictures
<1>12. \A d \in Cameras : Holder(m2, r2, d) = Holder(m, r, d)
  <2> TAKE d \in Cameras
  <2>1. CASE d = c
    BY <1>7, <1>8, <2>1 DEF Holder
  <2>2. CASE d /= c
    BY <1>8, <1>9, <2>2 DEF Holder
  <2> QED
    BY <2>1, <2>2
<1>13. OneRuns(m2, r2, provider)
  <2>1. \A p \in DOMAIN provider : provider[p].camera \in Cameras
    BY ProvidersAre DEF FrameProviders
  <2> QED
    BY <1>12, <2>1 DEF Agrees, OneRuns
<1>14. Follows(f, m, r) => Follows(f, m2, r2)
  <2>1. f.camera \in Cameras \cup {Absent}
    BY DEF Foci, OrAbsent
  <2> QED
    BY <1>7, <1>8, <1>9, <2>1 DEF Follows, Busy
<1> QED
  BY <1>5, <1>8, <1>10, <1>11, <1>13, <1>14 DEF Agrees, m2, r2, new

\* An edit e of the cameras is as DesktopInv wants it.
EditOK(e) ==
    /\ e.editor \in [Cameras -> Editors]
    /\ Agrees(e.monitor, e.recon, provider, focus)

Edit(e) == e = [editor |-> e.editor, monitor |-> e.monitor, recon |-> e.recon]

\* One camera's entry of the editor changes, and the rest of the edit is e's.
LEMMA EditorKeeps ==
  ASSUME NEW e, Edit(e), EditOK(e), NEW c \in Cameras, NEW x \in Editors
  PROVE  /\ Edit([e EXCEPT !.editor[c] = x]) /\ EditOK([e EXCEPT !.editor[c] = x])
         /\ [e EXCEPT !.editor[c] = x].editor = [e.editor EXCEPT ![c] = x]
         /\ [e EXCEPT !.editor[c] = x].recon = e.recon
<1> DEFINE e2 == [e EXCEPT !.editor[c] = x]
<1>1. e2 = [editor |-> [e.editor EXCEPT ![c] = x], monitor |-> e.monitor, recon |-> e.recon]
  BY DEF Edit
<1>2. e2.editor = [e.editor EXCEPT ![c] = x] /\ e2.monitor = e.monitor /\ e2.recon = e.recon
  BY <1>1
<1>3. Edit(e2)
  BY <1>1, <1>2 DEF Edit
<1>4. e2.editor \in [Cameras -> Editors]
  BY <1>2 DEF EditOK
<1>5. EditOK(e2)
  BY <1>2, <1>4 DEF EditOK
<1> QED
  BY <1>2, <1>3, <1>5

LEMMA AppliedKeeps ==
  ASSUME NEW e, EditOK(e), ProvidersOf(provider), focus \in Foci, NEW c \in Cameras, NEW x \in Editors,
         NEW slot \in Slots, e.recon[c].pc = "none"
  PROVE  LET e2 == [ editor  |-> [e.editor EXCEPT ![c] = x],
                     monitor |-> ApplyCameraSlot(e.monitor, c, slot),
                     recon   |-> [e.recon EXCEPT ![c] = Reconfigure(e.monitor, c, slot)] ]
         IN EditOK(e2)
<1> DEFINE ed == [e.editor EXCEPT ![c] = x]
           m == ApplyCameraSlot(e.monitor, c, slot)
           r == [e.recon EXCEPT ![c] = Reconfigure(e.monitor, c, slot)]
           e2 == [editor |-> ed, monitor |-> m, recon |-> r]
<1>1. ed \in [Cameras -> Editors]
  BY DEF EditOK
<1>2. Agrees(m, r, provider, focus)
  BY ApplyKeeps DEF EditOK
<1> HIDE DEF ed, m, r
<1>3. e2.editor = ed /\ e2.monitor = m /\ e2.recon = r
  OBVIOUS
<1> HIDE DEF e2
<1>4. EditOK(e2)
  BY <1>1, <1>2, <1>3 DEF EditOK
<1> QED
  BY <1>4 DEF e2, ed, m, r

LEMMA TryApplyKeeps ==
  ASSUME NEW e, Edit(e), EditOK(e), ProvidersOf(provider), focus \in Foci,
         NEW c \in Cameras, NEW draft \in Slots, NEW written \in BOOLEAN
  PROVE  EditOK(TryApply(e, c, draft, written))
<1> DEFINE d == e.editor[c]
<1>1. d \in Editors /\ e.editor \in [Cameras -> Editors]
  BY DEF EditOK
<1>2. CASE d.applying /= Absent \/ ~written
  <2> DEFINE x == [d EXCEPT !.pending = draft]
  <2>1. x \in Editors
    BY <1>1 DEF Editors, OrAbsent
  <2>2. TryApply(e, c, draft, written) = [e EXCEPT !.editor[c] = x]
    BY <1>2 DEF TryApply
  <2> HIDE DEF x
  <2> QED
    BY <2>1, <2>2, EditorKeeps
<1>3. CASE ~(d.applying /= Absent \/ ~written) /\ e.recon[c].pc /= "none"
  <2> DEFINE x == [d EXCEPT !.saved = draft, !.pending = draft]
  <2>1. x \in Editors
    BY <1>1 DEF Editors, OrAbsent
  <2>2. TryApply(e, c, draft, written) = [e EXCEPT !.editor[c].saved = draft, !.editor[c].pending = draft]
    BY <1>3 DEF TryApply
  <2>3. [e EXCEPT !.editor[c].saved = draft, !.editor[c].pending = draft] = [e EXCEPT !.editor[c] = x]
    BY <1>1 DEF Edit, Editors
  <2> HIDE DEF x
  <2> QED
    BY <2>1, <2>2, <2>3, EditorKeeps
<1>4. CASE ~(d.applying /= Absent \/ ~written) /\ e.recon[c].pc = "none"
  <2> DEFINE x == [d EXCEPT !.saved = draft, !.pending = Absent, !.applying = draft]
  <2>1. x \in Editors
    BY <1>1 DEF Editors, OrAbsent
  <2>2. [e.editor EXCEPT ![c].saved = draft, ![c].pending = Absent, ![c].applying = draft]
          = [e.editor EXCEPT ![c] = x]
    BY <1>1 DEF Editors
  <2>3. TryApply(e, c, draft, written) =
          [ editor  |-> [e.editor EXCEPT ![c] = x],
            monitor |-> ApplyCameraSlot(e.monitor, c, draft),
            recon   |-> [e.recon EXCEPT ![c] = Reconfigure(e.monitor, c, draft)] ]
    BY <1>4, <2>2 DEF TryApply
  <2> HIDE DEF x
  <2> QED
    BY <1>4, <2>1, <2>3, AppliedKeeps
<1> QED
  BY <1>2, <1>3, <1>4

LEMMA SaveCameraKeeps ==
  ASSUME NEW e, Edit(e), EditOK(e), ProvidersOf(provider), focus \in Foci,
         NEW c \in Cameras, NEW draft \in Slots, NEW written \in BOOLEAN
  PROVE  EditOK(SaveCamera(e, c, draft, written))
<1> DEFINE x == [e.editor[c] EXCEPT !.saved = draft]
<1>1. e.editor[c] \in Editors /\ e.editor \in [Cameras -> Editors]
  BY DEF EditOK
<1>2. x \in Editors
  BY <1>1 DEF Editors
<1>3. CASE ~written
  BY <1>3 DEF SaveCamera
<1>4. CASE written /\ e.recon[c].pc /= "none"
  <2>1. SaveCamera(e, c, draft, written) = [e EXCEPT !.editor[c] = x]
    BY <1>4 DEF SaveCamera
  <2> HIDE DEF x
  <2>2. EditOK([e EXCEPT !.editor[c] = x])
    BY <1>2, EditorKeeps
  <2> QED
    BY <2>1, <2>2
<1>5. CASE written /\ e.recon[c].pc = "none"
  <2>1. SaveCamera(e, c, draft, written) =
          [ editor  |-> [e.editor EXCEPT ![c] = x],
            monitor |-> ApplyCameraSlot(e.monitor, c, draft),
            recon   |-> [e.recon EXCEPT ![c] = Reconfigure(e.monitor, c, draft)] ]
    BY <1>5 DEF SaveCamera
  <2> HIDE DEF x
  <2>2. e.recon[c].pc = "none"
    BY <1>5
  <2>3. EditOK([ editor  |-> [e.editor EXCEPT ![c] = x],
                 monitor |-> ApplyCameraSlot(e.monitor, c, draft),
                 recon   |-> [e.recon EXCEPT ![c] = Reconfigure(e.monitor, c, draft)] ])
    BY <1>2, <2>2, AppliedKeeps
  <2> QED
    BY <2>1, <2>3
<1> QED
  BY <1>3, <1>4, <1>5

LEMMA FlushKeeps ==
  ASSUME NEW e, Edit(e), EditOK(e), ProvidersOf(provider), focus \in Foci
  PROVE  \A flushed \in FlushPending(e) : EditOK(flushed)
<1> DEFINE c == focus.panel
           draft == e.editor[c].card
           x == [e.editor[c] EXCEPT !.card = Absent]
<1>1. CASE c /= Absent /\ draft /= Absent
  <2>1. c \in Cameras
    BY <1>1 DEF Foci, OrAbsent
  <2>2. e.editor[c] \in Editors
    BY <2>1 DEF EditOK
  <2>3. draft \in Slots /\ x \in Editors
    BY <1>1, <2>2 DEF Editors, OrAbsent
  <2>4. FlushPending(e) = {TryApply([e EXCEPT !.editor[c] = x], c, draft, written) : written \in BOOLEAN}
    BY <1>1 DEF FlushPending
  <2> HIDE DEF c, draft, x
  <2> DEFINE e2 == [e EXCEPT !.editor[c] = x]
  <2>5. Edit(e2) /\ EditOK(e2)
    BY <2>1, <2>3, EditorKeeps
  <2> HIDE DEF e2
  <2>6. \A written \in BOOLEAN : EditOK(TryApply(e2, c, draft, written))
    BY <2>1, <2>3, <2>5, TryApplyKeeps
  <2> QED
    BY <2>4, <2>6 DEF e2
<1>2. CASE ~(c /= Absent /\ draft /= Absent)
  BY <1>2 DEF FlushPending
<1> QED
  BY <1>1, <1>2

LEMMA EditingIs ==
  ASSUME DesktopInv, main = "loop"
  PROVE  /\ Edit(Editing) /\ EditOK(Editing)
         /\ Editing.editor = editor /\ Editing.monitor = monitor /\ Editing.recon = recon
<1>1. Editing.editor = editor /\ Editing.monitor = monitor /\ Editing.recon = recon
  BY DEF Editing
<1>2. Edit(Editing)
  BY <1>1 DEF Edit, Editing
<1>3. Agrees(monitor, recon, provider, focus)
  BY DEF DesktopInv, DesktopTypes, Agrees
<1>4. EditOK(Editing)
  BY <1>1, <1>3 DEF EditOK, DesktopInv, DesktopTypes
<1> QED
  BY <1>1, <1>2, <1>4

-----------------------------------------------------------------------------
(* The steps of the controller and of its reconfiguration threads.         *)

\* The camera's provider or picture changes and its configuration does not.
SameSlots(m, m2) ==
    /\ m2 \in Monitors /\ m2.slots = m.slots /\ m2.providers = m.providers

LEMMA SameSlotsKeep ==
  ASSUME NEW m, NEW m2, NEW r, NEW made, SameSlots(m, m2)
  PROVE  /\ \A c \in Cameras : HandOver(m, r, made, c) => HandOver(m2, r, made, c)
         /\ OneRuns(m, r, made) => OneRuns(m2, r, made)
         /\ \A f : Follows(f, m, r) => Follows(f, m2, r)
<1>1. \A c : Holder(m2, r, c) = Holder(m, r, c)
  BY DEF Holder, SameSlots
<1> QED
  BY <1>1 DEF HandOver, OneRuns, Follows, SameSlots

LEMMA ShownIs ==
  ASSUME NEW m \in Monitors, NEW c \in Cameras, NEW frame \in OrAbsent(Slots),
         NEW status \in {"CONNECTING", "DISABLED", "ERROR", "LIVE", "OFFLINE"}
  PROVE  /\ SameSlots(m, Shown(m, c, status, frame)) /\ Shown(m, c, status, frame).packets = m.packets
         /\ Shown(m, c, status, frame).view[c].frame = frame
         /\ \A d \in Cameras : d /= c => Shown(m, c, status, frame).view[d] = m.view[d]
<1> DEFINE v == [status |-> status, frame |-> frame]
           m2 == [m EXCEPT !.view[c] = v]
<1>1. v \in Views /\ v.frame = frame
  BY DEF Views
<1> HIDE DEF v
<1>2. m2 \in Monitors /\ m2.view = [m.view EXCEPT ![c] = v] /\ m2.slots = m.slots /\ m2.packets = m.packets
      /\ m2.providers = m.providers
  BY <1>1 DEF Monitors
<1>3. m.view \in [Cameras -> Views]
  BY DEF Monitors
<1>4. Shown(m, c, status, frame) = m2
  BY DEF Shown, v
<1> HIDE DEF m2
<1> QED
  BY <1>1, <1>2, <1>3, <1>4 DEF SameSlots

LEMMA PollOneKeeps ==
  ASSUME DesktopInv, main = "loop", NEW c \in Cameras, NEW reading \in Readings
  PROVE  /\ SameSlots(monitor, PollOne(monitor, c, reading))
         /\ \A d \in Cameras : Pictures(PollOne(monitor, c, reading), d)
<1>1. /\ monitor \in Monitors /\ \A d \in Cameras : Pictures(monitor, d)
      /\ HandOver(monitor, recon, provider, c) /\ monitor.slots[c] \in Slots
  BY DEF DesktopInv, DesktopTypes, Monitors
<1>2. SameSlots(monitor, monitor)
  BY <1>1 DEF SameSlots
<1>3. \A m \in Monitors : \A status \in {"CONNECTING", "DISABLED", "ERROR", "LIVE", "OFFLINE"}, frame \in {Absent, monitor.slots[c]} :
        (/\ SameSlots(monitor, m) /\ m.view = monitor.view
         /\ m.packets[c] \in {Absent, monitor.slots[c]}
         /\ \A d \in Cameras : d /= c => m.packets[d] = monitor.packets[d])
        => /\ SameSlots(monitor, Shown(m, c, status, frame))
           /\ \A d \in Cameras : Pictures(Shown(m, c, status, frame), d)
  <2> SUFFICES ASSUME NEW m \in Monitors, NEW frame \in {Absent, monitor.slots[c]},
                      NEW status \in {"CONNECTING", "DISABLED", "ERROR", "LIVE", "OFFLINE"},
                      SameSlots(monitor, m), m.view = monitor.view, m.packets[c] \in {Absent, monitor.slots[c]},
                      \A d \in Cameras : d /= c => m.packets[d] = monitor.packets[d]
               PROVE  /\ SameSlots(monitor, Shown(m, c, status, frame))
                      /\ \A d \in Cameras : Pictures(Shown(m, c, status, frame), d)
    OBVIOUS
  <2>1. frame \in OrAbsent(Slots)
    BY <1>1 DEF OrAbsent
  <2> DEFINE m2 == Shown(m, c, status, frame)
  <2>2. /\ SameSlots(m, m2) /\ m2.packets = m.packets /\ m2.view[c].frame = frame
        /\ \A d \in Cameras : d /= c => m2.view[d] = m.view[d]
    BY <2>1, ShownIs
  <2> HIDE DEF m2
  <2>3. SameSlots(monitor, m2)
    BY <2>2 DEF SameSlots
  <2>4. \A d \in Cameras : Pictures(m2, d)
    BY <1>1, <2>2, <2>3 DEF Pictures, SameSlots
  <2> QED
    BY <2>3, <2>4 DEF m2
<1>4. CASE monitor.providers[c] = Absent
  <2>1. PollOne(monitor, c, reading) = IF c \in monitor.errors THEN Shown(monitor, c, "ERROR", Absent) ELSE monitor
    BY <1>4 DEF PollOne
  <2>2. monitor.packets[c] \in {Absent, monitor.slots[c]}
    BY <1>1 DEF Pictures
  <2>3. /\ SameSlots(monitor, Shown(monitor, c, "ERROR", Absent))
        /\ \A d \in Cameras : Pictures(Shown(monitor, c, "ERROR", Absent), d)
    BY <1>1, <1>2, <1>3, <2>2
  <2>4. CASE c \in monitor.errors
    <3>1. PollOne(monitor, c, reading) = Shown(monitor, c, "ERROR", Absent)
      BY <2>1, <2>4
    <3> QED
      BY <2>3, <3>1
  <2>5. CASE c \notin monitor.errors
    <3>1. PollOne(monitor, c, reading) = monitor
      BY <2>1, <2>5
    <3> QED
      BY <1>1, <1>2, <3>1
  <2> QED
    BY <2>4, <2>5
<1>5. CASE monitor.providers[c] /= Absent /\ reading = "raises"
  <2> DEFINE m == [monitor EXCEPT !.errors = @ \cup {c}]
  <2>1. PollOne(monitor, c, reading) = Shown(m, c, "ERROR", Absent)
    BY <1>5 DEF PollOne
  <2>2. m \in Monitors /\ SameSlots(monitor, m) /\ m.view = monitor.view /\ m.packets = monitor.packets
    BY <1>1 DEF Monitors, SameSlots
  <2>3. monitor.packets[c] \in {Absent, monitor.slots[c]}
    BY <1>1 DEF Pictures
  <2> HIDE DEF m
  <2>4. /\ SameSlots(monitor, Shown(m, c, "ERROR", Absent))
        /\ \A d \in Cameras : Pictures(Shown(m, c, "ERROR", Absent), d)
    BY <1>3, <2>2, <2>3
  <2> QED
    BY <2>1, <2>4
<1>6. CASE monitor.providers[c] /= Absent /\ reading /= "raises"
  <2> DEFINE packet == IF reading = "frame" THEN provider[monitor.providers[c]].slot ELSE monitor.packets[c]
             status == CASE reading = "frame"   -> "LIVE"
                         [] reading = "waiting" -> IF packet = Absent THEN "CONNECTING" ELSE "LIVE"
                         [] reading = "lost"    -> "OFFLINE"
             m == [monitor EXCEPT !.packets[c] = packet]
  <2>1. PollOne(monitor, c, reading) = Shown(m, c, status, packet)
    BY <1>6 DEF PollOne
  <2>2. provider[monitor.providers[c]].slot = monitor.slots[c]
    BY <1>1, <1>6 DEF HandOver, IsFor
  <2>3. packet \in {Absent, monitor.slots[c]} /\ packet \in OrAbsent(Slots)
    BY <1>1, <2>2 DEF Pictures, OrAbsent
  <2> HIDE DEF packet
  <2>4. status \in {"CONNECTING", "DISABLED", "ERROR", "LIVE", "OFFLINE"}
    BY <1>6 DEF Readings
  <2> HIDE DEF status
  <2>5. /\ m \in Monitors /\ SameSlots(monitor, m) /\ m.view = monitor.view
        /\ m.packets = [monitor.packets EXCEPT ![c] = packet]
    BY <1>1, <2>3 DEF Monitors, SameSlots
  <2>6. /\ m.packets[c] = packet /\ \A d \in Cameras : d /= c => m.packets[d] = monitor.packets[d]
    BY <1>1, <2>5 DEF Monitors
  <2> HIDE DEF m
  <2>7. /\ SameSlots(monitor, Shown(m, c, status, packet))
        /\ \A d \in Cameras : Pictures(Shown(m, c, status, packet), d)
    BY <1>3, <2>3, <2>4, <2>5, <2>6
  <2> QED
    BY <2>1, <2>7
<1> QED
  BY <1>4, <1>5, <1>6

LEMMA PollKeeps ==
  ASSUME DesktopInv, NEW c \in Cameras, PollCamera(c) PROVE DesktopInv'
<1>1. main = "loop" /\ UNCHANGED <<frontend, shell, main, edits, editor, recon, provider, focus>>
  BY DEF PollCamera
<1>2. SameSlots(monitor, monitor') /\ \A d \in Cameras : Pictures(monitor', d)
  <2>1. PICK reading \in Readings : monitor' = PollOne(monitor, c, reading)
    BY DEF PollCamera, ReadingsOf, Readings
  <2> QED
    BY <1>1, <2>1, PollOneKeeps
<1>3. /\ \A d \in Cameras : HandOver(monitor', recon, provider, d)
      /\ OneRuns(monitor', recon, provider)
      /\ frontend = "qt" => Follows(focus, monitor', recon)
  BY <1>1, <1>2, SameSlotsKeep DEF DesktopInv
<1>4. monitor' \in Monitors
  BY <1>2 DEF SameSlots
<1> QED
  BY <1>1, <1>2, <1>3, <1>4 DEF DesktopInv, DesktopTypes

LEMMA ReconStopKeeps ==
  ASSUME DesktopInv, NEW c \in Cameras, ReconStop(c) PROVE DesktopInv'
<1>1. /\ recon[c].pc = "stop" /\ recon \in [Cameras -> Recons]
      /\ UNCHANGED <<frontend, shell, main, edits, editor, monitor, focus>>
      /\ ProvidersOf(provider) /\ StopOne(recon[c].old)
  BY DEF ReconStop, DesktopInv, DesktopTypes
<1>2. main /= "new"
  BY <1>1 DEF DesktopInv, Fresh
<1>3. /\ ProvidersOf(provider') /\ KeepsMade(provider, provider') /\ DOMAIN provider' = Made
      /\ \A p \in Made : provider'[p].worker = "runs" => p /= recon[c].old /\ provider[p].worker = "runs"
  BY <1>1, StopOneIs DEF Quieter, Made
<1>4. recon[c].new = Absent
  BY <1>1 DEF DesktopInv, HandOver
<1>5. /\ recon' \in [Cameras -> Recons] /\ recon'[c].pc \in {"start", "emitted"}
      /\ recon'[c].slot = recon[c].slot /\ recon'[c].new = Absent
      /\ recon'[c].pc = "start" => recon'[c].failed = recon[c].failed
      /\ \A d \in Cameras : d /= c => recon'[d] = recon[d]
  <2>1. CASE recon' = [recon EXCEPT ![c].pc = "start"]
    BY <1>1, <1>4, <2>1 DEF Recons
  <2>2. CASE recon' = [recon EXCEPT ![c].pc = "emitted", ![c].failed = TRUE]
    BY <1>1, <1>4, <2>2 DEF Recons
  <2> QED
    BY <2>1, <2>2 DEF ReconStop
<1>6. \A d \in Cameras : HandOver(monitor', recon', provider', d)
  <2> TAKE d \in Cameras
  <2>1. HandOver(monitor, recon, provider', d)
    BY <1>3, HandOverKept DEF DesktopInv
  <2>2. CASE d = c
    BY <1>1, <1>5, <2>1, <2>2 DEF HandOver, Busy, IsFor
  <2>3. CASE d /= c
    BY <1>1, <1>5, <2>1, <2>3 DEF HandOver
  <2> QED
    BY <2>2, <2>3
<1>7. OneRuns(monitor', recon', provider')
  <2> SUFFICES ASSUME NEW p \in Made, provider'[p].worker = "runs"
               PROVE  p = Holder(monitor', recon', provider'[p].camera)
    BY <1>3 DEF OneRuns
  <2>1. p /= recon[c].old /\ provider[p].worker = "runs" /\ provider'[p].camera = provider[p].camera
    BY <1>3 DEF KeepsMade, Made
  <2>2. p = Holder(monitor, recon, provider[p].camera) /\ provider[p].camera \in Cameras
    BY <1>1, <2>1, ProvidersAre DEF DesktopInv, OneRuns, Made, FrameProviders
  <2>3. provider[p].camera /= c
    BY <1>1, <2>1, <2>2 DEF Holder
  <2> QED
    BY <1>1, <1>5, <2>1, <2>2, <2>3 DEF Holder
<1>8. (frontend = "qt" /\ main = "loop") => Follows(focus', monitor', recon')
  <2>1. focus.camera \in Cameras \cup {Absent}
    BY DEF DesktopInv, DesktopTypes, Foci, OrAbsent
  <2> QED
    BY <1>1, <1>5, <2>1 DEF DesktopInv, Follows, Busy
<1> QED
  BY <1>1, <1>2, <1>3, <1>5, <1>6, <1>7, <1>8 DEF DesktopInv, DesktopTypes, Pictures

\* The thread of a worker that was told to stop ends.
LEMMA WorkerEndsKeeps ==
  ASSUME DesktopInv, NEW p \in Made, WorkerEnds(p) PROVE DesktopInv'
<1>1. /\ main = "loop" /\ ProvidersOf(provider)
      /\ UNCHANGED <<frontend, shell, main, edits, editor, monitor, recon, focus>>
      /\ provider' = [provider EXCEPT ![p].worker = "gone"]
  BY DEF WorkerEnds, DesktopInv
<1>2. \A q \in Made : provider[q] \in FrameProviders
  BY <1>1, ProvidersAre DEF Made
<1>3. \A q \in Made : /\ provider'[q] \in FrameProviders /\ provider'[q].camera = provider[q].camera
                      /\ provider'[q].slot = provider[q].slot
                      /\ provider'[q].worker = "runs" => provider[q].worker = "runs"
  BY <1>1, <1>2 DEF FrameProviders, Made
<1>4. DOMAIN provider' = Made /\ provider' \in [Made -> FrameProviders]
  BY <1>1, <1>2, <1>3 DEF Made, FrameProviders, ProvidersOf
<1>5. ProvidersOf(provider') /\ KeepsMade(provider, provider')
  BY <1>1, <1>3, <1>4, ProvidersAre, NumberedIs DEF KeepsMade, Made
<1>6. \A c \in Cameras : HandOver(monitor', recon', provider', c)
  BY <1>1, <1>5, HandOverKept DEF DesktopInv
<1>7. OneRuns(monitor', recon', provider')
  BY <1>1, <1>3, <1>4 DEF OneRuns, DesktopInv, Made
<1> QED
  BY <1>1, <1>5, <1>6, <1>7 DEF DesktopInv, DesktopTypes, Pictures

\* ReconStart: the thread of camera c is the only one that changes, and the
\* provider it made, if any, the only new one.
LEMMA ReconStartKeeps ==
  ASSUME DesktopInv, NEW c \in Cameras, ReconStart(c) PROVE DesktopInv'
<1>1. /\ recon[c].pc = "start" /\ recon \in [Cameras -> Recons] /\ monitor \in Monitors
      /\ UNCHANGED <<frontend, shell, main, edits, editor, monitor, focus>>
      /\ ProvidersOf(provider) /\ HandOver(monitor, recon, provider, c)
  BY DEF ReconStart, DesktopInv, DesktopTypes
<1>2. main /= "new"
  BY <1>1 DEF DesktopInv, Fresh
<1>3. /\ monitor.providers[c] = Absent /\ recon[c].slot = monitor.slots[c] /\ recon[c].slot \in Slots
      /\ recon[c].new = Absent /\ ~recon[c].failed
  BY <1>1 DEF HandOver, Busy, Monitors
<1> DEFINE Started(new, failed) ==
      /\ recon' \in [Cameras -> Recons] /\ recon'[c].pc = "emitted" /\ recon'[c].slot = recon[c].slot
      /\ recon'[c].new = new /\ recon'[c].failed = failed
      /\ \A d \in Cameras : d /= c => recon'[d] = recon[d]
<1>4. ASSUME NEW new, NEW failed \in BOOLEAN, Started(new, failed), failed => new = Absent,
             ProvidersOf(provider'), KeepsMade(provider, provider'),
             IsFor(provider', new, c, monitor.slots[c]),
             \A p \in DOMAIN provider' : p /= new => p \in Made /\ provider'[p].worker = provider[p].worker,
             new /= Absent => new \notin Made
      PROVE  DesktopInv'
  <2>1. \A d \in Cameras : HandOver(monitor', recon', provider', d)
    <3> TAKE d \in Cameras
    <3>1. HandOver(monitor, recon, provider', d)
      BY <1>4, HandOverKept DEF DesktopInv
    <3>2. CASE d = c
      BY <1>1, <1>3, <1>4, <3>1, <3>2 DEF HandOver, Busy
    <3>3. CASE d /= c
      BY <1>1, <1>4, <3>1, <3>3 DEF HandOver
    <3> QED
      BY <3>2, <3>3
  <2>2. OneRuns(monitor', recon', provider')
    <3> SUFFICES ASSUME NEW p \in DOMAIN provider', provider'[p].worker = "runs"
                 PROVE  p = Holder(monitor', recon', provider'[p].camera)
      BY DEF OneRuns
    <3>1. CASE p = new
      <4>1. p /= Absent
        BY <1>4, ProvidersAre, DesktopAssumption
      <4>2. provider'[p].camera = c
        BY <1>4, <3>1, <4>1 DEF IsFor
      <4> QED
        BY <1>4, <3>1, <4>2 DEF Holder
    <3>2. CASE p /= new
      <4>1. p \in Made /\ provider[p].worker = "runs" /\ provider'[p].camera = provider[p].camera
        BY <1>4, <3>2 DEF KeepsMade, Made
      <4>2. /\ p = Holder(monitor, recon, provider[p].camera) /\ provider[p].camera \in Cameras
            /\ p /= Absent
        BY <1>1, <4>1, ProvidersAre, DesktopAssumption DEF DesktopInv, OneRuns, Made, FrameProviders
      <4>3. provider[p].camera /= c
        BY <1>1, <1>3, <4>2 DEF Holder
      <4> QED
        BY <1>1, <1>4, <4>1, <4>2, <4>3 DEF Holder
    <3> QED
      BY <3>1, <3>2
  <2>3. (frontend = "qt" /\ main = "loop") => Follows(focus', monitor', recon')
    <3>1. focus.camera \in Cameras \cup {Absent}
      BY DEF DesktopInv, DesktopTypes, Foci, OrAbsent
    <3> QED
      BY <1>1, <1>4, <3>1 DEF DesktopInv, Follows, Busy
  <2>4. DesktopTypes'
    BY <1>1, <1>4 DEF DesktopInv, DesktopTypes
  <2>5. \A d \in Cameras : Pictures(monitor', d)
    BY <1>1 DEF DesktopInv
  <2> QED
    BY <1>1, <1>2, <1>4, <2>1, <2>2, <2>3, <2>4, <2>5 DEF DesktopInv
<1>5. CASE /\ provider' = With(NewProvider, NewFrameProvider(c, recon[c].slot, "runs"))
           /\ recon' = [recon EXCEPT ![c].pc = "emitted", ![c].new = NewProvider]
  <2> DEFINE r == NewFrameProvider(c, recon[c].slot, "runs")
  <2>1. r \in FrameProviders /\ r.camera = c /\ r.slot = monitor.slots[c]
    BY <1>3 DEF NewFrameProvider, FrameProviders
  <2>a. provider' = With(NewProvider, r)
    BY <1>5
  <2> HIDE DEF r
  <2>2. /\ ProvidersOf(provider') /\ KeepsMade(provider, provider') /\ NewProvider \in Nat
        /\ NewProvider \notin Made /\ DOMAIN provider' = Made \cup {NewProvider}
        /\ provider'[NewProvider] = r /\ \A p \in Made : provider'[p] = provider[p]
    BY <1>1, <2>1, <2>a, WithIs
  <2>3. PICK n \in Nat : n = NewProvider
    BY <2>2
  <2>4. Started(n, FALSE)
    BY <1>1, <1>3, <1>5, <2>3 DEF Recons, OrAbsent
  <2>5. IsFor(provider', n, c, monitor.slots[c])
    BY <2>1, <2>2, <2>3 DEF IsFor
  <2> HIDE DEF Started
  <2> QED
    BY <1>4, <2>2, <2>3, <2>4, <2>5
<1>6. CASE provider' = provider /\ recon' = [recon EXCEPT ![c].pc = "emitted"]
  <2>1. Started(Absent, FALSE)
    BY <1>1, <1>3, <1>6 DEF Recons, OrAbsent
  <2>2. KeepsMade(provider, provider') /\ IsFor(provider', Absent, c, monitor.slots[c])
    BY <1>6 DEF KeepsMade, IsFor
  <2> HIDE DEF Started
  <2> QED
    BY <1>1, <1>4, <1>6, <2>1, <2>2 DEF Made
<1>7. CASE provider' = provider /\ recon' = [recon EXCEPT ![c].pc = "emitted", ![c].failed = TRUE]
  <2>1. Started(Absent, TRUE)
    BY <1>1, <1>3, <1>7 DEF Recons, OrAbsent
  <2>2. KeepsMade(provider, provider') /\ IsFor(provider', Absent, c, monitor.slots[c])
    BY <1>7 DEF KeepsMade, IsFor
  <2> HIDE DEF Started
  <2> QED
    BY <1>1, <1>4, <1>7, <2>1, <2>2 DEF Made
<1> QED
  BY <1>5, <1>6, <1>7 DEF ReconStart

LEMMA CleanupKeeps ==
  ASSUME DesktopInv, NEW c \in Cameras, Cleanup(c) PROVE DesktopInv'
<1>1. /\ recon[c].pc = "cleanup" /\ recon \in [Cameras -> Recons]
      /\ UNCHANGED <<frontend, shell, main, edits, editor, monitor, provider, focus>>
      /\ recon' = [recon EXCEPT ![c] = NoRecon] /\ main \in {"loop", "closing"}
  BY DEF Cleanup, DesktopInv, DesktopTypes
<1>2. NoRecon \in Recons /\ NoRecon.pc = "none" /\ NoRecon.new = Absent /\ ~NoRecon.failed
  BY DEF NoRecon, Recons, OrAbsent
<1>3. recon' \in [Cameras -> Recons] /\ recon'[c] = NoRecon /\ \A d \in Cameras : d /= c => recon'[d] = recon[d]
  BY <1>1, <1>2
<1>4. \A d \in Cameras : HandOver(monitor', recon', provider', d)
  <2> TAKE d \in Cameras
  <2>1. HandOver(monitor, recon, provider, d)
    BY DEF DesktopInv
  <2> QED
    BY <1>1, <1>2, <1>3, <2>1 DEF HandOver, Busy
<1>5. \A d \in Cameras : Holder(monitor', recon', d) = Holder(monitor, recon, d)
  BY <1>1, <1>2, <1>3 DEF Holder
<1>6. OneRuns(monitor', recon', provider')
  <2>1. \A p \in DOMAIN provider : provider[p].camera \in Cameras
    BY ProvidersAre DEF FrameProviders, DesktopInv
  <2> QED
    BY <1>1, <1>5, <2>1 DEF OneRuns, DesktopInv
<1>7. (frontend = "qt" /\ main = "loop") => Follows(focus', monitor', recon')
  <2>1. focus.camera \in Cameras \cup {Absent}
    BY DEF DesktopInv, DesktopTypes, Foci, OrAbsent
  <2> QED
    BY <1>1, <1>2, <1>3, <2>1 DEF DesktopInv, Follows, Busy
<1> QED
  BY <1>1, <1>3, <1>4, <1>6, <1>7 DEF DesktopInv, DesktopTypes, Pictures

\* What a completion makes of the controller.
LEMMA InstallIs ==
  ASSUME DesktopInv, NEW c \in Cameras, recon[c].pc = "emitted"
  PROVE  /\ Install(c) \in Monitors /\ Install(c).slots = monitor.slots
         /\ Install(c).providers = [monitor.providers EXCEPT ![c] = recon[c].new]
         /\ \A d \in Cameras : Pictures(Install(c), d)
<1>1. /\ monitor \in Monitors /\ recon[c] \in Recons /\ monitor.slots[c] \in Slots
      /\ HandOver(monitor, recon, provider, c) /\ \A d \in Cameras : Pictures(monitor, d)
  BY DEF DesktopInv, DesktopTypes, Monitors
<1>2. monitor.providers[c] = Absent /\ monitor.providers \in [Cameras -> OrAbsent(Nat)]
      /\ recon[c].new \in OrAbsent(Nat)
  BY <1>1 DEF HandOver, Busy, Monitors, Recons
<1>3. CASE recon[c].failed
  <2> DEFINE m == [monitor EXCEPT !.errors = @ \cup {c}]
  <2>1. Install(c) = Shown(m, c, "ERROR", Absent)
    BY <1>3 DEF Install
  <2>2. /\ m \in Monitors /\ m.slots = monitor.slots /\ m.providers = monitor.providers
        /\ m.packets = monitor.packets /\ m.view = monitor.view
    BY <1>1 DEF Monitors
  <2> HIDE DEF m
  <2> DEFINE m2 == Shown(m, c, "ERROR", Absent)
  <2>3. /\ SameSlots(m, m2) /\ m2.packets = m.packets /\ m2.view[c].frame = Absent
        /\ \A d \in Cameras : d /= c => m2.view[d] = m.view[d]
    BY <2>2, ShownIs DEF OrAbsent
  <2> HIDE DEF m2
  <2>4. /\ m2 \in Monitors /\ m2.slots = monitor.slots /\ m2.providers = monitor.providers
    BY <2>2, <2>3 DEF SameSlots
  <2>5. \A d \in Cameras : Pictures(m2, d)
    BY <1>1, <2>2, <2>3, <2>4 DEF Pictures
  <2>6. recon[c].new = Absent
    BY <1>1, <1>3 DEF HandOver
  <2>7. monitor.providers = [monitor.providers EXCEPT ![c] = recon[c].new]
    BY <1>2, <2>6
  <2>8. Install(c) = m2
    BY <2>1 DEF m2
  <2> QED
    BY <2>4, <2>5, <2>7, <2>8
<1>4. CASE ~recon[c].failed
  <2> DEFINE v == InitialView(monitor.slots[c])
             p == IF recon[c].new /= Absent THEN recon[c].new ELSE monitor.providers[c]
             m2 == [monitor EXCEPT !.providers[c] = p, !.view[c] = v]
  <2>1. Install(c) = m2
    BY <1>4 DEF Install
  <2>2. p = recon[c].new
    BY <1>2
  <2>3. v \in Views /\ v.frame = Absent
    BY InitialViewIs
  <2> HIDE DEF v, p
  <2>4. /\ m2 \in Monitors /\ m2.slots = monitor.slots /\ m2.packets = monitor.packets
        /\ m2.providers = [monitor.providers EXCEPT ![c] = p] /\ m2.view = [monitor.view EXCEPT ![c] = v]
    BY <1>1, <1>2, <2>2, <2>3 DEF Monitors
  <2>5. m2.view[c].frame = Absent /\ \A d \in Cameras : d /= c => m2.view[d] = monitor.view[d]
    BY <1>1, <2>3, <2>4 DEF Monitors
  <2> HIDE DEF m2
  <2>6. \A d \in Cameras : Pictures(m2, d)
    BY <1>1, <2>4, <2>5 DEF Pictures
  <2> QED
    BY <2>1, <2>2, <2>4, <2>6
<1> QED
  BY <1>3, <1>4

LEMMA BindIs ==
  ASSUME focus \in Foci, NEW m \in Monitors, NEW c \in OrAbsent(Cameras)
  PROVE  /\ Bind(c, m) \in Foci /\ Bind(c, m).camera = c /\ Bind(c, m).panel = focus.panel
         /\ c /= Absent => Bind(c, m).person = m.providers[c] /\ Bind(c, m).face = m.providers[c]
<1> DEFINE p == IF c = Absent THEN Absent ELSE m.providers[c]
<1>1. p \in OrAbsent(Nat)
  BY DEF Monitors, OrAbsent
<1>2. Bind(c, m) = [focus EXCEPT !.camera = c, !.person = p, !.face = p]
  BY DEF Bind
<1>3. c /= Absent => p = m.providers[c]
  OBVIOUS
<1> HIDE DEF p
<1> QED
  BY <1>1, <1>2, <1>3 DEF Foci

LEMMA CompletedKeeps ==
  ASSUME DesktopInv, NEW c \in Cameras, Completed(c) PROVE DesktopInv'
<1> DEFINE m2 == Install(c)
<1>1. /\ recon[c].pc = "emitted" /\ recon \in [Cameras -> Recons] /\ monitor \in Monitors /\ main = "loop"
      /\ UNCHANGED <<frontend, shell, main, edits, provider>>
      /\ recon' = [recon EXCEPT ![c].pc = "cleanup"] /\ monitor' = m2 /\ Rebind(c, m2)
      /\ editor \in [Cameras -> Editors] /\ focus \in Foci
  BY DEF Completed, DesktopInv, DesktopTypes
<1>2. /\ m2 \in Monitors /\ m2.slots = monitor.slots
      /\ m2.providers = [monitor.providers EXCEPT ![c] = recon[c].new]
      /\ \A d \in Cameras : Pictures(m2, d)
  BY <1>1, InstallIs
<1> HIDE DEF m2
<1>3. /\ m2.providers[c] = recon[c].new
      /\ \A d \in Cameras : d /= c => m2.providers[d] = monitor.providers[d]
  BY <1>1, <1>2 DEF Monitors
<1>4. /\ recon' \in [Cameras -> Recons] /\ recon'[c].pc = "cleanup"
      /\ recon'[c].new = recon[c].new /\ recon'[c].failed = recon[c].failed
      /\ \A d \in Cameras : d /= c => recon'[d] = recon[d]
  BY <1>1 DEF Recons
<1>5. \A d \in Cameras : HandOver(monitor', recon', provider', d)
  <2> TAKE d \in Cameras
  <2>1. HandOver(monitor, recon, provider, d)
    BY DEF DesktopInv
  <2>2. CASE d = c
    BY <1>1, <1>2, <1>3, <1>4, <2>1, <2>2 DEF HandOver, Busy
  <2>3. CASE d /= c
    BY <1>1, <1>2, <1>3, <1>4, <2>1, <2>3 DEF HandOver
  <2> QED
    BY <2>2, <2>3
<1>6. OneRuns(monitor', recon', provider')
  <2>1. \A d \in Cameras : Holder(monitor', recon', d) = Holder(monitor, recon, d)
    BY <1>1, <1>3, <1>4 DEF Holder
  <2>2. \A p \in DOMAIN provider : provider[p].camera \in Cameras
    BY ProvidersAre DEF FrameProviders, DesktopInv
  <2> QED
    BY <1>1, <2>1, <2>2 DEF OneRuns, DesktopInv
<1>7. focus' \in Foci /\ (frontend = "qt" => Follows(focus', monitor', recon'))
  <2>1. CASE frontend = "qt" /\ focus.camera = c
    <3>1. focus' = Bind(c, m2)
      BY <1>1, <2>1 DEF Rebind
    <3>2. c \in OrAbsent(Cameras)
      BY DEF OrAbsent
    <3>3. /\ focus' \in Foci /\ focus'.camera = c
          /\ c /= Absent => focus'.person = m2.providers[c] /\ focus'.face = m2.providers[c]
      BY <1>1, <1>2, <3>1, <3>2, BindIs
    <3> QED
      BY <1>1, <3>3 DEF Follows
  <2>2. CASE ~(frontend = "qt" /\ focus.camera = c)
    <3>1. focus' = focus
      BY <1>1, <2>2 DEF Rebind
    <3>2. focus.camera \in Cameras \cup {Absent}
      BY <1>1 DEF Foci, OrAbsent
    <3> QED
      BY <1>1, <1>3, <1>4, <2>2, <3>1, <3>2 DEF DesktopInv, Follows, Busy
  <2> QED
    BY <2>1, <2>2
<1>8. editor' \in [Cameras -> Editors]
  <2> DEFINE again == ~recon[c].failed /\ editor[c].pending /= Absent
             savedIf(written) == IF again /\ written THEN editor[c].pending ELSE editor[c].saved
             card == IF again \/ recon[c].failed THEN editor[c].card ELSE Absent
  <2>0. PICK written \in BOOLEAN :
          editor' = IF frontend = "qt"
                      THEN [editor EXCEPT ![c].applying = Absent, ![c].saved = savedIf(written), ![c].card = card]
                      ELSE editor
    BY <1>1 DEF Completed
  <2> DEFINE saved == savedIf(written)
  <2>1. editor' = IF frontend = "qt"
                    THEN [editor EXCEPT ![c].applying = Absent, ![c].saved = saved, ![c].card = card]
                    ELSE editor
    BY <2>0
  <2>2. saved \in Slots /\ card \in OrAbsent(Slots)
    BY <1>1 DEF Editors, OrAbsent
  <2> HIDE DEF saved, savedIf, card
  <2>3. Absent \in OrAbsent(Slots)
    BY DEF OrAbsent
  <2> QED
    BY <1>1, <2>1, <2>2, <2>3 DEF Editors
<1> QED
  BY <1>1, <1>2, <1>4, <1>5, <1>6, <1>7, <1>8 DEF DesktopInv, DesktopTypes

LEMMA LateCompletionKeeps ==
  ASSUME DesktopInv, NEW c \in Cameras, LateCompletion(c) PROVE DesktopInv'
<1>1. /\ recon[c].pc = "emitted" /\ recon \in [Cameras -> Recons] /\ main = "closing"
      /\ UNCHANGED <<frontend, shell, main, edits, editor, monitor, focus>>
      /\ recon' = [recon EXCEPT ![c].pc = "cleanup", ![c].new = Absent]
      /\ StopOne(recon[c].new)
      /\ ProvidersOf(provider)
  BY DEF LateCompletion, DesktopInv, DesktopTypes
<1>2. /\ ProvidersOf(provider') /\ KeepsMade(provider, provider') /\ DOMAIN provider' = Made
      /\ \A p \in Made : provider'[p].worker = "runs" => p /= recon[c].new /\ provider[p].worker = "runs"
  BY <1>1, StopOneIs DEF Quieter, Made
<1>3. /\ recon' \in [Cameras -> Recons] /\ recon'[c].pc = "cleanup"
      /\ recon'[c].new = Absent /\ recon'[c].failed = recon[c].failed
      /\ \A d \in Cameras : d /= c => recon'[d] = recon[d]
  BY <1>1 DEF Recons, OrAbsent
<1>4. \A d \in Cameras : HandOver(monitor', recon', provider', d)
  <2> TAKE d \in Cameras
  <2>1. HandOver(monitor, recon, provider', d)
    BY <1>2, HandOverKept DEF DesktopInv
  <2>2. CASE d = c
    BY <1>1, <1>3, <2>1, <2>2 DEF HandOver, Busy
  <2>3. CASE d /= c
    BY <1>1, <1>3, <2>1, <2>3 DEF HandOver
  <2> QED
    BY <2>2, <2>3
<1>5. OneRuns(monitor', recon', provider')
  <2> SUFFICES ASSUME NEW p \in Made, provider'[p].worker = "runs"
               PROVE  p = Holder(monitor', recon', provider'[p].camera)
    BY <1>2 DEF OneRuns
  <2>1. p /= recon[c].new /\ provider[p].worker = "runs" /\ provider'[p].camera = provider[p].camera
    BY <1>2 DEF KeepsMade, Made
  <2>2. p = Holder(monitor, recon, provider[p].camera) /\ provider[p].camera \in Cameras
    BY <1>1, <2>1, ProvidersAre DEF DesktopInv, OneRuns, Made, FrameProviders
  <2>3. provider[p].camera /= c
    BY <1>1, <2>1, <2>2 DEF Holder
  <2> QED
    BY <1>1, <1>3, <2>1, <2>2, <2>3 DEF Holder
<1> QED
  BY <1>1, <1>2, <1>3, <1>4, <1>5 DEF DesktopInv, DesktopTypes, Pictures

-----------------------------------------------------------------------------
(* The steps of the user and of the application.                           *)

\* An edit e becomes the state of the editor, the controller and its threads.
LEMMA EditBecomes ==
  ASSUME DesktopInv, main = "loop", NEW e, EditOK(e), Becomes(e),
         UNCHANGED <<frontend, main, provider>>, shell' \in {"open", "asked", "gone"},
         edits' \in 0 .. MaxEdits, focus' \in Foci,
         frontend = "qt" => Follows(focus', e.monitor, e.recon)
  PROVE  DesktopInv'
<1>1. monitor' = e.monitor /\ recon' = e.recon /\ editor' = e.editor
  BY DEF Becomes
<1>2. /\ monitor' \in Monitors /\ recon' \in [Cameras -> Recons] /\ editor' \in [Cameras -> Editors]
      /\ \A c \in Cameras : HandOver(monitor', recon', provider, c) /\ Pictures(monitor', c)
      /\ OneRuns(monitor', recon', provider)
      /\ frontend = "qt" => Follows(focus', monitor', recon')
  BY <1>1 DEF EditOK, Agrees
<1>3. DesktopTypes'
  BY <1>2 DEF DesktopInv, DesktopTypes
<1> QED
  BY <1>2, <1>3 DEF DesktopInv

LEMMA DraftIs ==
  ASSUME DesktopInv, edits < MaxEdits, edits' = edits + 1, NEW on \in BOOLEAN
  PROVE  [edit |-> edits', on |-> on] \in Slots /\ edits' \in 0 .. MaxEdits
BY DesktopAssumption DEF DesktopInv, DesktopTypes, Slots

LEMMA PanelEditKeeps ==
  ASSUME DesktopInv, NEW c \in Cameras, PanelEdit(c) PROVE DesktopInv'
<1>1. PICK on \in BOOLEAN, written \in BOOLEAN :
        LET draft == [edit |-> edits', on |-> on]
        IN Becomes(TryApply([Editing EXCEPT !.editor[c].card = draft], c, draft, written))
  BY DEF PanelEdit
<1> DEFINE draft == [edit |-> edits', on |-> on]
           x == [editor[c] EXCEPT !.card = draft]
           e2 == [Editing EXCEPT !.editor[c] = x]
<1>2. draft \in Slots /\ edits' \in 0 .. MaxEdits
  BY DraftIs DEF PanelEdit, Edits, UserActs
<1>3. /\ main = "loop" /\ UNCHANGED <<frontend, shell, main, provider, focus>>
      /\ ProvidersOf(provider) /\ focus \in Foci /\ editor[c] \in Editors
      /\ shell \in {"open", "asked", "gone"}
  BY DEF PanelEdit, Edits, UserActs, DesktopInv, DesktopTypes
<1>4. [Editing EXCEPT !.editor[c].card = draft] = e2
  BY DEF Editing
<1> HIDE DEF draft
<1>5. x \in Editors
  BY <1>2, <1>3 DEF Editors, OrAbsent
<1> HIDE DEF x
<1>6. Edit(e2) /\ EditOK(e2)
  BY <1>3, <1>5, EditingIs, EditorKeeps
<1> HIDE DEF e2
<1> DEFINE e3 == TryApply(e2, c, draft, written)
<1>7. EditOK(e3)
  BY <1>2, <1>3, <1>6, TryApplyKeeps
<1>8. Becomes(e3)
  BY <1>1, <1>4 DEF draft
<1> HIDE DEF e3
<1>9. frontend = "qt" => Follows(focus', e3.monitor, e3.recon)
  BY <1>3, <1>7 DEF EditOK, Agrees
<1> QED
  BY <1>2, <1>3, <1>7, <1>8, <1>9, EditBecomes

LEMMA CommandEditKeeps ==
  ASSUME DesktopInv, NEW c \in Cameras, CommandEdit(c) PROVE DesktopInv'
<1>1. PICK on \in BOOLEAN, written \in BOOLEAN :
        Becomes(SaveCamera(Editing, c, [edit |-> edits', on |-> on], written))
  BY DEF CommandEdit
<1> DEFINE draft == [edit |-> edits', on |-> on]
<1>2. draft \in Slots /\ edits' \in 0 .. MaxEdits
  BY DraftIs DEF CommandEdit, Edits, UserActs
<1>3. /\ main = "loop" /\ UNCHANGED <<frontend, shell, main, provider, focus>>
      /\ ProvidersOf(provider) /\ focus \in Foci /\ shell \in {"open", "asked", "gone"}
  BY DEF CommandEdit, Edits, UserActs, DesktopInv, DesktopTypes
<1>4. Edit(Editing) /\ EditOK(Editing)
  BY <1>3, EditingIs
<1> DEFINE e3 == SaveCamera(Editing, c, draft, written)
<1>5. Becomes(e3)
  BY <1>1
<1> HIDE DEF draft
<1>6. EditOK(e3)
  BY <1>2, <1>3, <1>4, SaveCameraKeeps
<1> HIDE DEF e3
<1>7. frontend = "qt" => Follows(focus', e3.monitor, e3.recon)
  BY <1>3, <1>6 DEF EditOK, Agrees
<1> QED
  BY <1>2, <1>3, <1>5, <1>6, <1>7, EditBecomes

LEMMA ShowFocusKeeps ==
  ASSUME DesktopInv, NEW c \in Cameras, ShowFocus(c) PROVE DesktopInv'
<1>1. /\ main = "loop" /\ UNCHANGED <<frontend, shell, main, edits, provider>>
      /\ ProvidersOf(provider) /\ focus \in Foci /\ shell \in {"open", "asked", "gone"}
      /\ edits \in 0 .. MaxEdits
  BY DEF ShowFocus, UserActs, DesktopInv, DesktopTypes
<1>2. PICK e \in FlushPending(Editing) \cup {Editing} :
        Becomes(e) /\ focus' = [Bind(c, e.monitor) EXCEPT !.panel = c]
  BY DEF ShowFocus
<1>3. EditOK(e)
  <2>1. Edit(Editing) /\ EditOK(Editing)
    BY <1>1, EditingIs
  <2> QED
    BY <1>1, <2>1, FlushKeeps
<1>4. e.monitor \in Monitors /\ c \in OrAbsent(Cameras)
  BY <1>3 DEF EditOK, Agrees, OrAbsent
<1> DEFINE b == Bind(c, e.monitor)
<1>5. /\ b \in Foci /\ b.camera = c
      /\ c /= Absent => b.person = e.monitor.providers[c] /\ b.face = e.monitor.providers[c]
  BY <1>1, <1>4, BindIs
<1>6. focus' = [b EXCEPT !.panel = c]
  BY <1>2
<1> HIDE DEF b
<1>7. /\ focus' \in Foci /\ focus'.camera = c
      /\ c /= Absent => focus'.person = e.monitor.providers[c] /\ focus'.face = e.monitor.providers[c]
  BY <1>4, <1>5, <1>6 DEF Foci
<1>8. Follows(focus', e.monitor, e.recon)
  BY <1>7 DEF Follows
<1> QED
  BY <1>1, <1>2, <1>3, <1>7, <1>8, EditBecomes

\* ShowGrid and CommandFocus bind the focus to c, or to no camera.
LEMMA FocusKeeps ==
  ASSUME DesktopInv, main = "loop", NEW c \in OrAbsent(Cameras), focus' = Bind(c, monitor),
         UNCHANGED <<frontend, shell, main, edits, editor, monitor, recon, provider>>
  PROVE  DesktopInv'
<1>1. focus \in Foci /\ monitor \in Monitors
  BY DEF DesktopInv, DesktopTypes
<1>2. /\ focus' \in Foci /\ focus'.camera = c
      /\ c /= Absent => focus'.person = monitor.providers[c] /\ focus'.face = monitor.providers[c]
  BY <1>1, BindIs
<1>3. Follows(focus', monitor', recon')
  BY <1>2 DEF Follows
<1> QED
  BY <1>2, <1>3 DEF DesktopInv, DesktopTypes, Pictures

\* StopMonitor, and the application is not in its loop afterwards.
LEMMA StopKeeps ==
  ASSUME DesktopInv, NEW e, EditOK(e), StopMonitor(e.monitor), editor' = e.editor, recon' = e.recon,
         main' \in {"closing", "stuck"}, UNCHANGED <<frontend, shell, edits, focus>>
  PROVE  DesktopInv'
<1> DEFINE m == e.monitor
           none == [c \in Cameras |-> Absent]
<1>1. /\ m \in Monitors /\ recon' \in [Cameras -> Recons] /\ editor' \in [Cameras -> Editors]
      /\ \A c \in Cameras : HandOver(m, recon', provider, c) /\ Pictures(m, c)
      /\ OneRuns(m, recon', provider)
  BY DEF EditOK, Agrees
<1>2. monitor' = [m EXCEPT !.providers = none, !.started = FALSE]
  BY DEF StopMonitor
<1>3. none \in [Cameras -> OrAbsent(Nat)] /\ \A c \in Cameras : none[c] = Absent
  BY DEF OrAbsent
<1> HIDE DEF none, m
<1>4. /\ monitor' \in Monitors /\ monitor'.slots = m.slots /\ monitor'.packets = m.packets
      /\ monitor'.view = m.view /\ monitor'.providers = none
  BY <1>1, <1>2, <1>3 DEF Monitors
<1>5. \A p \in Made : provider[p] \in FrameProviders
  BY ProvidersAre DEF Made, DesktopInv
<1>6. /\ ProvidersOf(provider') /\ KeepsMade(provider, provider') /\ DOMAIN provider' = Made
      /\ \A p \in Made : provider'[p].worker = "runs" =>
           provider[p].worker = "runs" /\ \A c \in Cameras : m.providers[c] /= p
  <2>1. provider' = [p \in Made |-> IF \E c \in Cameras : m.providers[c] = p
                                     THEN ToldToStop(provider[p]) ELSE provider[p]]
    BY DEF StopMonitor, m
  <2>2. \A p \in Made : /\ provider'[p] \in FrameProviders /\ provider'[p].camera = provider[p].camera
                        /\ provider'[p].slot = provider[p].slot
                        /\ provider'[p].worker = "runs" =>
                             provider[p].worker = "runs" /\ \A c \in Cameras : m.providers[c] /= p
    BY <1>5, <2>1, ToldIs
  <2>3. provider' \in [Made -> FrameProviders]
    BY <2>1, <2>2
  <2>4. ProvidersOf(provider')
    BY <2>3, ProvidersAre, NumberedIs DEF Made, DesktopInv
  <2> QED
    BY <2>2, <2>3, <2>4 DEF KeepsMade, Made
<1>7. \A c \in Cameras : HandOver(monitor', recon', provider', c)
  <2> TAKE c \in Cameras
  <2>1. HandOver(m, recon', provider', c)
    BY <1>1, <1>6, HandOverKept
  <2> QED
    BY <1>3, <1>4, <2>1 DEF HandOver, IsFor
<1>8. \A c \in Cameras : Pictures(monitor', c)
  BY <1>1, <1>4 DEF Pictures
<1>9. OneRuns(monitor', recon', provider')
  <2> SUFFICES ASSUME NEW p \in Made, provider'[p].worker = "runs"
               PROVE  p = Holder(monitor', recon', provider'[p].camera)
    BY <1>6 DEF OneRuns
  <2>1. /\ provider[p].worker = "runs" /\ provider'[p].camera = provider[p].camera
        /\ provider[p].camera \in Cameras /\ m.providers[provider[p].camera] /= p
    BY <1>5, <1>6 DEF KeepsMade, Made, FrameProviders
  <2>2. p = Holder(m, recon', provider[p].camera)
    BY <1>1, <2>1 DEF OneRuns, Made
  <2> QED
    BY <2>1, <2>2 DEF Holder
<1> QED
  BY <1>1, <1>4, <1>6, <1>7, <1>8, <1>9 DEF DesktopInv, DesktopTypes

LEMMA CloseWindowKeeps ==
  ASSUME DesktopInv, CloseWindow PROVE DesktopInv'
<1>1. main = "loop" /\ ProvidersOf(provider) /\ focus \in Foci
  BY DEF CloseWindow, DesktopInv, DesktopTypes
<1>2. PICK e \in FlushPending(Editing) : StopMonitor(e.monitor) /\ editor' = e.editor /\ recon' = e.recon
  BY DEF CloseWindow
<1>3. EditOK(e)
  BY <1>1, EditingIs, FlushKeeps
<1> QED
  BY <1>2, <1>3, StopKeeps DEF CloseWindow

LEMMA StopEditingKeeps ==
  ASSUME DesktopInv, ShutdownBridge \/ BrokenEmit PROVE DesktopInv'
<1> DEFINE e == Editing
<1>1. main = "loop" /\ StopMonitor(monitor) /\ UNCHANGED <<frontend, shell, edits, editor, recon, focus>>
      /\ main' \in {"closing", "stuck"}
  BY DEF ShutdownBridge, BrokenEmit
<1>2. EditOK(e) /\ e.editor = editor /\ e.monitor = monitor /\ e.recon = recon
  BY <1>1, EditingIs
<1> HIDE DEF e
<1>3. StopMonitor(e.monitor) /\ editor' = e.editor /\ recon' = e.recon
  BY <1>1, <1>2
<1> QED
  BY <1>1, <1>2, <1>3, StopKeeps

\* The first turn of the event loop: a provider for each camera that has a
\* stream and whose factory does not raise.
LEMMA StartMonitorKeeps ==
  ASSUME DesktopInv, StartMonitor PROVE DesktopInv'
<1> DEFINE camera(S, p) == CHOOSE c \in S : FirstProviders(S)[c] = p
           Starts(built, started) ==
             /\ provider' = [p \in 1 .. Cardinality(built) |->
                               NewFrameProvider(camera(built, p), monitor.slots[camera(built, p)],
                                                IF camera(built, p) \in started THEN "runs" ELSE "unstarted")]
             /\ monitor' = [monitor EXCEPT !.started = TRUE,
                  !.errors    = {c \in Cameras : monitor.slots[c].on} \ started,
                  !.providers = [c \in Cameras |-> IF c \in built THEN FirstProviders(built)[c] ELSE Absent]]
<1>0. PICK built \in SUBSET {c \in Cameras : monitor.slots[c].on} : \E started \in SUBSET built : Starts(built, started)
  BY Zenon DEF StartMonitor
<1>1. PICK started \in SUBSET built : Starts(built, started)
  BY <1>0
<1> DEFINE n == Cardinality(built)
           first == FirstProviders(built)
           maker(p) == camera(built, p)
           installed == [c \in Cameras |-> IF c \in built THEN first[c] ELSE Absent]
<1>2. /\ UNCHANGED <<frontend, shell, edits, editor, recon, focus>> /\ main' = "loop"
      /\ Fresh /\ monitor \in Monitors /\ monitor.slots \in [Cameras -> Slots]
  BY DEF StartMonitor, DesktopInv, DesktopTypes, Monitors
<1>3. \A p \in 1 .. n : maker(p) \in built /\ first[maker(p)] = p
  BY FirstIs
<1>4. n \in Nat /\ first \in [built -> 1 .. n] /\ \A x, y \in built : first[x] = first[y] => x = y
  BY FirstIs
<1>5. /\ provider' = [p \in 1 .. n |-> NewFrameProvider(maker(p), monitor.slots[maker(p)],
                                                       IF maker(p) \in started THEN "runs" ELSE "unstarted")]
      /\ \E failing \in SUBSET Cameras :
           monitor' = [monitor EXCEPT !.started = TRUE, !.errors = failing, !.providers = installed]
  BY <1>1
<1> HIDE DEF camera, maker, n, first
<1>6. /\ installed \in [Cameras -> OrAbsent(Nat)]
      /\ \A c \in Cameras : installed[c] = IF c \in built THEN first[c] ELSE Absent
  BY <1>4 DEF OrAbsent
<1> HIDE DEF installed
<1>7. /\ monitor' \in Monitors /\ monitor'.slots = monitor.slots /\ monitor'.packets = monitor.packets
      /\ monitor'.view = monitor.view /\ monitor'.providers = installed
  BY <1>2, <1>5, <1>6 DEF Monitors
<1>8. \A p \in 1 .. n : /\ provider'[p] \in FrameProviders /\ provider'[p].camera = maker(p)
                        /\ provider'[p].slot = monitor.slots[maker(p)]
  BY <1>2, <1>3, <1>5 DEF NewFrameProvider, FrameProviders
<1>9. provider' \in [1 .. n -> FrameProviders]
  BY <1>5, <1>8
<1>10. ProvidersOf(provider')
  BY <1>4, <1>9, NumberedIs
<1>11. \A c \in Cameras : HandOver(monitor', recon', provider', c)
  <2> TAKE c \in Cameras
  <2>1. IsFor(provider', installed[c], c, monitor.slots[c])
    <3>1. CASE c \in built
      <4>1. first[c] \in 1 .. n /\ maker(first[c]) = c
        BY <1>3, <1>4, <3>1
      <4> QED
        BY <1>6, <1>8, <1>9, <3>1, <4>1 DEF IsFor
    <3>2. CASE c \notin built
      BY <1>6, <3>2 DEF IsFor
    <3> QED
      BY <3>1, <3>2
  <2>2. HandOver(monitor, recon, provider, c) /\ recon[c].pc = "none"
    BY <1>2 DEF DesktopInv, Fresh
  <2> QED
    BY <1>2, <1>7, <2>1, <2>2 DEF HandOver, Busy
<1>12. OneRuns(monitor', recon', provider')
  <2> SUFFICES ASSUME NEW p \in 1 .. n PROVE p = Holder(monitor', recon', provider'[p].camera)
    BY <1>9 DEF OneRuns
  <2>1. maker(p) \in Cameras /\ installed[maker(p)] = p
    BY <1>3, <1>6
  <2>2. recon[maker(p)].pc = "none"
    BY <1>2, <2>1 DEF Fresh
  <2> QED
    BY <1>2, <1>7, <1>8, <2>1, <2>2 DEF Holder
<1>13. Follows(focus', monitor', recon')
  BY <1>2 DEF Follows, Fresh
<1> QED
  BY <1>2, <1>7, <1>10, <1>11, <1>12, <1>13 DEF DesktopInv, DesktopTypes, Pictures

\* A controller that has not started, with the slots of the cameras, no
\* provider, no thread and no focus: the state of a new process and of none.
LEMMA NothingRuns ==
  ASSUME NEW slots \in [Cameras -> Slots]
  PROVE  LET m == NewMonitor(slots)
             r == [c \in Cameras |-> NoRecon]
             made == [p \in {} |-> Absent]
         IN /\ m \in Monitors /\ r \in [Cameras -> Recons] /\ NoFocus \in Foci /\ NoFocus.camera = Absent
            /\ DOMAIN made = {} /\ ProvidersOf(made) /\ OneRuns(m, r, made)
            /\ \A c \in Cameras : r[c].pc = "none" /\ HandOver(m, r, made, c) /\ Pictures(m, c)
<1> DEFINE m == NewMonitor(slots)
           r == [c \in Cameras |-> NoRecon]
           made == [p \in {} |-> Absent]
           view == [c \in Cameras |-> InitialView(slots[c])]
           absent == [c \in Cameras |-> Absent]
           zeros == [c \in Cameras |-> 0]
<1>1. view \in [Cameras -> Views] /\ \A c \in Cameras : view[c].frame = Absent
  BY InitialViewIs
<1>2. absent \in [Cameras -> OrAbsent(Nat)] /\ absent \in [Cameras -> OrAbsent(Slots)]
      /\ \A c \in Cameras : absent[c] = Absent
  BY DEF OrAbsent
<1>3. zeros \in [Cameras -> Nat]
  OBVIOUS
<1>4. m = [started |-> FALSE, slots |-> slots, providers |-> absent, gens |-> zeros, errors |-> {},
           packets |-> absent, view |-> view]
  BY DEF NewMonitor
<1> HIDE DEF view, absent, zeros, m
<1>5. m \in Monitors /\ m.providers = absent /\ m.packets = absent /\ m.view = view
  BY <1>1, <1>2, <1>3, <1>4 DEF Monitors
<1>6. NoRecon \in Recons /\ NoRecon.pc = "none" /\ NoRecon.new = Absent /\ NoRecon.failed = FALSE
  BY DEF NoRecon, Recons, OrAbsent
<1>7. r \in [Cameras -> Recons] /\ \A c \in Cameras : r[c] = NoRecon
  BY <1>6
<1>8. NoFocus \in Foci /\ NoFocus.camera = Absent
  BY DEF NoFocus, Foci, OrAbsent
<1>9. DOMAIN made = {} /\ ProvidersOf(made)
  <2>1. made \in [1 .. 0 -> FrameProviders]
    OBVIOUS
  <2>2. ProvidersOf(made)
    BY <2>1, NumberedIs
  <2> QED
    BY <2>2
<1> HIDE DEF r, made
<1>10. \A c \in Cameras : HandOver(m, r, made, c) /\ Pictures(m, c)
  BY <1>1, <1>2, <1>5, <1>6, <1>7 DEF HandOver, Pictures, IsFor, Busy
<1>11. OneRuns(m, r, made)
  BY <1>9 DEF OneRuns
<1> QED
  BY <1>5, <1>6, <1>7, <1>8, <1>9, <1>10, <1>11 DEF m, r, made

LEMMA DesktopStarts == ASSUME DesktopInit PROVE DesktopInv
<1>1. PICK slots \in [Cameras -> [edit : {0}, on : BOOLEAN]] :
        /\ editor = [c \in Cameras |-> [saved |-> slots[c], pending |-> Absent, applying |-> Absent, card |-> Absent]]
        /\ monitor = NewMonitor(slots)
  BY DEF DesktopInit
<1>2. /\ frontend \in {"qt", "wpf"} /\ shell = "open" /\ main = "new" /\ edits = 0
      /\ recon = [c \in Cameras |-> NoRecon] /\ provider = [p \in {} |-> Absent] /\ focus = NoFocus
  BY DEF DesktopInit
<1>3. slots \in [Cameras -> Slots]
  BY DesktopAssumption DEF Slots
<1>4. editor \in [Cameras -> Editors]
  BY <1>1, <1>3 DEF Editors, OrAbsent
<1>5. /\ monitor \in Monitors /\ recon \in [Cameras -> Recons] /\ focus \in Foci /\ focus.camera = Absent
      /\ DOMAIN provider = {} /\ ProvidersOf(provider) /\ OneRuns(monitor, recon, provider)
      /\ \A c \in Cameras : /\ recon[c].pc = "none" /\ HandOver(monitor, recon, provider, c)
                            /\ Pictures(monitor, c)
  BY <1>1, <1>2, <1>3, NothingRuns
<1>6. DesktopTypes
  BY <1>2, <1>4, <1>5, DesktopAssumption DEF DesktopTypes
<1> QED
  BY <1>2, <1>5, <1>6 DEF DesktopInv, Fresh, Made

\* The process ends.
LEMMA QuitKeeps == ASSUME DesktopInv, Quit PROVE DesktopInv'
<1>1. /\ main' = "quit" /\ UNCHANGED <<frontend, shell, edits, editor>>
      /\ monitor' = NewMonitor(monitor.slots) /\ recon' = [c \in Cameras |-> NoRecon]
      /\ provider' = [p \in {} |-> Absent] /\ focus' = NoFocus
  BY DEF Quit
<1>2. monitor.slots \in [Cameras -> Slots]
  BY DEF DesktopInv, DesktopTypes, Monitors
<1>3. /\ monitor' \in Monitors /\ recon' \in [Cameras -> Recons] /\ focus' \in Foci
      /\ ProvidersOf(provider') /\ OneRuns(monitor', recon', provider')
      /\ \A c \in Cameras : HandOver(monitor', recon', provider', c) /\ Pictures(monitor', c)
  BY <1>1, <1>2, NothingRuns
<1> QED
  BY <1>1, <1>3 DEF DesktopInv, DesktopTypes

LEMMA DesktopNextKeeps ==
  ASSUME DesktopInv, DesktopNext PROVE DesktopInv'
<1>1. CASE StartMonitor
  BY <1>1, StartMonitorKeeps
<1>2. CASE CloseWindow \/ ShutdownBridge \/ BrokenEmit
  BY <1>2, CloseWindowKeeps, StopEditingKeeps
<1>3. CASE Quit
  BY <1>3, QuitKeeps
<1>4. CASE ShellLeaves
  BY <1>4 DEF ShellLeaves, DesktopInv, DesktopTypes, Pictures
<1>5. CASE ShowGrid
  BY <1>5, FocusKeeps DEF ShowGrid, UserActs, OrAbsent
<1>6. ASSUME NEW c \in Cameras \cup {Absent}, CommandFocus(c) PROVE DesktopInv'
  BY <1>6, FocusKeeps DEF CommandFocus, UserActs, OrAbsent
<1>7. ASSUME NEW c \in Cameras, Completed(c) \/ Cleanup(c) \/ LateCompletion(c) PROVE DesktopInv'
  BY <1>7, CompletedKeeps, CleanupKeeps, LateCompletionKeeps
<1>8. ASSUME NEW c \in Cameras, ReconThread(c) \/ PollCamera(c) PROVE DesktopInv'
  BY <1>8, ReconStopKeeps, ReconStartKeeps, PollKeeps DEF ReconThread
<1>9. ASSUME NEW c \in Cameras, PanelEdit(c) \/ CommandEdit(c) \/ ShowFocus(c) PROVE DesktopInv'
  BY <1>9, PanelEditKeeps, CommandEditKeeps, ShowFocusKeeps
<1>10. ASSUME NEW p \in Made, WorkerEnds(p) PROVE DesktopInv'
  BY <1>10, WorkerEndsKeeps
<1> QED
  BY <1>1, <1>2, <1>3, <1>4, <1>5, <1>6, <1>7, <1>8, <1>9, <1>10 DEF DesktopNext, MainThread, Leaves

LEMMA DesktopStutters ==
  ASSUME DesktopInv, UNCHANGED desktopVars PROVE DesktopInv'
BY DEF desktopVars, DesktopInv, DesktopTypes, Pictures, Fresh, Made

\* The controller, its reconfiguration threads, its providers and the focus
\* stay in step, through any sequence of edits, failures and closings.
THEOREM DesktopAgrees == DesktopSpec => []DesktopInv
<1>1. DesktopInit => DesktopInv
  BY DesktopStarts
<1>2. DesktopInv /\ [DesktopNext]_desktopVars => DesktopInv'
  BY DesktopNextKeeps, DesktopStutters
<1> QED
  BY <1>1, <1>2, PTL DEF DesktopSpec

LEMMA AtMostOne ==
  ASSUME NEW S, NEW x, \A y \in S : y = x PROVE Cardinality(S) <= 1
<1>1. CASE S = {}
  BY <1>1, FS_EmptySet
<1>2. CASE S /= {}
  <2>1. S = {x}
    BY <1>2
  <2> QED
    BY <2>1, FS_Singleton
<1> QED
  BY <1>1, <1>2

\* A provider that was not told to stop is the installed one of its camera or
\* in the hands of the camera's reconfiguration, no camera has two, and every
\* tile shows a picture of the configuration it names.
THEOREM SlotsAlwaysKeepProviders == DesktopSpec => []SlotsKeepTheirProviders
<1>1. ASSUME DesktopInv PROVE SlotsKeepTheirProviders
  <2>1. PictureIsOfTheSlot
    BY <1>1 DEF DesktopInv, Pictures, PictureIsOfTheSlot
  <2>2. OneRuns(monitor, recon, provider)
    BY <1>1 DEF DesktopInv
  <2>3. ASSUME NEW p \in Made, provider[p].worker = "runs"
        PROVE  LET c == provider[p].camera
               IN p = monitor.providers[c] \/ p \in {recon[c].old, recon[c].new}
    <3>1. p /= Absent
      BY <1>1, <2>3, ProvidersAre, DesktopAssumption DEF DesktopInv, Made
    <3> QED
      BY <2>2, <2>3, <3>1 DEF OneRuns, Made, Holder
  <2>4. ASSUME NEW c \in Cameras
        PROVE  Cardinality({p \in Made : provider[p].camera = c /\ provider[p].worker = "runs"}) <= 1
    <3> DEFINE S == {p \in Made : provider[p].camera = c /\ provider[p].worker = "runs"}
    <3>1. \A p \in S : p = Holder(monitor, recon, c)
      BY <2>2, <2>4 DEF OneRuns, Made
    <3> HIDE DEF S
    <3>2. Cardinality(S) <= 1
      BY <3>1, AtMostOne
    <3> QED
      BY <3>2 DEF S
  <2> QED
    BY <2>1, <2>3, <2>4 DEF SlotsKeepTheirProviders, NoProviderLost
<1> QED
  BY <1>1, DesktopAgrees, PTL

\* With the window, the inference controllers read the provider the grid
\* shows whenever the focused camera is not being reconfigured.
THEOREM InferenceAlwaysFollows == DesktopSpec => []InferenceFollowsProvider
<1>1. ASSUME DesktopInv PROVE InferenceFollowsProvider
  <2> SUFFICES ASSUME frontend = "qt", main = "loop", focus.camera /= Absent,
                      recon[focus.camera].pc \in {"none", "cleanup"}
               PROVE  focus = Bind(focus.camera, monitor)
    BY DEF InferenceFollowsProvider
  <2>1. focus \in Foci /\ Follows(focus, monitor, recon)
    BY <1>1 DEF DesktopInv, DesktopTypes
  <2>2. focus.person = monitor.providers[focus.camera] /\ focus.face = monitor.providers[focus.camera]
    BY <2>1 DEF Follows, Busy
  <2> QED
    BY <2>1, <2>2 DEF Bind, Foci
<1> QED
  BY <1>1, DesktopAgrees, PTL

-----------------------------------------------------------------------------
(* The inductive invariant of the inference controllers.                   *)

OrNothing(S) == S \cup {Nothing}

SnapshotsOf(S) == [camera : OrNothing(FocusCameras), model : OrNothing(S), pipeline : OrNothing(Nat)]
PersonSnapshots == SnapshotsOf(Models \cup {"off"})
LoadedSignatures == {<<>>} \cup (BOOLEAN \X OrNothing(FocusCameras) \X OrNothing(Nat))
Pipes == [camera : OrNothing(FocusCameras), latest : BOOLEAN, confirmer : OrNothing(Nat)]
Persons == [ settings : Models \cup {"off"}, camera : OrNothing(FocusCameras), gen : Nat,
             pipeline : OrNothing(Nat), shown : PersonSnapshots, stop : BOOLEAN ]
PersonThreads == [ pc : {"loop", "reset", "load", "check", "bind", "frame", "update", "publish", "final", "dead"},
                   settings : Models \cup {"off"}, camera : OrNothing(FocusCameras), gen : Nat,
                   detector : OrNothing(Models), loaded : OrNothing(Models \cup {"off"}),
                   bound : OrNothing(FocusCameras) ]
Faces == [ settings : BOOLEAN, camera : OrNothing(FocusCameras), gen : Nat, tracking : OrNothing(Nat),
           snapshot : BOOLEAN, runtime : OrNothing(Nat), pipeline : OrNothing(Nat), shown : SnapshotsOf(BOOLEAN),
           stop : BOOLEAN, late : BOOLEAN ]

FaceThreads == [ pc : {"loop", "reload", "build", "install", "look", "process", "final", "dead"},
                 settings : BOOLEAN, camera : OrNothing(FocusCameras), gen : Nat, tracking : OrNothing(Nat),
                 snapshot : BOOLEAN, loaded : LoadedSignatures, runtime : OrNothing(Nat), builds : Nat,
                 refused : BOOLEAN ]
Opens == [detectors : SUBSET Models, runtimes : SUBSET Nat]

InferenceTypes ==
    /\ gui \in {"run", "stop_person", "stop_face", "gone"}
    /\ queue \in Seq(PersonSnapshots) /\ pipes \in Seq(Pipes)
    /\ person \in Persons /\ pt \in PersonThreads
    /\ face \in Faces /\ ft \in FaceThreads
    /\ open \in Opens
    /\ person.pipeline \in OrNothing(DOMAIN pipes)

\* A detector that is loaded is the person thread's.
DetectorIsOwned ==
    /\ open.detectors \subseteq {pt.detector} \ {Nothing}
    /\ pt.pc \in {"reset", "load", "dead"} => pt.detector = Nothing

\* A face runtime that is loaded is the controller's or about to be its, as
\* long as stop() has not closed it under the thread.
RuntimeIsOwned ==
    /\ face.late => gui = "gone"
    /\ ft.pc = "process" => ft.runtime /= Nothing
    /\ face.late \/
      ( /\ open.runtimes \subseteq {face.runtime, ft.runtime} \ {Nothing}
        /\ ft.pc \in {"loop", "reload", "build", "look", "final", "dead"} => ft.runtime = Nothing
        /\ ft.pc \in {"reload", "build", "install", "dead"} => face.runtime = Nothing
        /\ ft.pc = "process" => ft.runtime = face.runtime
        /\ ft.pc = "dead" => open.runtimes = {} )

PipeIsOf(ps, i, c) == i = Nothing \/ (i \in DOMAIN ps /\ ps[i].camera = c)

\* What the person thread has read is current as long as the generation is;
\* then the pipeline, if there is one, is the camera's.
PersonIsCurrent ==
    /\ (pt.gen = person.gen /\ pt.pc \notin {"loop", "final", "dead"}) =>
          pt.settings = person.settings /\ pt.camera = person.camera
    /\ pt.pc \in {"frame", "update", "publish"} => pt.camera = pt.bound
    /\ pt.pc \in {"reset", "load", "check"} => pt.bound = Nothing
    /\ pt.gen <= person.gen
    /\ pt.bound /= Nothing => PipeIsOf(pipes, person.pipeline, pt.bound)
    /\ (pt.pc = "load" /\ pt.gen = person.gen /\ pt.camera /= Nothing) => PipeIsOf(pipes, person.pipeline, pt.camera)

FaceIsCurrent ==
    /\ (ft.gen = face.gen /\ ft.pc \notin {"loop", "final", "dead"}) =>
          ft.settings = face.settings /\ ft.camera = face.camera
    /\ ft.gen <= face.gen

InferenceInv ==
    /\ InferenceTypes
    /\ DetectorIsOwned /\ RuntimeIsOwned
    /\ PersonIsCurrent /\ FaceIsCurrent


Keeps(p, q) == DOMAIN p \subseteq DOMAIN q /\ \A i \in DOMAIN p : q[i].camera = p[i].camera

LEMMA PipesForKeeps ==
  ASSUME InferenceTypes, NEW c \in OrNothing(FocusCameras)
  PROVE  /\ PipesFor(c) \in Seq(Pipes) /\ Keeps(pipes, PipesFor(c))
         /\ TrackingFor(c) \in DOMAIN PipesFor(c) /\ PipesFor(c)[TrackingFor(c)].camera = c
         /\ TrackingFor(c) \in Nat
<1> DEFINE new == [camera |-> c, latest |-> FALSE, confirmer |-> Nothing]
<1>1. pipes \in Seq(Pipes) /\ new \in Pipes
  BY DEF InferenceTypes, Pipes, OrNothing
<1>2. CASE HasPipeline(c)
  <2>1. person.pipeline \in DOMAIN pipes /\ pipes[person.pipeline].camera = c
    BY <1>2 DEF HasPipeline, InferenceTypes, OrNothing
  <2>2. person.pipeline \in Nat
    BY <1>1, <2>1
  <2> QED
    BY <1>1, <1>2, <2>1, <2>2 DEF PipesFor, TrackingFor, Keeps
<1>3. CASE ~HasPipeline(c)
  <2>1. PipesFor(c) = Append(pipes, new) /\ TrackingFor(c) = Len(pipes) + 1
    BY <1>3 DEF PipesFor, TrackingFor
  <2> HIDE DEF new
  <2>2. /\ Append(pipes, new) \in Seq(Pipes) /\ Len(pipes) \in Nat
        /\ DOMAIN Append(pipes, new) = 1 .. Len(pipes) + 1
        /\ DOMAIN pipes = 1 .. Len(pipes)
        /\ \A i \in 1 .. Len(pipes) : Append(pipes, new)[i] = pipes[i]
        /\ Append(pipes, new)[Len(pipes) + 1] = new
    BY <1>1
  <2>3. new.camera = c
    BY DEF new
  <2>4. Keeps(pipes, Append(pipes, new))
    BY <2>2 DEF Keeps
  <2> QED
    BY <2>1, <2>2, <2>3, <2>4
<1> QED
  BY <1>2, <1>3

LEMMA LatestKeeps ==
  ASSUME NEW q \in Seq(Pipes), NEW i, NEW b \in BOOLEAN
  PROVE  [q EXCEPT ![i].latest = b] \in Seq(Pipes) /\ Keeps(q, [q EXCEPT ![i].latest = b])
<1> DEFINE r == [q EXCEPT ![i].latest = b]
<1>1. DOMAIN q = 1 .. Len(q) /\ Len(q) \in Nat /\ \A k \in 1 .. Len(q) : q[k] \in Pipes
  OBVIOUS
<1>2. DOMAIN r = 1 .. Len(q) /\ r \in [1 .. Len(q) -> Pipes]
  BY <1>1 DEF Pipes
<1>3. \A k \in 1 .. Len(q) : r[k] \in Pipes /\ r[k].camera = q[k].camera
  BY <1>1 DEF Pipes
<1> HIDE DEF r
<1>4. r \in Seq(Pipes)
  BY <1>1, <1>2, <1>3
<1>5. Keeps(q, r)
  BY <1>1, <1>2, <1>3 DEF Keeps
<1> QED
  BY <1>4, <1>5 DEF r

LEMMA ConfirmerKeeps ==
  ASSUME NEW q \in Seq(Pipes), NEW i, NEW x \in OrNothing(Nat)
  PROVE  [q EXCEPT ![i].confirmer = x] \in Seq(Pipes) /\ Keeps(q, [q EXCEPT ![i].confirmer = x])
<1> DEFINE r == [q EXCEPT ![i].confirmer = x]
<1>1. DOMAIN q = 1 .. Len(q) /\ Len(q) \in Nat /\ \A k \in 1 .. Len(q) : q[k] \in Pipes
  OBVIOUS
<1>2. DOMAIN r = 1 .. Len(q) /\ r \in [1 .. Len(q) -> Pipes]
  BY <1>1 DEF Pipes
<1>3. \A k \in 1 .. Len(q) : r[k] \in Pipes /\ r[k].camera = q[k].camera
  BY <1>1 DEF Pipes
<1> HIDE DEF r
<1>4. r \in Seq(Pipes)
  BY <1>1, <1>2, <1>3
<1>5. Keeps(q, r)
  BY <1>1, <1>2, <1>3 DEF Keeps
<1> QED
  BY <1>4, <1>5 DEF r

LEMMA KeepsTransitive ==
  ASSUME NEW p, NEW q, NEW r, Keeps(p, q), Keeps(q, r)
  PROVE  Keeps(p, r)
BY DEF Keeps

-----------------------------------------------------------------------------
(* The person controller.                                                  *)

PersonShows ==
    person'.shown /= person.shown =>
      /\ person'.shown.camera = person'.camera /\ person'.shown.model = person'.settings
      /\ person'.shown.pipeline = Nothing \/ person'.camera = Nothing
           \/ pipes'[person'.shown.pipeline].camera = person'.camera

FaceShows ==
    face'.shown /= face.shown =>
      face'.shown.camera = face'.camera /\ face'.shown.model = face'.settings

\* What a step of the person thread gives the rest.
PersonStep ==
    /\ gui' = gui /\ face' = face /\ ft' = ft /\ open'.runtimes = open.runtimes
    /\ queue' \in Seq(PersonSnapshots) /\ pipes' \in Seq(Pipes)
    /\ person' \in Persons /\ pt' \in PersonThreads /\ open' \in Opens
    /\ person'.pipeline \in OrNothing(DOMAIN pipes')
    /\ DetectorIsOwned' /\ PersonIsCurrent' /\ PersonShows

LEMMA PersonStepKeeps ==
  ASSUME InferenceInv, PersonStep PROVE InferenceInv' /\ PersonShows /\ FaceShows
<1>1. InferenceTypes'
  BY DEF InferenceInv, InferenceTypes, PersonStep
<1>2. RuntimeIsOwned'
  BY Zenon DEF InferenceInv, RuntimeIsOwned, PersonStep
<1>3. FaceIsCurrent'
  BY Zenon DEF InferenceInv, FaceIsCurrent, PersonStep
<1>4. FaceShows
  BY DEF FaceShows, PersonStep
<1> QED
  BY <1>1, <1>2, <1>3, <1>4 DEF InferenceInv, PersonStep

LEMMA PublishIs ==
  ASSUME InferenceTypes, NEW s \in PersonSnapshots, Publish(s)
  PROVE  /\ person' \in Persons /\ queue' \in Seq(PersonSnapshots)
         /\ person'.camera = person.camera /\ person'.gen = person.gen /\ person'.settings = person.settings
         /\ person'.pipeline = person.pipeline
         /\ person'.shown = person.shown \/ (person.gen = pt.gen /\ person.camera = pt.camera /\ person'.shown = s)
<1>1. Emitted(s) \in Seq(PersonSnapshots)
  BY DEF Emitted, InferenceTypes
<1> QED
  BY <1>1 DEF Publish, InferenceTypes, Persons

LEMMA BaseIs ==
  ASSUME InferenceTypes, NEW i \in OrNothing(Nat)
  PROVE  BaseSnapshot(i) \in PersonSnapshots
BY DEF BaseSnapshot, PersonSnapshots, SnapshotsOf, InferenceTypes, PersonThreads, OrNothing

LEMMA PersonLoopKeeps ==
  ASSUME InferenceInv, PersonLoop PROVE PersonStep
<1>1. pt \in PersonThreads /\ open \in Opens /\ person \in Persons /\ pt.pc = "loop"
      /\ DetectorIsOwned /\ PersonIsCurrent
  BY DEF InferenceInv, InferenceTypes, PersonLoop
<1>2. CASE person.stop
  <2>1. pt' = [pt EXCEPT !.pc = "final"] /\ open' = open /\ person' = person /\ pipes' = pipes
    BY <1>2 DEF PersonLoop
  <2>2. pt' \in PersonThreads
    BY <1>1, <2>1 DEF PersonThreads
  <2>3. DetectorIsOwned'
    BY <1>1, <2>1 DEF DetectorIsOwned, PersonThreads
  <2>4. PersonIsCurrent'
    BY <1>1, <2>1 DEF PersonIsCurrent, PersonThreads, PipeIsOf
  <2> QED
    BY <2>1, <2>2, <2>3, <2>4 DEF PersonLoop, PersonStep, PersonShows, InferenceInv, InferenceTypes
<1>3. CASE ~person.stop
  <2> DEFINE now == [pt EXCEPT !.settings = person.settings, !.camera = person.camera, !.gen = person.gen]
  <2>1. /\ now \in PersonThreads
        /\ now.settings = person.settings /\ now.camera = person.camera /\ now.gen = person.gen
        /\ now.detector = pt.detector /\ now.bound = pt.bound
    BY <1>1 DEF PersonThreads, Persons
  <2> HIDE DEF now
  <2>2. CASE person.settings = pt.loaded
    <3>1. pt' = [now EXCEPT !.pc = "bind"] /\ open' = open /\ person' = person /\ pipes' = pipes
      BY <1>3, <2>2 DEF PersonLoop, now
    <3>2. pt' \in PersonThreads
      BY <2>1, <3>1 DEF PersonThreads
    <3>3. DetectorIsOwned'
      BY <1>1, <2>1, <3>1 DEF DetectorIsOwned, PersonThreads
    <3>4. PersonIsCurrent'
      BY <1>1, <2>1, <3>1 DEF PersonIsCurrent, PersonThreads, Persons, PipeIsOf
    <3> QED
      BY <3>1, <3>2, <3>3, <3>4 DEF PersonLoop, PersonStep, PersonShows, InferenceInv, InferenceTypes
  <2>3. CASE person.settings /= pt.loaded
    <3>1. /\ pt' = [now EXCEPT !.pc = "reset", !.loaded = person.settings, !.bound = Nothing, !.detector = Nothing]
          /\ CloseDetector /\ person' = person /\ pipes' = pipes
      BY <1>3, <2>3 DEF PersonLoop, now
    <3>2. pt' \in PersonThreads
      BY <1>1, <2>1, <3>1 DEF PersonThreads, Persons, OrNothing
    <3>3. open' \in Opens /\ open'.runtimes = open.runtimes /\ open'.detectors = open.detectors \ {pt.detector}
      BY <1>1, <3>1 DEF CloseDetector, Opens
    <3>4. DetectorIsOwned'
      BY <1>1, <2>1, <3>1, <3>3 DEF DetectorIsOwned, PersonThreads
    <3>5. PersonIsCurrent'
      BY <1>1, <2>1, <3>1 DEF PersonIsCurrent, PersonThreads, Persons, PipeIsOf
    <3> QED
      BY <3>1, <3>2, <3>3, <3>4, <3>5 DEF PersonLoop, PersonStep, PersonShows, InferenceInv, InferenceTypes
  <2> QED
    BY <2>2, <2>3
<1> QED
  BY <1>2, <1>3

LEMMA PersonResetKeeps ==
  ASSUME InferenceInv, PersonReset PROVE PersonStep
<1>1. /\ pt \in PersonThreads /\ open \in Opens /\ person \in Persons /\ pt.pc = "reset"
      /\ DetectorIsOwned /\ PersonIsCurrent /\ InferenceTypes
  BY DEF InferenceInv, InferenceTypes, PersonReset
<1>2. pt' = [pt EXCEPT !.pc = "load"] /\ open' = open
  BY DEF PersonReset
<1>3. pt' \in PersonThreads
  BY <1>1, <1>2 DEF PersonThreads
<1>4. DetectorIsOwned'
  BY <1>1, <1>2 DEF DetectorIsOwned, PersonThreads
<1>5. CASE pt.camera = Nothing
  <2>1. pipes' = pipes /\ person' = person
    BY <1>5 DEF PersonReset
  <2>2. PersonIsCurrent'
    BY <1>1, <1>2, <1>5, <2>1 DEF PersonIsCurrent, PersonThreads, Persons, PipeIsOf
  <2> QED
    BY <1>1, <1>2, <1>3, <1>4, <2>1, <2>2 DEF PersonReset, PersonStep, PersonShows, InferenceTypes
<1>6. CASE pt.camera /= Nothing
  <2> DEFINE p == TrackingFor(pt.camera)
             q == PipesFor(pt.camera)
  <2>1. pipes' = [q EXCEPT ![p].latest = FALSE] /\ person' = [person EXCEPT !.pipeline = p]
    BY <1>6 DEF PersonReset
  <2>2. pt.camera \in OrNothing(FocusCameras)
    BY <1>1 DEF PersonThreads
  <2>3. q \in Seq(Pipes) /\ p \in DOMAIN q /\ q[p].camera = pt.camera /\ p \in Nat
    BY <1>1, <2>2, PipesForKeeps
  <2> HIDE DEF p, q
  <2>4. pipes' \in Seq(Pipes) /\ Keeps(q, pipes')
    BY <2>1, <2>3, LatestKeeps
  <2>5. p \in DOMAIN pipes' /\ pipes'[p].camera = pt.camera
    BY <2>3, <2>4 DEF Keeps
  <2>6. /\ person' \in Persons /\ person'.pipeline = p /\ person'.gen = person.gen /\ person'.shown = person.shown
        /\ person'.camera = person.camera /\ person'.settings = person.settings
    BY <1>1, <2>1, <2>3 DEF Persons, OrNothing
  <2>7. PersonIsCurrent'
    BY <1>1, <1>2, <2>5, <2>6 DEF PersonIsCurrent, PersonThreads, PipeIsOf
  <2> QED
    BY <1>1, <1>2, <1>3, <1>4, <2>4, <2>5, <2>6, <2>7
       DEF PersonReset, PersonStep, PersonShows, InferenceTypes, OrNothing
<1> QED
  BY <1>5, <1>6

LEMMA PersonLoadKeeps ==
  ASSUME InferenceInv, PersonLoad PROVE PersonStep
<1> DEFINE s == BaseSnapshot(person.pipeline)
<1>1. /\ pt \in PersonThreads /\ open \in Opens /\ person \in Persons /\ pt.pc = "load"
      /\ DetectorIsOwned /\ PersonIsCurrent /\ InferenceTypes
  BY DEF InferenceInv, InferenceTypes, PersonLoad
<1>2. /\ s \in PersonSnapshots /\ s.camera = pt.camera /\ s.model = pt.settings /\ s.pipeline = person.pipeline
  BY <1>1, BaseIs DEF BaseSnapshot, Persons
<1>3. Publish(s) /\ pipes' = pipes /\ gui' = gui /\ face' = face /\ ft' = ft
  BY DEF PersonLoad
<1> HIDE DEF s
<1>4. /\ person' \in Persons /\ queue' \in Seq(PersonSnapshots)
      /\ person'.camera = person.camera /\ person'.gen = person.gen /\ person'.settings = person.settings
      /\ person'.pipeline = person.pipeline
      /\ person'.shown = person.shown \/ (person.gen = pt.gen /\ person.camera = pt.camera /\ person'.shown = s)
  BY <1>1, <1>2, <1>3, PublishIs
<1>5. PICK d \in OrNothing(Models) : pt' = [pt EXCEPT !.pc = "check", !.detector = d]
  <2>1. CASE pt.settings = "off"
    <3>1. pt' = [pt EXCEPT !.pc = "check"] /\ pt.detector = Nothing
      BY <1>1, <2>1 DEF PersonLoad, DetectorIsOwned
    <3>2. pt' = [pt EXCEPT !.pc = "check", !.detector = Nothing]
      BY <1>1, <3>1 DEF PersonThreads
    <3> QED
      BY <3>2 DEF OrNothing
  <2>2. CASE pt.settings /= "off"
    <3>1. pt.settings \in Models
      BY <1>1, <2>2 DEF PersonThreads
    <3> QED
      BY <2>2, <3>1 DEF PersonLoad, OrNothing
  <2> QED
    BY <2>1, <2>2
<1>6. /\ pt' \in PersonThreads /\ pt'.detector = d /\ pt'.pc = "check" /\ pt'.gen = pt.gen
      /\ pt'.settings = pt.settings /\ pt'.camera = pt.camera /\ pt'.bound = pt.bound
  BY <1>1, <1>5 DEF PersonThreads
<1>7. open' = [open EXCEPT !.detectors = @ \cup ({d} \ {Nothing})]
  BY <1>6 DEF PersonLoad
<1>8. /\ open' \in Opens /\ open'.runtimes = open.runtimes
      /\ open'.detectors = open.detectors \cup ({d} \ {Nothing})
  BY <1>1, <1>7 DEF Opens, OrNothing
<1>9. DetectorIsOwned'
  BY <1>1, <1>6, <1>8 DEF DetectorIsOwned
<1>10. PersonIsCurrent'
  BY <1>1, <1>3, <1>4, <1>6 DEF PersonIsCurrent, PipeIsOf
<1>11. PersonShows
  BY <1>1, <1>2, <1>3, <1>4 DEF PersonShows, PersonIsCurrent, PipeIsOf
<1>12. pipes' \in Seq(Pipes) /\ person'.pipeline \in OrNothing(DOMAIN pipes')
  BY <1>1, <1>3, <1>4 DEF InferenceTypes
<1> QED
  BY <1>3, <1>4, <1>6, <1>8, <1>9, <1>10, <1>11, <1>12 DEF PersonStep

\* What PersonAgain leaves the thread with.
LEMMA AgainIs ==
  ASSUME pt \in PersonThreads
  PROVE  /\ PersonAgain \in PersonThreads /\ PersonAgain.pc = "loop" /\ PersonAgain.gen = 0
         /\ PersonAgain.detector = pt.detector /\ PersonAgain.bound = pt.bound
         /\ PersonAgain.loaded = pt.loaded
BY DEF PersonAgain, PersonThreads, OrNothing

LEMMA PersonCheckKeeps ==
  ASSUME InferenceInv, PersonCheck PROVE PersonStep
<1>1. /\ pt \in PersonThreads /\ open \in Opens /\ person \in Persons /\ pt.pc = "check"
      /\ DetectorIsOwned /\ PersonIsCurrent /\ InferenceTypes
  BY DEF InferenceInv, InferenceTypes, PersonCheck
<1>2. UNCHANGED <<gui, changes, queue, pipes, person, face, ft>>
  BY DEF PersonCheck
<1>3. PersonShows
  BY <1>2 DEF PersonShows
<1>4. ASSUME pt' \in PersonThreads, pt'.pc \notin {"reset", "load", "dead"}, pt'.bound = pt.bound,
             pt'.gen = 0 \/ pt'.gen = pt.gen,
             pt'.pc \in {"loop", "final"}
               \/ (pt'.pc = "bind" /\ pt'.settings = pt.settings /\ pt'.camera = pt.camera /\ pt'.gen = pt.gen),
             open' \in Opens, open'.runtimes = open.runtimes,
             open'.detectors \subseteq {pt'.detector} \ {Nothing}
      PROVE  PersonStep
  <2>1. DetectorIsOwned'
    BY <1>4 DEF DetectorIsOwned
  <2>2. pt.bound = Nothing /\ person.gen \in Nat /\ pt.gen <= person.gen
    BY <1>1 DEF PersonIsCurrent, Persons
  <2>3. PersonIsCurrent'
    BY <1>1, <1>2, <1>4, <2>2 DEF PersonIsCurrent, PipeIsOf
  <2> QED
    BY <1>1, <1>2, <1>3, <1>4, <2>1, <2>3 DEF PersonStep, InferenceTypes
<1>5. CASE <<person.settings, person.camera, person.gen>> /= <<pt.settings, pt.camera, pt.gen>>
  <2>1. pt' = [PersonAgain EXCEPT !.detector = Nothing, !.loaded = Nothing] /\ CloseDetector
    BY <1>5 DEF PersonCheck
  <2>2. pt' \in PersonThreads /\ pt'.pc = "loop" /\ pt'.gen = 0 /\ pt'.bound = pt.bound /\ pt'.detector = Nothing
    BY <1>1, <2>1, AgainIs DEF PersonThreads, OrNothing
  <2>3. open' \in Opens /\ open'.runtimes = open.runtimes /\ open'.detectors = {}
    BY <1>1, <2>1 DEF CloseDetector, Opens, DetectorIsOwned
  <2> QED
    BY <1>4, <2>2, <2>3
<1>6. CASE <<person.settings, person.camera, person.gen>> = <<pt.settings, pt.camera, pt.gen>>
  <2>1. /\ pt' = IF person.stop THEN [pt EXCEPT !.pc = "final"]
                 ELSE IF pt.detector = Nothing THEN PersonAgain ELSE [pt EXCEPT !.pc = "bind"]
        /\ open' = open
    BY <1>6 DEF PersonCheck
  <2>2. /\ pt' \in PersonThreads /\ pt'.bound = pt.bound /\ pt'.detector = pt.detector
        /\ pt'.gen = 0 \/ pt'.gen = pt.gen
        /\ \/ pt'.pc \in {"loop", "final"}
           \/ pt'.pc = "bind" /\ pt'.settings = pt.settings /\ pt'.camera = pt.camera /\ pt'.gen = pt.gen
    <3>1. CASE person.stop
      BY <1>1, <2>1, <3>1 DEF PersonThreads
    <3>2. CASE ~person.stop /\ pt.detector = Nothing
      BY <1>1, <2>1, <3>2, AgainIs
    <3>3. CASE ~person.stop /\ pt.detector /= Nothing
      BY <1>1, <2>1, <3>3 DEF PersonThreads
    <3> QED
      BY <3>1, <3>2, <3>3
  <2> QED
    BY <1>1, <1>4, <2>1, <2>2 DEF DetectorIsOwned
<1> QED
  BY <1>5, <1>6

LEMMA PersonBindKeeps ==
  ASSUME InferenceInv, PersonBind PROVE PersonStep
<1>1. /\ pt \in PersonThreads /\ open \in Opens /\ person \in Persons /\ pt.pc = "bind"
      /\ DetectorIsOwned /\ PersonIsCurrent /\ InferenceTypes
  BY DEF InferenceInv, InferenceTypes, PersonBind
<1>2. gui' = gui /\ face' = face /\ ft' = ft /\ open' = open
  BY DEF PersonBind
<1>3. /\ pt' \in PersonThreads /\ pt'.bound = pt.camera /\ pt'.detector = pt.detector
      /\ \/ pt'.pc = "loop" /\ pt'.gen = 0
         \/ pt'.pc = "frame" /\ pt'.settings = pt.settings /\ pt'.camera = pt.camera /\ pt'.gen = pt.gen
  <2>1. CASE pt.detector = Nothing \/ pt.camera = Nothing
    <3>1. pt' = [PersonAgain EXCEPT !.bound = pt.camera]
      BY <2>1 DEF PersonBind
    <3> QED
      BY <1>1, <3>1, AgainIs DEF PersonThreads
  <2>2. CASE ~(pt.detector = Nothing \/ pt.camera = Nothing)
    <3>1. pt' = [pt EXCEPT !.pc = "frame", !.bound = pt.camera]
      BY <2>2 DEF PersonBind
    <3> QED
      BY <1>1, <3>1 DEF PersonThreads
  <2> QED
    BY <2>1, <2>2
<1>4. DetectorIsOwned'
  BY <1>1, <1>2, <1>3 DEF DetectorIsOwned
<1>5. ASSUME person' \in Persons, person'.gen = person.gen, person'.settings = person.settings,
             person'.camera = person.camera,
             pt.camera /= Nothing => PipeIsOf(pipes', person'.pipeline, pt.camera)
      PROVE  PersonIsCurrent'
  <2>1. pt.camera /= Nothing => PipeIsOf(pipes', person'.pipeline, pt'.bound)
    BY <1>3, <1>5 DEF PipeIsOf
  <2> QED
    BY <1>1, <1>3, <1>5, <2>1 DEF PersonIsCurrent, Persons, PipeIsOf
<1>6. CASE pt.camera = pt.bound
  <2>1. pipes' = pipes /\ person' = person /\ queue' = queue
    BY <1>6 DEF PersonBind
  <2>2. pt.camera /= Nothing => PipeIsOf(pipes', person'.pipeline, pt.camera)
    BY <1>1, <1>6, <1>3, <2>1 DEF PersonIsCurrent, PipeIsOf
  <2>3. PersonIsCurrent'
    BY <1>1, <1>5, <2>1, <2>2
  <2> QED
    BY <1>1, <1>2, <1>3, <1>4, <2>1, <2>3 DEF PersonStep, PersonShows, InferenceTypes
<1>7. CASE pt.camera /= pt.bound
  <2> DEFINE p == IF pt.camera = Nothing THEN person.pipeline ELSE TrackingFor(pt.camera)
             s == BaseSnapshot(p)
             current == person.gen = pt.gen /\ person.camera = pt.camera
  <2>1. /\ pipes' = (IF pt.camera = Nothing THEN pipes ELSE PipesFor(pt.camera))
        /\ person' = [person EXCEPT !.pipeline = p, !.shown = IF current THEN s ELSE @]
        /\ queue' = IF current THEN Emitted(s) ELSE queue
    BY <1>7 DEF PersonBind
  <2>2. /\ pipes' \in Seq(Pipes) /\ p \in OrNothing(DOMAIN pipes') /\ p \in OrNothing(Nat)
        /\ pt.camera /= Nothing => (p \in DOMAIN pipes' /\ pipes'[p].camera = pt.camera)
    <3>1. CASE pt.camera = Nothing
      BY <1>1, <2>1, <3>1 DEF InferenceTypes, Persons
    <3>2. CASE pt.camera /= Nothing
      <4>1. pt.camera \in OrNothing(FocusCameras)
        BY <1>1 DEF PersonThreads
      <4> QED
        BY <1>1, <2>1, <3>2, <4>1, PipesForKeeps DEF OrNothing
    <3> QED
      BY <3>1, <3>2
  <2> HIDE DEF p
  <2>3. s \in PersonSnapshots /\ s.camera = pt.camera /\ s.model = pt.settings /\ s.pipeline = p
    BY <1>1, <2>2, BaseIs DEF BaseSnapshot
  <2> HIDE DEF s
  <2>4. Emitted(s) \in Seq(PersonSnapshots)
    BY <1>1, <2>3 DEF Emitted, InferenceTypes
  <2>5. queue' \in Seq(PersonSnapshots)
    BY <1>1, <2>1, <2>4 DEF InferenceTypes
  <2>6. /\ person' \in Persons /\ person'.gen = person.gen /\ person'.settings = person.settings
        /\ person'.camera = person.camera /\ person'.pipeline = p
        /\ person'.shown = person.shown \/ (current /\ person'.shown = s)
    BY <1>1, <2>1, <2>2, <2>3 DEF Persons
  <2>7. pt.camera /= Nothing => PipeIsOf(pipes', person'.pipeline, pt.camera)
    BY <1>3, <2>2, <2>6 DEF PipeIsOf, PersonBind
  <2>8. PersonIsCurrent'
    BY <1>5, <2>6, <2>7
  <2>9. PersonShows
    BY <1>1, <2>2, <2>3, <2>6 DEF PersonShows, PersonIsCurrent
  <2> QED
    BY <1>1, <1>2, <1>3, <1>4, <2>2, <2>5, <2>6, <2>8, <2>9 DEF PersonStep
<1> QED
  BY <1>6, <1>7

\* Publish in the middle of the loop, where the pipeline is the bound camera's,
\* and the thread starts over.
LEMMA PublishKeeps ==
  ASSUME InferenceInv, pt.pc \in {"frame", "publish"}, pt' = PersonAgain,
         Publish(BaseSnapshot(person.pipeline)),
         UNCHANGED <<gui, pipes, face, ft, open>>
  PROVE  PersonStep
<1> DEFINE s == BaseSnapshot(person.pipeline)
<1>1. /\ pt \in PersonThreads /\ open \in Opens /\ person \in Persons
      /\ DetectorIsOwned /\ PersonIsCurrent /\ InferenceTypes
  BY DEF InferenceInv, InferenceTypes
<1>2. s \in PersonSnapshots /\ s.camera = pt.camera /\ s.model = pt.settings /\ s.pipeline = person.pipeline
  BY <1>1, BaseIs DEF BaseSnapshot, Persons
<1>3. Publish(s)
  OBVIOUS
<1> HIDE DEF s
<1>4. /\ person' \in Persons /\ queue' \in Seq(PersonSnapshots)
      /\ person'.camera = person.camera /\ person'.gen = person.gen /\ person'.settings = person.settings
      /\ person'.pipeline = person.pipeline
      /\ person'.shown = person.shown \/ (person.gen = pt.gen /\ person.camera = pt.camera /\ person'.shown = s)
  BY <1>1, <1>2, <1>3, PublishIs
<1>5. /\ pt' \in PersonThreads /\ pt'.pc = "loop" /\ pt'.gen = 0 /\ pt'.detector = pt.detector
      /\ pt'.bound = pt.bound
  BY <1>1, AgainIs
<1>6. DetectorIsOwned'
  BY <1>1, <1>5 DEF DetectorIsOwned
<1>7. PersonIsCurrent'
  BY <1>1, <1>4, <1>5 DEF PersonIsCurrent, PipeIsOf, Persons
<1>8. PersonShows
  BY <1>1, <1>2, <1>4 DEF PersonShows, PersonIsCurrent, PipeIsOf
<1> QED
  BY <1>1, <1>4, <1>5, <1>6, <1>7, <1>8 DEF PersonStep, InferenceTypes

LEMMA PersonDetectKeeps ==
  ASSUME InferenceInv, PersonDetect PROVE PersonStep
<1>1. /\ pt \in PersonThreads /\ open \in Opens /\ person \in Persons /\ pt.pc = "frame"
      /\ DetectorIsOwned /\ PersonIsCurrent /\ InferenceTypes
  BY DEF InferenceInv, InferenceTypes, PersonDetect
<1>2. UNCHANGED <<gui, changes, pipes, face, ft, open>>
  BY DEF PersonDetect
<1>3. CASE pt' = PersonAgain /\ Publish(BaseSnapshot(person.pipeline))
  BY <1>1, <1>2, <1>3, PublishKeeps
<1>4. CASE /\ pt' \in {PersonAgain, [pt EXCEPT !.pc = "update"]}
           /\ UNCHANGED <<person, queue>>
  <2>1. /\ pt' \in PersonThreads /\ pt'.detector = pt.detector /\ pt'.bound = pt.bound
        /\ \/ pt'.pc = "loop" /\ pt'.gen = 0
           \/ pt'.pc = "update" /\ pt'.settings = pt.settings /\ pt'.camera = pt.camera /\ pt'.gen = pt.gen
    <3>1. CASE pt' = PersonAgain
      BY <1>1, <3>1, AgainIs
    <3>2. CASE pt' = [pt EXCEPT !.pc = "update"]
      BY <1>1, <3>2 DEF PersonThreads
    <3> QED
      BY <1>4, <3>1, <3>2
  <2>2. DetectorIsOwned'
    BY <1>1, <1>2, <2>1 DEF DetectorIsOwned
  <2>3. PersonIsCurrent'
    BY <1>1, <1>2, <1>4, <2>1 DEF PersonIsCurrent, PipeIsOf, Persons
  <2> QED
    BY <1>1, <1>2, <1>4, <2>1, <2>2, <2>3 DEF PersonStep, PersonShows, InferenceTypes
<1> QED
  BY <1>3, <1>4 DEF PersonDetect

LEMMA PersonUpdateKeeps ==
  ASSUME InferenceInv, PersonUpdate PROVE PersonStep
<1> DEFINE p == TrackingFor(pt.camera)
           q == PipesFor(pt.camera)
<1>1. /\ pt \in PersonThreads /\ open \in Opens /\ person \in Persons /\ pt.pc = "update"
      /\ DetectorIsOwned /\ PersonIsCurrent /\ InferenceTypes
  BY DEF InferenceInv, InferenceTypes, PersonUpdate
<1>2. /\ pipes' = [q EXCEPT ![p].latest = TRUE] /\ person' = [person EXCEPT !.pipeline = p]
      /\ pt' = [pt EXCEPT !.pc = "publish"] /\ open' = open
  BY DEF PersonUpdate
<1>3. q \in Seq(Pipes) /\ p \in DOMAIN q /\ p \in Nat /\ q[p].camera = pt.camera
  <2>1. pt.camera \in OrNothing(FocusCameras)
    BY <1>1 DEF PersonThreads
  <2> QED
    BY <1>1, <2>1, PipesForKeeps
<1> HIDE DEF p, q
<1>4. pipes' \in Seq(Pipes) /\ Keeps(q, pipes')
  BY <1>2, <1>3, LatestKeeps
<1>5. p \in DOMAIN pipes' /\ pipes'[p].camera = pt.camera
  BY <1>3, <1>4 DEF Keeps
<1>6. /\ person' \in Persons /\ person'.pipeline = p /\ person'.gen = person.gen /\ person'.shown = person.shown
      /\ person'.camera = person.camera /\ person'.settings = person.settings
  BY <1>1, <1>2, <1>3 DEF Persons, OrNothing
<1>7. /\ pt' \in PersonThreads /\ pt'.detector = pt.detector /\ pt'.bound = pt.bound /\ pt'.pc = "publish"
      /\ pt'.settings = pt.settings /\ pt'.camera = pt.camera /\ pt'.gen = pt.gen
  BY <1>1, <1>2 DEF PersonThreads
<1>8. DetectorIsOwned'
  BY <1>1, <1>2, <1>7 DEF DetectorIsOwned
<1>9. PersonIsCurrent'
  BY <1>1, <1>5, <1>6, <1>7 DEF PersonIsCurrent, PipeIsOf
<1> QED
  BY <1>1, <1>2, <1>4, <1>5, <1>6, <1>7, <1>8, <1>9
     DEF PersonUpdate, PersonStep, PersonShows, InferenceTypes, OrNothing

LEMMA PersonPublishKeeps ==
  ASSUME InferenceInv, PersonPublish PROVE PersonStep
BY PublishKeeps DEF PersonPublish

LEMMA PersonFinalKeeps ==
  ASSUME InferenceInv, PersonFinal PROVE PersonStep
<1>1. /\ pt \in PersonThreads /\ open \in Opens /\ person \in Persons /\ pt.pc = "final"
      /\ DetectorIsOwned /\ PersonIsCurrent /\ InferenceTypes
  BY DEF InferenceInv, InferenceTypes, PersonFinal
<1>2. /\ pt' = [pt EXCEPT !.pc = "dead", !.detector = Nothing] /\ CloseDetector
      /\ UNCHANGED <<gui, changes, queue, pipes, person, face, ft>>
  BY DEF PersonFinal
<1>3. /\ pt' \in PersonThreads /\ pt'.detector = Nothing /\ pt'.pc = "dead" /\ pt'.gen = pt.gen
      /\ pt'.bound = pt.bound
  BY <1>1, <1>2 DEF PersonThreads, OrNothing
<1>4. open' \in Opens /\ open'.runtimes = open.runtimes /\ open'.detectors = {}
  BY <1>1, <1>2 DEF CloseDetector, Opens, DetectorIsOwned
<1>5. DetectorIsOwned'
  BY <1>3, <1>4 DEF DetectorIsOwned
<1>6. PersonIsCurrent'
  BY <1>1, <1>2, <1>3 DEF PersonIsCurrent, PipeIsOf
<1> QED
  BY <1>1, <1>2, <1>3, <1>4, <1>5, <1>6 DEF PersonStep, PersonShows, InferenceTypes

LEMMA PersonThreadKeeps ==
  ASSUME InferenceInv, PersonThread PROVE InferenceInv' /\ PersonShows /\ FaceShows
<1>1. PersonStep
  BY PersonLoopKeeps, PersonResetKeeps, PersonLoadKeeps, PersonCheckKeeps, PersonBindKeeps,
     PersonDetectKeeps, PersonUpdateKeeps, PersonPublishKeeps, PersonFinalKeeps DEF PersonThread
<1> QED
  BY <1>1, PersonStepKeeps

-----------------------------------------------------------------------------
(* The face controller.                                                    *)

\* What a step of the face thread, or stop()'s, gives the rest.
FaceStep ==
    /\ person' = person /\ pt' = pt /\ queue' = queue /\ open'.detectors = open.detectors
    /\ pipes' \in Seq(Pipes) /\ Keeps(pipes, pipes')
    /\ gui' \in {gui, "gone"}
    /\ face' \in Faces /\ ft' \in FaceThreads /\ open' \in Opens
    /\ RuntimeIsOwned' /\ FaceIsCurrent' /\ FaceShows

LEMMA FaceStepKeeps ==
  ASSUME InferenceInv, FaceStep PROVE InferenceInv' /\ PersonShows /\ FaceShows
<1>1. InferenceTypes'
  BY DEF InferenceInv, InferenceTypes, FaceStep, OrNothing, Keeps
<1>2. DetectorIsOwned'
  BY Zenon DEF InferenceInv, DetectorIsOwned, FaceStep
<1>3. \A i, c : PipeIsOf(pipes, i, c) => PipeIsOf(pipes', i, c)
  BY DEF FaceStep, Keeps, PipeIsOf
<1>4. PersonIsCurrent'
  BY <1>3 DEF InferenceInv, PersonIsCurrent, FaceStep
<1>5. PersonShows
  BY DEF PersonShows, FaceStep
<1> QED
  BY <1>1, <1>2, <1>4, <1>5 DEF InferenceInv, FaceStep

LEMMA FacePublishIs ==
  ASSUME InferenceTypes
  PROVE  /\ FacePublish \in Faces
         /\ FacePublish.gen = face.gen /\ FacePublish.settings = face.settings
         /\ FacePublish.camera = face.camera /\ FacePublish.runtime = face.runtime
         /\ FacePublish.pipeline = face.pipeline /\ FacePublish.late = face.late
         /\ FacePublish.shown = face.shown
              \/ (/\ face.gen = ft.gen
                  /\ FacePublish.shown.camera = ft.camera /\ FacePublish.shown.model = ft.settings)
<1>1. face \in Faces /\ ft \in FaceThreads
  BY DEF InferenceTypes
<1>2. CASE face.gen = ft.gen
  <2> DEFINE s == [camera |-> ft.camera, model |-> ft.settings, pipeline |-> ft.tracking]
  <2>1. FacePublish = [face EXCEPT !.shown = s]
    BY <1>2 DEF FacePublish
  <2>2. s \in SnapshotsOf(BOOLEAN) /\ s.camera = ft.camera /\ s.model = ft.settings
    BY <1>1 DEF FaceThreads, SnapshotsOf, OrNothing
  <2> HIDE DEF s
  <2> QED
    BY <1>1, <1>2, <2>1, <2>2 DEF Faces
<1>3. CASE face.gen /= ft.gen
  BY <1>1, <1>3 DEF FacePublish
<1> QED
  BY <1>2, <1>3

LEMMA CloseRuntimeIs ==
  ASSUME InferenceTypes, CloseRuntime
  PROVE  /\ pipes' \in Seq(Pipes) /\ Keeps(pipes, pipes') /\ open' \in Opens
         /\ open'.detectors = open.detectors /\ open'.runtimes = open.runtimes \ {face.runtime}
<1>1. pipes' \in Seq(Pipes) /\ Keeps(pipes, pipes')
  <2>1. CASE face.pipeline = Nothing
    BY <2>1 DEF CloseRuntime, InferenceTypes, Keeps
  <2>2. CASE face.pipeline /= Nothing
    BY <2>2, ConfirmerKeeps DEF CloseRuntime, InferenceTypes, OrNothing
  <2> QED
    BY <2>1, <2>2
<1> QED
  BY <1>1 DEF CloseRuntime, InferenceTypes, Opens

\* What FaceAgain leaves the thread with.
LEMMA FaceAgainIs ==
  ASSUME ft \in FaceThreads
  PROVE  FaceAgain \in FaceThreads /\ FaceAgain.pc = "loop" /\ FaceAgain.gen = 0 /\ FaceAgain.runtime = Nothing
BY DEF FaceAgain, FaceThreads, OrNothing

LEMMA KeepsItself == ASSUME NEW p PROVE Keeps(p, p)
BY DEF Keeps

\* The last step of every action of the thread: what it did to the thread, the
\* controller and the loaded runtimes.
LEMMA FaceBecomes ==
  ASSUME InferenceInv, UNCHANGED <<gui, queue, person, pt>>,
         pipes' \in Seq(Pipes), Keeps(pipes, pipes'),
         face' \in Faces, ft' \in FaceThreads, open' \in Opens, open'.detectors = open.detectors,
         face'.late = face.late, face'.gen = face.gen, face'.settings = face.settings, face'.camera = face.camera,
         \/ ft'.pc \in {"loop", "final", "dead"} /\ ft'.gen \in {0, ft.gen}
         \/ ft'.gen = ft.gen /\ ft'.settings = ft.settings /\ ft'.camera = ft.camera
              /\ ft.pc \notin {"loop", "final", "dead"}
         \/ ft'.gen = face.gen /\ ft'.settings = face.settings /\ ft'.camera = face.camera,
         face'.shown = face.shown
           \/ (/\ face.gen = ft.gen /\ ft.pc \notin {"loop", "final", "dead"}
               /\ face'.shown.camera = ft.camera /\ face'.shown.model = ft.settings),
         RuntimeIsOwned'
  PROVE  FaceStep
<1>1. /\ FaceIsCurrent /\ face \in Faces /\ ft \in FaceThreads
  BY DEF InferenceInv, InferenceTypes
<1>2. FaceIsCurrent'
  BY <1>1 DEF FaceIsCurrent, Faces, FaceThreads
<1>3. FaceShows
  BY <1>1 DEF FaceIsCurrent, FaceShows
<1> QED
  BY <1>2, <1>3 DEF FaceStep

LEMMA FaceLoopKeeps ==
  ASSUME InferenceInv, FaceLoop PROVE FaceStep
<1>1. /\ InferenceTypes /\ RuntimeIsOwned /\ face \in Faces /\ ft \in FaceThreads /\ open \in Opens
      /\ ft.pc = "loop" /\ pipes \in Seq(Pipes) /\ Keeps(pipes, pipes)
  BY KeepsItself DEF InferenceInv, InferenceTypes, FaceLoop
<1>2. UNCHANGED <<gui, changes, queue, person, pt>>
  BY DEF FaceLoop
<1>3. CASE face.stop
  <2>1. ft' = [ft EXCEPT !.pc = "final"] /\ UNCHANGED <<pipes, open, face>>
    BY <1>3 DEF FaceLoop
  <2>2. ft' \in FaceThreads /\ ft'.pc = "final" /\ ft'.gen = ft.gen /\ ft'.runtime = ft.runtime
    BY <1>1, <2>1 DEF FaceThreads
  <2>3. RuntimeIsOwned'
    BY <1>1, <1>2, <2>1, <2>2 DEF RuntimeIsOwned
  <2> QED
    BY <1>1, <1>2, <2>1, <2>2, <2>3, FaceBecomes
<1>4. CASE ~face.stop
  <2> DEFINE now == [ft EXCEPT !.settings = face.settings, !.camera = face.camera, !.gen = face.gen,
                               !.tracking = face.tracking, !.snapshot = face.snapshot]
  <2>1. /\ now \in FaceThreads /\ now.gen = face.gen /\ now.settings = face.settings
        /\ now.camera = face.camera /\ now.runtime = ft.runtime
    BY <1>1 DEF FaceThreads, Faces
  <2> HIDE DEF now
  <2>2. CASE Signature = ft.loaded
    <3>1. ft' = [now EXCEPT !.pc = "look"] /\ UNCHANGED <<pipes, open, face>>
      BY <1>4, <2>2 DEF FaceLoop, now
    <3>2. /\ ft' \in FaceThreads /\ ft'.pc = "look" /\ ft'.gen = face.gen /\ ft'.settings = face.settings
          /\ ft'.camera = face.camera /\ ft'.runtime = ft.runtime
      BY <2>1, <3>1 DEF FaceThreads
    <3>3. RuntimeIsOwned'
      BY <1>1, <1>2, <3>1, <3>2 DEF RuntimeIsOwned
    <3> QED
      BY <1>1, <1>2, <3>1, <3>2, <3>3, FaceBecomes
  <2>3. CASE Signature /= ft.loaded
    <3>1. /\ ft' = [now EXCEPT !.pc = "reload", !.loaded = Signature, !.refused = FALSE]
          /\ CloseRuntime
          /\ face' = [face EXCEPT !.runtime = Nothing, !.pipeline = Nothing]
      BY <1>4, <2>3 DEF FaceLoop, now
    <3>2. Signature \in LoadedSignatures
      BY <1>1 DEF Signature, LoadedSignatures, Faces
    <3>3. /\ ft' \in FaceThreads /\ ft'.pc = "reload" /\ ft'.gen = face.gen /\ ft'.settings = face.settings
          /\ ft'.camera = face.camera /\ ft'.runtime = ft.runtime
      BY <2>1, <3>1, <3>2 DEF FaceThreads
    <3>4. /\ face' \in Faces /\ face'.runtime = Nothing /\ face'.late = face.late /\ face'.gen = face.gen
          /\ face'.settings = face.settings /\ face'.camera = face.camera /\ face'.shown = face.shown
      BY <1>1, <3>1 DEF Faces, OrNothing
    <3>5. /\ pipes' \in Seq(Pipes) /\ Keeps(pipes, pipes') /\ open' \in Opens
          /\ open'.detectors = open.detectors /\ open'.runtimes = open.runtimes \ {face.runtime}
      BY <1>1, <3>1, CloseRuntimeIs
    <3>6. RuntimeIsOwned'
      BY <1>1, <1>2, <3>3, <3>4, <3>5 DEF RuntimeIsOwned
    <3> QED
      BY <1>2, <3>3, <3>4, <3>5, <3>6, FaceBecomes
  <2> QED
    BY <2>2, <2>3
<1> QED
  BY <1>3, <1>4

LEMMA FaceReloadKeeps ==
  ASSUME InferenceInv, FaceReload PROVE FaceStep
<1>1. /\ InferenceTypes /\ RuntimeIsOwned /\ face \in Faces /\ ft \in FaceThreads /\ open \in Opens
      /\ ft.pc = "reload" /\ pipes \in Seq(Pipes) /\ Keeps(pipes, pipes)
  BY KeepsItself DEF InferenceInv, InferenceTypes, FaceReload
<1>2. UNCHANGED <<gui, changes, queue, person, pt, open>> /\ face' = FacePublish
  BY DEF FaceReload
<1>3. PICK pc \in {"build", "look"} : ft' = [ft EXCEPT !.pc = pc]
  BY DEF FaceReload
<1>4. /\ ft' \in FaceThreads /\ ft'.pc \in {"build", "look"} /\ ft'.gen = ft.gen /\ ft'.settings = ft.settings
      /\ ft'.camera = ft.camera /\ ft'.runtime = ft.runtime
  BY <1>1, <1>3 DEF FaceThreads
<1>5. pipes' \in Seq(Pipes) /\ Keeps(pipes, pipes')
  <2>1. pipes' \in {pipes, [pipes EXCEPT ![ft.tracking].confirmer = Nothing]}
    BY DEF FaceReload
  <2>2. CASE pipes' = pipes
    BY <1>1, <2>2
  <2>3. CASE pipes' = [pipes EXCEPT ![ft.tracking].confirmer = Nothing]
    BY <1>1, <2>3, ConfirmerKeeps DEF OrNothing
  <2> QED
    BY <2>1, <2>2, <2>3
<1>6. RuntimeIsOwned'
  BY <1>1, <1>2, <1>4, FacePublishIs DEF RuntimeIsOwned
<1> QED
  BY <1>1, <1>2, <1>4, <1>5, <1>6, FacePublishIs, FaceBecomes

LEMMA FaceBuildKeeps ==
  ASSUME InferenceInv, FaceBuild PROVE FaceStep
<1>1. /\ InferenceTypes /\ RuntimeIsOwned /\ face \in Faces /\ ft \in FaceThreads /\ open \in Opens
      /\ ft.pc = "build" /\ pipes \in Seq(Pipes)
  BY DEF InferenceInv, InferenceTypes, FaceBuild
<1>2. /\ UNCHANGED <<gui, changes, queue, person, pt, face>>
      /\ ft' = [ft EXCEPT !.pc = "install", !.builds = @ + 1, !.runtime = ft.builds + 1]
      /\ open' = [open EXCEPT !.runtimes = @ \cup {ft.builds + 1}]
      /\ \E confirmer \in {ft.builds + 1, Nothing} : pipes' = [pipes EXCEPT ![ft.tracking].confirmer = confirmer]
  BY DEF FaceBuild
<1>3. PICK r \in Nat : r = ft.builds + 1
  BY <1>1 DEF FaceThreads
<1>4. r /= Nothing
  BY InferenceAssumption
<1>5. /\ ft' \in FaceThreads /\ ft'.pc = "install" /\ ft'.gen = ft.gen /\ ft'.settings = ft.settings
      /\ ft'.camera = ft.camera /\ ft'.runtime = r
  BY <1>1, <1>2, <1>3 DEF FaceThreads, OrNothing
<1>6. open' \in Opens /\ open'.detectors = open.detectors /\ open'.runtimes = open.runtimes \cup {r}
  BY <1>1, <1>2, <1>3 DEF Opens
<1>7. pipes' \in Seq(Pipes) /\ Keeps(pipes, pipes')
  <2>1. PICK confirmer \in {ft.builds + 1, Nothing} : pipes' = [pipes EXCEPT ![ft.tracking].confirmer = confirmer]
    BY <1>2
  <2>2. confirmer \in OrNothing(Nat)
    BY <1>3, <2>1 DEF OrNothing
  <2> QED
    BY <1>1, <2>1, <2>2, ConfirmerKeeps
<1>8. RuntimeIsOwned'
  BY <1>1, <1>2, <1>4, <1>5, <1>6 DEF RuntimeIsOwned
<1> QED
  BY <1>1, <1>2, <1>5, <1>6, <1>7, <1>8, FaceBecomes

LEMMA FaceRefusedKeeps ==
  ASSUME InferenceInv, FaceRefused PROVE FaceStep
<1>1. /\ InferenceTypes /\ RuntimeIsOwned /\ face \in Faces /\ ft \in FaceThreads /\ open \in Opens
      /\ ft.pc = "build" /\ pipes \in Seq(Pipes) /\ Keeps(pipes, pipes)
  BY KeepsItself DEF InferenceInv, InferenceTypes, FaceRefused
<1>2. UNCHANGED <<gui, changes, queue, pipes, person, pt, open>> /\ face' = FacePublish
      /\ ft' = [ft EXCEPT !.pc = "look", !.refused = TRUE]
  BY DEF FaceRefused
<1>3. /\ ft' \in FaceThreads /\ ft'.pc = "look" /\ ft'.gen = ft.gen /\ ft'.settings = ft.settings
      /\ ft'.camera = ft.camera /\ ft'.runtime = ft.runtime
  BY <1>1, <1>2 DEF FaceThreads
<1>4. RuntimeIsOwned'
  BY <1>1, <1>2, <1>3, FacePublishIs DEF RuntimeIsOwned
<1> QED
  BY <1>1, <1>2, <1>3, <1>4, FacePublishIs, FaceBecomes

LEMMA FaceRaisesKeeps ==
  ASSUME InferenceInv, FaceRaises PROVE FaceStep
<1>1. /\ InferenceTypes /\ RuntimeIsOwned /\ face \in Faces /\ ft \in FaceThreads /\ open \in Opens
      /\ ft.pc = "build" /\ pipes \in Seq(Pipes) /\ Keeps(pipes, pipes)
  BY KeepsItself DEF InferenceInv, InferenceTypes, FaceRaises
<1>2. UNCHANGED <<gui, changes, queue, pipes, person, pt, face, open>> /\ ft' = [ft EXCEPT !.pc = "final"]
  BY DEF FaceRaises
<1>3. ft' \in FaceThreads /\ ft'.pc = "final" /\ ft'.gen = ft.gen /\ ft'.runtime = ft.runtime
  BY <1>1, <1>2 DEF FaceThreads
<1>4. RuntimeIsOwned'
  BY <1>1, <1>2, <1>3 DEF RuntimeIsOwned
<1> QED
  BY <1>1, <1>2, <1>3, <1>4, FaceBecomes

LEMMA FaceInstallKeeps ==
  ASSUME InferenceInv, FaceInstall PROVE FaceStep
<1>1. /\ InferenceTypes /\ RuntimeIsOwned /\ face \in Faces /\ ft \in FaceThreads /\ open \in Opens
      /\ ft.pc = "install" /\ pipes \in Seq(Pipes) /\ Keeps(pipes, pipes)
  BY KeepsItself DEF InferenceInv, InferenceTypes, FaceInstall
<1>2. /\ UNCHANGED <<gui, changes, queue, pipes, person, pt, open>>
      /\ face' = [FacePublish EXCEPT !.runtime = ft.runtime, !.pipeline = ft.tracking]
      /\ ft' = [ft EXCEPT !.pc = "look", !.runtime = Nothing]
  BY DEF FaceInstall
<1> DEFINE f == FacePublish
<1>3. /\ f \in Faces /\ f.gen = face.gen /\ f.settings = face.settings /\ f.camera = face.camera
      /\ f.late = face.late
      /\ f.shown = face.shown
           \/ (face.gen = ft.gen /\ f.shown.camera = ft.camera /\ f.shown.model = ft.settings)
  BY <1>1, FacePublishIs
<1>4. face' = [f EXCEPT !.runtime = ft.runtime, !.pipeline = ft.tracking]
  BY <1>2
<1> HIDE DEF f
<1>5. /\ face' \in Faces /\ face'.gen = f.gen /\ face'.settings = f.settings /\ face'.camera = f.camera
      /\ face'.late = f.late /\ face'.shown = f.shown /\ face'.runtime = ft.runtime
  BY <1>1, <1>3, <1>4 DEF Faces, FaceThreads
<1>6. /\ ft' \in FaceThreads /\ ft'.pc = "look" /\ ft'.gen = ft.gen /\ ft'.settings = ft.settings
      /\ ft'.camera = ft.camera /\ ft'.runtime = Nothing
  BY <1>1, <1>2 DEF FaceThreads, OrNothing
<1>7. RuntimeIsOwned'
  BY <1>1, <1>2, <1>3, <1>5, <1>6 DEF RuntimeIsOwned
<1> QED
  BY <1>1, <1>2, <1>3, <1>5, <1>6, <1>7, FaceBecomes

LEMMA FaceLookKeeps ==
  ASSUME InferenceInv, FaceLook PROVE FaceStep
<1>1. /\ InferenceTypes /\ RuntimeIsOwned /\ face \in Faces /\ ft \in FaceThreads /\ open \in Opens
      /\ ft.pc = "look" /\ pipes \in Seq(Pipes) /\ Keeps(pipes, pipes)
  BY KeepsItself DEF InferenceInv, InferenceTypes, FaceLook
<1>2. UNCHANGED <<gui, changes, queue, pipes, person, pt, face, open>>
  BY DEF FaceLook
<1>3. CASE ft' = FaceAgain
  <2>1. ft' \in FaceThreads /\ ft'.pc = "loop" /\ ft'.gen = 0 /\ ft'.runtime = Nothing
    BY <1>1, <1>3, FaceAgainIs
  <2>2. RuntimeIsOwned'
    BY <1>1, <1>2, <2>1 DEF RuntimeIsOwned
  <2> QED
    BY <1>1, <1>2, <2>1, <2>2, FaceBecomes
<1>4. CASE face.runtime /= Nothing /\ ft' = [ft EXCEPT !.pc = "process", !.runtime = face.runtime]
  <2>1. /\ ft' \in FaceThreads /\ ft'.pc = "process" /\ ft'.gen = ft.gen /\ ft'.settings = ft.settings
        /\ ft'.camera = ft.camera /\ ft'.runtime = face.runtime
    BY <1>1, <1>4 DEF FaceThreads, Faces
  <2>2. RuntimeIsOwned'
    BY <1>1, <1>2, <1>4, <2>1 DEF RuntimeIsOwned
  <2> QED
    BY <1>1, <1>2, <2>1, <2>2, FaceBecomes
<1> QED
  BY <1>3, <1>4 DEF FaceLook

LEMMA FaceProcessKeeps ==
  ASSUME InferenceInv, FaceProcess PROVE FaceStep
<1>1. /\ InferenceTypes /\ RuntimeIsOwned /\ face \in Faces /\ ft \in FaceThreads /\ open \in Opens
      /\ ft.pc = "process" /\ pipes \in Seq(Pipes) /\ Keeps(pipes, pipes)
  BY KeepsItself DEF InferenceInv, InferenceTypes, FaceProcess
<1>2. /\ UNCHANGED <<gui, changes, queue, pipes, person, pt>>
      /\ open' = [open EXCEPT !.runtimes = @ \cup {ft.runtime}]
      /\ face' = FacePublish /\ ft' = FaceAgain
  BY DEF FaceProcess
<1>3. ft' \in FaceThreads /\ ft'.pc = "loop" /\ ft'.gen = 0 /\ ft'.runtime = Nothing
  BY <1>1, <1>2, FaceAgainIs
<1>4. open' \in Opens /\ open'.detectors = open.detectors /\ open'.runtimes = open.runtimes \cup {ft.runtime}
  BY <1>1, <1>2 DEF Opens, RuntimeIsOwned, FaceThreads, OrNothing
<1>5. RuntimeIsOwned'
  BY <1>1, <1>2, <1>3, <1>4, FacePublishIs DEF RuntimeIsOwned
<1> QED
  BY <1>1, <1>2, <1>3, <1>4, <1>5, FacePublishIs, FaceBecomes

LEMMA FaceFinalKeeps ==
  ASSUME InferenceInv, FaceFinal PROVE FaceStep
<1>1. /\ InferenceTypes /\ RuntimeIsOwned /\ face \in Faces /\ ft \in FaceThreads /\ open \in Opens
      /\ ft.pc = "final"
  BY DEF InferenceInv, InferenceTypes, FaceFinal
<1>2. /\ UNCHANGED <<gui, changes, queue, person, pt>> /\ CloseRuntime
      /\ face' = [face EXCEPT !.runtime = Nothing, !.pipeline = Nothing]
      /\ ft' = [ft EXCEPT !.pc = "dead"]
  BY DEF FaceFinal
<1>3. /\ face' \in Faces /\ face'.runtime = Nothing /\ face'.late = face.late /\ face'.gen = face.gen
      /\ face'.settings = face.settings /\ face'.camera = face.camera /\ face'.shown = face.shown
  BY <1>1, <1>2 DEF Faces, OrNothing
<1>4. ft' \in FaceThreads /\ ft'.pc = "dead" /\ ft'.gen = ft.gen /\ ft'.runtime = ft.runtime
  BY <1>1, <1>2 DEF FaceThreads
<1>5. /\ pipes' \in Seq(Pipes) /\ Keeps(pipes, pipes') /\ open' \in Opens
      /\ open'.detectors = open.detectors /\ open'.runtimes = open.runtimes \ {face.runtime}
  BY <1>1, <1>2, CloseRuntimeIs
<1>6. RuntimeIsOwned'
  BY <1>1, <1>2, <1>3, <1>4, <1>5 DEF RuntimeIsOwned
<1> QED
  BY <1>2, <1>3, <1>4, <1>5, <1>6, FaceBecomes

LEMMA FaceThreadKeeps ==
  ASSUME InferenceInv, FaceThread PROVE InferenceInv' /\ PersonShows /\ FaceShows
<1>1. FaceStep
  BY FaceLoopKeeps, FaceReloadKeeps, FaceBuildKeeps, FaceRefusedKeeps, FaceRaisesKeeps,
     FaceInstallKeeps, FaceLookKeeps, FaceProcessKeeps, FaceFinalKeeps DEF FaceThread
<1> QED
  BY <1>1, FaceStepKeeps

-----------------------------------------------------------------------------
(* The main thread.                                                        *)

\* What a change of focus or settings, a delivery and the two requests to
\* stop give the rest.
UserStep ==
    /\ pipes' = pipes /\ pt' = pt /\ ft' = ft /\ open' = open
    /\ gui' \in {"run", "stop_person", "stop_face"} /\ gui /= "gone"
    /\ queue' \in Seq(PersonSnapshots)
    /\ person' \in Persons /\ face' \in Faces
    /\ \/ person'.gen = person.gen /\ person'.settings = person.settings /\ person'.camera = person.camera
       \/ person'.gen = person.gen + 1
    /\ person'.pipeline \in {person.pipeline, Nothing}
    /\ \/ face'.gen = face.gen /\ face'.settings = face.settings /\ face'.camera = face.camera
       \/ face'.gen = face.gen + 1
    /\ face'.runtime = face.runtime /\ face'.late = face.late
    /\ person'.shown = person.shown /\ face'.shown = face.shown

LEMMA UserStepKeeps ==
  ASSUME InferenceInv, UserStep PROVE InferenceInv' /\ PersonShows /\ FaceShows
<1>1. InferenceTypes /\ person \in Persons /\ face \in Faces /\ pt \in PersonThreads /\ ft \in FaceThreads
  BY DEF InferenceInv, InferenceTypes
<1>2. InferenceTypes'
  BY DEF InferenceInv, InferenceTypes, UserStep, OrNothing
<1>3. DetectorIsOwned'
  BY DEF InferenceInv, DetectorIsOwned, UserStep
<1>4. RuntimeIsOwned'
  BY DEF InferenceInv, RuntimeIsOwned, UserStep
<1>5. PersonIsCurrent'
  BY <1>1 DEF InferenceInv, PersonIsCurrent, UserStep, Persons, PersonThreads, PipeIsOf
<1>6. FaceIsCurrent'
  BY <1>1 DEF InferenceInv, FaceIsCurrent, UserStep, Faces, FaceThreads
<1>7. PersonShows /\ FaceShows
  BY DEF PersonShows, FaceShows, UserStep
<1> QED
  BY <1>2, <1>3, <1>4, <1>5, <1>6, <1>7 DEF InferenceInv

LEMMA SetActiveCameraKeeps ==
  ASSUME InferenceInv, SetActiveCamera PROVE UserStep
<1>1. PICK c \in OrNothing(FocusCameras) : person' = FocusPerson(c) /\ face' = FocusFace(c)
  BY DEF SetActiveCamera, OrNothing
<1>2. person \in Persons /\ face \in Faces /\ queue \in Seq(PersonSnapshots)
  BY DEF InferenceInv, InferenceTypes
<1>a. PICK g \in Nat : g = person.gen + 1
  BY <1>2 DEF Persons
<1>b. PICK h \in Nat : h = face.gen + 1
  BY <1>2 DEF Faces
<1>3. PICK x \in {person.pipeline, Nothing} :
        person' = [person EXCEPT !.camera = c, !.gen = g, !.pipeline = x]
  BY <1>1, <1>a DEF FocusPerson
<1>4. /\ person' \in Persons /\ person'.gen = person.gen + 1 /\ person'.pipeline = x
      /\ person'.shown = person.shown
  BY <1>2, <1>3, <1>a DEF Persons, OrNothing
<1>c. face' = [face EXCEPT !.camera = c, !.gen = h, !.tracking = Nothing, !.snapshot = FALSE]
  BY <1>1, <1>b DEF FocusFace
<1>5. /\ face' \in Faces /\ face'.gen = face.gen + 1 /\ face'.runtime = face.runtime
      /\ face'.late = face.late /\ face'.shown = face.shown
  BY <1>2, <1>b, <1>c DEF Faces, OrNothing
<1> QED
  BY <1>2, <1>3, <1>4, <1>5 DEF SetActiveCamera, UserStep

LEMMA UpdatePersonSettingsKeeps ==
  ASSUME InferenceInv, UpdatePersonSettings PROVE UserStep
<1>1. PICK m \in Models \cup {"off"} : person' = [person EXCEPT !.settings = m, !.gen = @ + 1]
  BY DEF UpdatePersonSettings
<1>2. person \in Persons /\ face \in Faces /\ queue \in Seq(PersonSnapshots)
  BY DEF InferenceInv, InferenceTypes
<1>a. PICK g \in Nat : g = person.gen + 1
  BY <1>2 DEF Persons
<1>b. person' = [person EXCEPT !.settings = m, !.gen = g]
  BY <1>1, <1>a
<1>3. /\ person' \in Persons /\ person'.gen = person.gen + 1 /\ person'.pipeline = person.pipeline
      /\ person'.shown = person.shown
  BY <1>2, <1>a, <1>b DEF Persons
<1> QED
  BY <1>2, <1>3 DEF UpdatePersonSettings, UserStep

LEMMA UpdateFaceSettingsKeeps ==
  ASSUME InferenceInv, UpdateFaceSettings PROVE UserStep
<1>1. person \in Persons /\ face \in Faces /\ queue \in Seq(PersonSnapshots)
  BY DEF InferenceInv, InferenceTypes
<1>a. PICK h \in Nat : h = face.gen + 1
  BY <1>1 DEF Faces
<1>b. PICK on \in BOOLEAN : on = ~face.settings
  OBVIOUS
<1>c. face' = [face EXCEPT !.settings = on, !.gen = h]
  BY <1>a, <1>b DEF UpdateFaceSettings
<1>2. /\ face' \in Faces /\ face'.gen = face.gen + 1 /\ face'.runtime = face.runtime
      /\ face'.late = face.late /\ face'.shown = face.shown
  BY <1>1, <1>a, <1>c DEF Faces
<1> QED
  BY <1>1, <1>2 DEF UpdateFaceSettings, UserStep

LEMMA SetPersonSnapshotKeeps ==
  ASSUME InferenceInv, SetPersonSnapshot PROVE UserStep
<1>1. person \in Persons /\ face \in Faces /\ queue \in Seq(PersonSnapshots) /\ queue /= <<>>
  BY DEF InferenceInv, InferenceTypes, SetPersonSnapshot
<1>2. Head(queue) \in PersonSnapshots /\ Tail(queue) \in Seq(PersonSnapshots)
  BY <1>1
<1>3. Head(queue).pipeline \in OrNothing(Nat)
  BY <1>2 DEF PersonSnapshots, SnapshotsOf
<1>4. /\ face' \in Faces /\ face'.gen = face.gen /\ face'.settings = face.settings /\ face'.camera = face.camera
      /\ face'.runtime = face.runtime /\ face'.late = face.late /\ face'.shown = face.shown
  BY <1>1, <1>3 DEF SetPersonSnapshot, Faces
<1> QED
  BY <1>1, <1>2, <1>4 DEF SetPersonSnapshot, UserStep

LEMMA StopPersonKeeps ==
  ASSUME InferenceInv, StopPerson PROVE UserStep
<1>1. person \in Persons /\ face \in Faces
  BY DEF InferenceInv, InferenceTypes
<1>2. /\ person' \in Persons /\ person'.gen = person.gen /\ person'.settings = person.settings
      /\ person'.camera = person.camera /\ person'.pipeline = person.pipeline /\ person'.shown = person.shown
  BY <1>1 DEF StopPerson, Persons
<1> QED
  BY <1>1, <1>2 DEF StopPerson, UserStep

LEMMA StopFaceKeeps ==
  ASSUME InferenceInv, StopFace PROVE UserStep
<1>1. person \in Persons /\ face \in Faces /\ queue \in Seq(PersonSnapshots)
  BY DEF InferenceInv, InferenceTypes
<1>2. /\ face' \in Faces /\ face'.gen = face.gen /\ face'.settings = face.settings /\ face'.camera = face.camera
      /\ face'.runtime = face.runtime /\ face'.late = face.late /\ face'.shown = face.shown
  BY <1>1 DEF StopFace, Faces
<1> QED
  BY <1>1, <1>2 DEF StopFace, UserStep

\* stop() closes the runtime itself: a thread that has ended had closed it,
\* and one that has not is late.
LEMMA StopClosesRuntimeKeeps ==
  ASSUME InferenceInv, StopClosesRuntime PROVE FaceStep
<1>1. /\ InferenceTypes /\ RuntimeIsOwned /\ FaceIsCurrent /\ face \in Faces /\ ft \in FaceThreads
      /\ open \in Opens /\ gui = "stop_face" /\ ~face.late
  BY DEF InferenceInv, InferenceTypes, StopClosesRuntime, RuntimeIsOwned
<1>2. /\ UNCHANGED <<changes, queue, person, pt, ft>> /\ CloseRuntime /\ gui' = "gone"
      /\ face' = [face EXCEPT !.runtime = Nothing, !.pipeline = Nothing, !.late = ft.pc /= "dead"]
  BY DEF StopClosesRuntime
<1>3. PICK late \in BOOLEAN : late = (ft.pc /= "dead")
  OBVIOUS
<1>4. face' = [face EXCEPT !.runtime = Nothing, !.pipeline = Nothing, !.late = late]
  BY <1>2, <1>3
<1>5. /\ face' \in Faces /\ face'.runtime = Nothing /\ face'.late = late /\ face'.gen = face.gen
      /\ face'.settings = face.settings /\ face'.camera = face.camera /\ face'.shown = face.shown
  BY <1>1, <1>4 DEF Faces, OrNothing
<1>6. /\ pipes' \in Seq(Pipes) /\ Keeps(pipes, pipes') /\ open' \in Opens
      /\ open'.detectors = open.detectors /\ open'.runtimes = open.runtimes \ {face.runtime}
  BY <1>1, <1>2, CloseRuntimeIs
<1>7. RuntimeIsOwned'
  BY <1>1, <1>2, <1>3, <1>5, <1>6 DEF RuntimeIsOwned
<1>8. FaceIsCurrent' /\ FaceShows
  BY <1>1, <1>2, <1>5 DEF FaceIsCurrent, FaceShows
<1> QED
  BY <1>1, <1>2, <1>5, <1>6, <1>7, <1>8 DEF FaceStep

-----------------------------------------------------------------------------
LEMMA InferenceStarts == ASSUME InferenceInit PROVE InferenceInv
<1>2. /\ NoSnapshot \in PersonSnapshots /\ NoSnapshot \in SnapshotsOf(BOOLEAN)
  BY DEF NoSnapshot, PersonSnapshots, SnapshotsOf, OrNothing
<1>3. person \in Persons /\ person.gen = 0 /\ person.pipeline = Nothing
  <2> DEFINE m == CHOOSE m \in Models : TRUE
  <2>1. m \in Models
    BY InferenceAssumption
  <2>2. person = [settings |-> m, camera |-> Nothing, gen |-> 0, pipeline |-> Nothing, shown |-> NoSnapshot,
                  stop |-> FALSE]
    BY DEF InferenceInit, NewPersonController
  <2> HIDE DEF m
  <2> QED
    BY <1>2, <2>1, <2>2 DEF Persons, OrNothing
<1>4. face \in Faces /\ face.gen = 0 /\ face.runtime = Nothing /\ ~face.late
  BY <1>2 DEF InferenceInit, NewFaceController, Faces, OrNothing
<1>5. pt \in PersonThreads /\ pt.pc = "loop" /\ pt.gen = 0 /\ pt.bound = Nothing
  BY DEF InferenceInit, PersonThreads, OrNothing
<1>6. ft \in FaceThreads /\ ft.pc = "loop" /\ ft.gen = 0 /\ ft.runtime = Nothing
  BY DEF InferenceInit, FaceThreads, OrNothing, LoadedSignatures
<1>7. open \in Opens /\ open.detectors = {} /\ open.runtimes = {}
  BY DEF InferenceInit, Opens
<1>8. InferenceTypes
  BY <1>3, <1>4, <1>5, <1>6, <1>7 DEF InferenceInit, InferenceTypes, OrNothing
<1>9. DetectorIsOwned /\ RuntimeIsOwned
  BY <1>4, <1>5, <1>6, <1>7 DEF DetectorIsOwned, RuntimeIsOwned
<1>10. PersonIsCurrent /\ FaceIsCurrent
  BY <1>3, <1>4, <1>5, <1>6 DEF PersonIsCurrent, FaceIsCurrent
<1> QED
  BY <1>8, <1>9, <1>10 DEF InferenceInv

LEMMA InferenceNextKeeps ==
  ASSUME InferenceInv, InferenceNext PROVE InferenceInv' /\ PersonShows /\ FaceShows
<1>1. CASE PersonThread
  BY <1>1, PersonThreadKeeps
<1>2. CASE FaceThread
  BY <1>2, FaceThreadKeeps
<1>3. CASE StopClosesRuntime
  BY <1>3, StopClosesRuntimeKeeps, FaceStepKeeps
<1>4. CASE SetActiveCamera \/ UpdatePersonSettings \/ UpdateFaceSettings \/ SetPersonSnapshot
           \/ StopPerson \/ StopFace
  BY <1>4, UserStepKeeps, SetActiveCameraKeeps, UpdatePersonSettingsKeeps, UpdateFaceSettingsKeeps,
     SetPersonSnapshotKeeps, StopPersonKeeps, StopFaceKeeps
<1> QED
  BY <1>1, <1>2, <1>3, <1>4 DEF InferenceNext

LEMMA InferenceStutters ==
  ASSUME InferenceInv, UNCHANGED infVars PROVE InferenceInv' /\ PersonShows /\ FaceShows
<1> USE DEF infVars
<1>1. InferenceTypes'
  BY DEF InferenceInv, InferenceTypes
<1>2. DetectorIsOwned' /\ RuntimeIsOwned'
  BY DEF InferenceInv, DetectorIsOwned, RuntimeIsOwned
<1>3. PersonIsCurrent' /\ FaceIsCurrent'
  BY DEF InferenceInv, PersonIsCurrent, FaceIsCurrent, PipeIsOf
<1>4. PersonShows /\ FaceShows
  BY DEF PersonShows, FaceShows
<1> QED
  BY <1>1, <1>2, <1>3, <1>4 DEF InferenceInv

\* The inference controllers keep InferenceInv, whatever the user changes
\* while their threads load, detect and recognise.
THEOREM InferenceAgrees == InferenceSpec => []InferenceInv
<1>1. InferenceInit => InferenceInv
  BY InferenceStarts
<1>2. InferenceInv /\ [InferenceNext]_infVars => InferenceInv'
  BY InferenceNextKeeps, InferenceStutters
<1> QED
  BY <1>1, <1>2, PTL DEF InferenceSpec

\* Every loaded detector and face runtime has an owner, and a thread that has
\* ended left none loaded, unless stop() closed a runtime under it.
THEOREM ModelsAlwaysClosed == InferenceSpec => []ModelsAreClosed
<1>1. InferenceInv => ModelsAreClosed
  BY DEF InferenceInv, ModelsAreClosed, DetectorIsOwned, RuntimeIsOwned
<1> QED
  BY <1>1, InferenceAgrees, PTL

\* What either controller starts to show is about the camera and the settings
\* it has when it shows it.
THEOREM ResultsAlwaysCurrent == InferenceSpec => ResultsAreCurrent
<1> DEFINE Current ==
      /\ person'.shown /= person.shown =>
           /\ person'.shown.camera = person'.camera /\ person'.shown.model = person'.settings
           /\ person'.shown.pipeline = Nothing \/ person'.camera = Nothing
                \/ pipes'[person'.shown.pipeline].camera = person'.camera
      /\ face'.shown /= face.shown =>
           face'.shown.camera = face'.camera /\ face'.shown.model = face'.settings
<1>1. InferenceInv /\ [InferenceNext]_infVars => [Current]_infVars
  <2> SUFFICES ASSUME InferenceInv, InferenceNext PROVE Current
    OBVIOUS
  <2>1. PersonShows /\ FaceShows
    BY InferenceNextKeeps
  <2> QED
    BY <2>1 DEF PersonShows, FaceShows
<1>2. InferenceSpec => [][Current]_infVars
  BY <1>1, InferenceAgrees, PTL DEF InferenceSpec
<1> QED
  BY <1>2 DEF ResultsAreCurrent

-----------------------------------------------------------------------------
(* The configuration store.                                                *)

Pws == Passwords \cup {Missing}

Unwritten == {"secrets", "replace_secrets"}

\* The document of a save.  When it gives its camera an address, the
\* password is in the sidecar, is on its way there or is meant to change.
DocAgrees ==
    \E content \in Contents :
      /\ content.password = Missing
      /\ content.url /\ save.section \in StoreCameras =>
           save.put \/ Changes \/ Existing(save.section) = sidecar[save.section]
      /\ save.doc = [Stored EXCEPT ![save.section] = content]

\* A save that puts a password and changes none puts the camera's own.
KeepsPassword ==
    save.put /\ ~Changes =>
      /\ save.password /= Missing
      /\ save.password = Existing(save.section)
      /\ save.pc \notin Unwritten => save.password = sidecar[save.section]

SaveAgrees ==
    /\ save.section \in Sections
    /\ save.put \in BOOLEAN /\ save.given \in BOOLEAN /\ save.knows \in BOOLEAN
    /\ save.password \in Pws /\ save.old \in Pws
    /\ save.pc \in Unwritten \cup {"yaml", "replace_yaml", "rollback"}
    /\ save = [pc |-> save.pc, section |-> save.section, doc |-> save.doc, put |-> save.put,
               password |-> save.password, old |-> save.old, given |-> save.given, knows |-> save.knows]
    /\ save.put \/ Changes => save.section \in StoreCameras
    /\ save.pc \in Unwritten => save.put /\ save.old = sidecar[save.section]
    /\ save.pc = "rollback" => save.put
    /\ KeepsPassword
    /\ DocAgrees

StoreInv ==
    /\ local \in [Sections -> Contents] \cup {Missing}
    /\ sidecar \in [StoreCameras -> Pws]
    /\ cards \in [StoreCameras -> Pws] \cup {Missing}
    /\ saves \in 0 .. MaxSaves
    /\ save = Idle \/ SaveAgrees

LEMMA StoredType == ASSUME StoreInv PROVE Stored \in [Sections -> Contents]
BY StoreAssumption DEF StoreInv, Stored, Example, Contents

LEMMA ExistingType ==
    ASSUME NEW c \in StoreCameras, Stored \in [Sections -> Contents], sidecar \in [StoreCameras -> Pws]
    PROVE  Existing(c) \in Pws
BY DEF Existing, Sections, Contents, Pws

LEMMA CardSetsType ==
    ASSUME Stored \in [Sections -> Contents], sidecar \in [StoreCameras -> Pws]
    PROVE  CardSets \subseteq [StoreCameras -> Pws] \cup {Missing}
BY ExistingType DEF CardSets

\* A step that leaves the files alone leaves each camera its password.
LEMMA SameFiles ==
    ASSUME UNCHANGED <<local, sidecar>>
    PROVE  Stored' = Stored /\ \A c : Existing(c)' = Existing(c)
BY DEF Stored, Existing

LEMMA StoreStarts == StoreInit => StoreInv
<1> SUFFICES ASSUME StoreInit PROVE StoreInv
  OBVIOUS
<1>1. local \in [Sections -> Contents] \cup {Missing}
  <2>1. CASE local = Missing
    BY <2>1
  <2>2. CASE \E p \in [StoreCameras -> Passwords \cup {Missing}] :
               local = [s \in Sections |-> [rev |-> 0, url |-> s \in StoreCameras,
                                            password |-> IF s \in StoreCameras THEN p[s] ELSE Missing]]
    <3> PICK p \in [StoreCameras -> Passwords \cup {Missing}] :
               local = [s \in Sections |-> [rev |-> 0, url |-> s \in StoreCameras,
                                            password |-> IF s \in StoreCameras THEN p[s] ELSE Missing]]
      BY <2>2
    <3> DEFINE entry(s) == [rev |-> 0, url |-> s \in StoreCameras,
                            password |-> IF s \in StoreCameras THEN p[s] ELSE Missing]
    <3>1. \A s \in Sections : entry(s) \in Contents
      <4> SUFFICES ASSUME NEW s \in Sections PROVE entry(s) \in Contents
        OBVIOUS
      <4>1. 0 \in 0 .. MaxSaves
        BY StoreAssumption
      <4>2. (s \in StoreCameras) \in BOOLEAN
        OBVIOUS
      <4>3. (IF s \in StoreCameras THEN p[s] ELSE Missing) \in Passwords \cup {Missing}
        OBVIOUS
      <4> QED
        BY <4>1, <4>2, <4>3, Zenon DEF Contents
    <3>2. local = [s \in Sections |-> entry(s)]
      OBVIOUS
    <3> HIDE DEF entry
    <3> QED
      BY <3>1, <3>2
  <2> QED
    BY <2>1, <2>2 DEF StoreInit
<1>2. sidecar \in [StoreCameras -> Pws] /\ saves \in 0 .. MaxSaves /\ save = Idle
  BY StoreAssumption DEF StoreInit, Pws
<1>3. Stored \in [Sections -> Contents]
  BY <1>1, StoreAssumption DEF Stored, Example, Contents
<1>4. cards \in [StoreCameras -> Pws] \cup {Missing}
  BY <1>2, <1>3, CardSetsType DEF StoreInit
<1> QED
  BY <1>1, <1>2, <1>4 DEF StoreInv

\* What the beginning of a save establishes.
LEMMA BeginAgrees ==
    ASSUME StoreInv, save = Idle, NEW s \in Sections, NEW url \in BOOLEAN, NEW put \in BOOLEAN,
           NEW pw \in Pws, NEW old \in Pws, NEW given \in BOOLEAN, NEW knows \in BOOLEAN,
           saves < MaxSaves, saves' = saves + 1, UNCHANGED <<local, sidecar, cards>>,
           put \/ given \/ ~knows => s \in StoreCameras,
           put => old = sidecar[s],
           put /\ ~given /\ knows => pw /= Missing /\ pw = Existing(s),
           url /\ s \in StoreCameras => put \/ given \/ ~knows \/ Existing(s) = sidecar[s],
           save' = [pc |-> IF put THEN "secrets" ELSE "yaml", section |-> s,
                    doc |-> [Stored EXCEPT ![s] = [rev |-> saves + 1, url |-> url, password |-> Missing]],
                    put |-> put, password |-> pw, old |-> old, given |-> given, knows |-> knows]
    PROVE  StoreInv'
<1> DEFINE content == [rev |-> saves + 1, url |-> url, password |-> Missing]
<1>1. content \in Contents /\ saves' \in 0 .. MaxSaves
  BY StoreAssumption DEF StoreInv, Contents
<1>2. Stored' = Stored /\ Existing(s)' = Existing(s)
  BY SameFiles
<1>3. /\ save'.section = s /\ save'.put = put /\ save'.doc = [Stored EXCEPT ![s] = content]
      /\ save'.password = pw /\ save'.old = old /\ save'.given = given /\ save'.knows = knows
      /\ save'.pc = IF put THEN "secrets" ELSE "yaml"
  OBVIOUS
<1>4. Changes' = (given \/ ~knows)
  BY <1>3 DEF Changes
<1>5. Existing(save.section)' = Existing(s)
  BY <1>2, <1>3 DEF Existing
<1>6. DocAgrees'
  <2> HIDE DEF content
  <2>1. content.password = Missing /\ content.url = url
    BY DEF content
  <2> QED
    BY <1>1, <1>2, <1>3, <1>4, <1>5, <2>1 DEF DocAgrees
<1>7. KeepsPassword'
  BY <1>3, <1>4, <1>5 DEF KeepsPassword, Unwritten
<1>8. SaveAgrees'
  BY <1>3, <1>4, <1>6, <1>7 DEF SaveAgrees, Unwritten
<1> QED
  BY <1>1, <1>8 DEF StoreInv

\* Moving the pc of a save on keeps everything else.
LEMMA AdvanceAgrees ==
    ASSUME SaveAgrees, UNCHANGED <<local, sidecar>>,
           NEW pc \in {"replace_secrets", "replace_yaml", "rollback"},
           pc = "replace_secrets" <=> save.pc \in Unwritten,
           pc = "rollback" => save.put,
           save' = [save EXCEPT !.pc = pc]
    PROVE  SaveAgrees'
<1>1. /\ save'.pc = pc /\ save'.section = save.section /\ save'.put = save.put
      /\ save'.doc = save.doc /\ save'.password = save.password /\ save'.old = save.old
      /\ save'.given = save.given /\ save'.knows = save.knows
  BY DEF SaveAgrees
<1>2. Stored' = Stored /\ Existing(save.section)' = Existing(save.section)
  BY <1>1 DEF Stored, Existing
<1>3. Changes' = Changes
  BY <1>1 DEF Changes
<1>4. DocAgrees'
  BY <1>1, <1>2, <1>3 DEF SaveAgrees, DocAgrees
<1>5. save' = [pc |-> pc, section |-> save.section, doc |-> save.doc, put |-> save.put,
               password |-> save.password, old |-> save.old, given |-> save.given, knows |-> save.knows]
  BY DEF SaveAgrees
<1>6. KeepsPassword'
  BY <1>1, <1>2, <1>3 DEF SaveAgrees, KeepsPassword, Unwritten
<1> QED
  BY <1>1, <1>3, <1>4, <1>5, <1>6 DEF SaveAgrees, Unwritten

-----------------------------------------------------------------------------
LEMMA StoreNextKeeps == StoreInv /\ [StoreNext]_storeVars => StoreInv'
<1> SUFFICES ASSUME StoreInv, [StoreNext]_storeVars PROVE StoreInv'
  OBVIOUS
<1> USE DEF StoreInv
<1>a. save /= Idle => SaveAgrees
  OBVIOUS
<1>b. Stored \in [Sections -> Contents]
  BY StoredType
<1>1. ASSUME NEW c \in StoreCameras, NEW d \in Drafts, SaveCameraDraft(c, d) PROVE StoreInv'
  <2> DEFINE put == UpdatesPassword(c, d)
             pw  == DraftPassword(c, d)
             given == d.clear \/ d.typed /= Missing
             knows == EditorPassword(c) = Existing(c)
  <2>1. c \in Sections /\ d.host \in BOOLEAN /\ d.clear \in BOOLEAN /\ d.typed \in Pws /\ sidecar[c] \in Pws
    BY DEF Sections, Drafts, Pws
  <2>2. EditorPassword(c) \in Pws
    BY <2>1 DEF EditorPassword, Pws
  <2>3. pw \in Pws /\ put \in BOOLEAN /\ given \in BOOLEAN /\ knows \in BOOLEAN
    <3>1. pw \in Pws
      BY <2>1, <2>2 DEF DraftPassword, Pws
    <3>2. put \in BOOLEAN /\ given \in BOOLEAN /\ knows \in BOOLEAN
      BY DEF UpdatesPassword
    <3> QED
      BY <3>1, <3>2
  <2>4. put /\ ~given /\ knows => pw /= Missing /\ pw = Existing(c)
    BY DEF UpdatesPassword, DraftPassword
  <2>5. d.host => put \/ given \/ ~knows \/ Existing(c) = sidecar[c]
    BY DEF UpdatesPassword, DraftPassword, Existing
  <2>6. save = Idle /\ saves < MaxSaves /\ saves' = saves + 1 /\ UNCHANGED <<local, sidecar, cards>>
    BY <1>1 DEF SaveCameraDraft
  <2>7. save' = [pc |-> IF put THEN "secrets" ELSE "yaml", section |-> c,
                 doc |-> [Stored EXCEPT ![c] = [rev |-> saves + 1, url |-> d.host, password |-> Missing]],
                 put |-> put, password |-> pw, old |-> sidecar[c], given |-> given, knows |-> knows]
    BY <1>1 DEF SaveCameraDraft, Source
  <2> HIDE DEF put, pw, given, knows, StoreInv
  <2> QED
    BY <2>1, <2>3, <2>4, <2>5, <2>6, <2>7, BeginAgrees
<1>2. ASSUME NEW s \in OtherSections, SaveSection(s) PROVE StoreInv'
  <2>1. s \in Sections /\ Missing \in Pws
    BY DEF Sections, Pws
  <2>2. save = Idle /\ saves < MaxSaves /\ saves' = saves + 1 /\ UNCHANGED <<local, sidecar, cards>>
    BY <1>2 DEF SaveSection
  <2>3. save' = [pc |-> "yaml", section |-> s,
                 doc |-> [Stored EXCEPT ![s] = [rev |-> saves + 1, url |-> FALSE, password |-> Missing]],
                 put |-> FALSE, password |-> Missing, old |-> Missing, given |-> FALSE, knows |-> TRUE]
    BY <1>2 DEF SaveSection, Source, Idle
  <2>4. save' = [pc |-> IF FALSE THEN "secrets" ELSE "yaml", section |-> s,
                 doc |-> [Stored EXCEPT ![s] = [rev |-> saves + 1, url |-> FALSE, password |-> Missing]],
                 put |-> FALSE, password |-> Missing, old |-> Missing, given |-> FALSE, knows |-> TRUE]
    BY <2>3
  <2> HIDE DEF StoreInv
  <2> QED
    BY <2>1, <2>2, <2>4, BeginAgrees
<1>3. CASE WriteSecrets
  <2>1. SaveAgrees /\ save.pc = "secrets" /\ UNCHANGED <<local, sidecar, cards, saves>>
    BY <1>3, <1>a DEF WriteSecrets, Idle
  <2>2. CASE save' = Idle
    BY <2>1, <2>2
  <2>3. CASE save' = [save EXCEPT !.pc = "replace_secrets"]
    BY <2>1, <2>3, AdvanceAgrees DEF Unwritten
  <2> QED
    BY <1>3, <2>2, <2>3 DEF WriteSecrets
<1>4. CASE ReplaceSecrets
  <2>1. SaveAgrees /\ save.pc = "replace_secrets" /\ UNCHANGED <<local, cards, saves>>
    BY <1>4, <1>a DEF ReplaceSecrets, Idle
  <2>2. save.section \in StoreCameras /\ save.password \in Pws
    BY <2>1 DEF SaveAgrees, Unwritten
  <2>3. CASE save' = Idle /\ UNCHANGED sidecar
    BY <2>1, <2>3
  <2>4. CASE /\ sidecar' = [sidecar EXCEPT ![save.section] = save.password]
             /\ save' = [save EXCEPT !.pc = "yaml"]
    <3>1. sidecar' \in [StoreCameras -> Pws]
      BY <2>2, <2>4
    <3>2. save' = [pc |-> "yaml", section |-> save.section, doc |-> save.doc, put |-> save.put,
                   password |-> save.password, old |-> save.old, given |-> save.given, knows |-> save.knows]
      BY <2>1, <2>4 DEF SaveAgrees
    <3>3. /\ save'.pc = "yaml" /\ save'.section = save.section /\ save'.put = save.put
          /\ save'.doc = save.doc /\ save'.password = save.password /\ save'.old = save.old
          /\ save'.given = save.given /\ save'.knows = save.knows
      BY <3>2
    <3>4. Changes' = Changes /\ save.put
      BY <2>1, <3>3 DEF Changes, SaveAgrees, Unwritten
    <3>5. DocAgrees'
      BY <2>1, <3>3, <3>4 DEF SaveAgrees, DocAgrees, Stored
    <3>6. KeepsPassword'
      <4>1. sidecar'[save.section] = save.password
        BY <2>2, <2>4
      <4> QED
        BY <2>1, <3>3, <3>4, <4>1 DEF SaveAgrees, KeepsPassword, Existing, Unwritten
    <3>7. SaveAgrees'
      BY <2>1, <3>2, <3>3, <3>4, <3>5, <3>6 DEF SaveAgrees, Unwritten
    <3> QED
      BY <2>1, <3>1, <3>7
  <2> QED
    BY <1>4, <2>3, <2>4 DEF ReplaceSecrets
<1>5. CASE WriteYaml
  <2>1. SaveAgrees /\ save.pc = "yaml" /\ UNCHANGED <<local, sidecar, cards, saves>>
    BY <1>5, <1>a DEF WriteYaml, Idle
  <2>2. CASE save' = Idle
    BY <2>1, <2>2
  <2>3. CASE save' = [save EXCEPT !.pc = "replace_yaml"]
    BY <2>1, <2>3, AdvanceAgrees DEF Unwritten
  <2>4. CASE save.put /\ save' = [save EXCEPT !.pc = "rollback"]
    BY <2>1, <2>4, AdvanceAgrees DEF Unwritten
  <2> QED
    BY <1>5, <2>2, <2>3, <2>4 DEF WriteYaml, Fail
<1>6. CASE ReplaceYaml
  <2>1. SaveAgrees /\ save.pc = "replace_yaml" /\ UNCHANGED <<sidecar, cards, saves>>
    BY <1>6, <1>a DEF ReplaceYaml, Idle
  <2>2. save.doc \in [Sections -> Contents]
    BY <1>b, <2>1 DEF SaveAgrees, DocAgrees
  <2>3. CASE local' = save.doc /\ save' = Idle
    BY <2>1, <2>2, <2>3
  <2>4. CASE save' = Idle /\ UNCHANGED local
    BY <2>1, <2>4
  <2>5. CASE save.put /\ save' = [save EXCEPT !.pc = "rollback"] /\ UNCHANGED local
    BY <2>1, <2>5, AdvanceAgrees DEF Unwritten
  <2> QED
    BY <1>6, <2>3, <2>4, <2>5 DEF ReplaceYaml, Fail
<1>7. CASE Rollback
  <2>1. SaveAgrees /\ save' = Idle /\ UNCHANGED <<local, cards, saves>> /\ save.put
    BY <1>7, <1>a DEF Rollback, Idle, SaveAgrees
  <2>2. save.section \in StoreCameras /\ save.old \in Pws
    BY <2>1 DEF SaveAgrees
  <2>3. sidecar' \in [StoreCameras -> Pws]
    BY <1>7, <2>2 DEF Rollback
  <2> QED
    BY <2>1, <2>3
<1>8. CASE Interrupted
  <2>1. save' = Idle /\ cards' \in CardSets /\ UNCHANGED <<local, sidecar, saves>>
    BY <1>8 DEF Interrupted
  <2> QED
    BY <1>b, <2>1, CardSetsType
<1>9. CASE SetInitialDraft \/ UNCHANGED storeVars
  <2>1. UNCHANGED <<local, sidecar, save, saves>>
    BY <1>9 DEF SetInitialDraft, storeVars
  <2>2. SaveAgrees' <=> SaveAgrees
    BY <2>1 DEF SaveAgrees, KeepsPassword, DocAgrees, Stored, Existing, Changes
  <2>3. cards' \in [StoreCameras -> Pws] \cup {Missing}
    <3>1. CASE SetInitialDraft
      <4> PICK c \in StoreCameras : cards' = [cards EXCEPT ![c] = Existing(c)]
        BY <3>1 DEF SetInitialDraft
      <4>1. Existing(c) \in Pws /\ cards \in [StoreCameras -> Pws]
        BY <1>b, <3>1, ExistingType DEF SetInitialDraft
      <4> QED
        BY <4>1
    <3> QED
      BY <1>9, <3>1 DEF storeVars
  <2> QED
    BY <2>1, <2>2, <2>3
<1> QED
  BY <1>1, <1>2, <1>3, <1>4, <1>5, <1>6, <1>7, <1>8, <1>9
     DEF StoreNext, SavePersonDetection, SaveFaceAnalysis, SaveFaceGalleryRoot,
         MigratePersonDetection, OtherSections

-----------------------------------------------------------------------------
\* The refinement, step by step: HalfWay is the promise's unfinished save.
Underway == IF HalfWay THEN [camera |-> save.section, old |-> save.old, changes |-> Changes] ELSE Missing

LEMMA UnderwayFacts ==
    ASSUME StoreInv
    PROVE  /\ HalfWay => /\ save /= Idle /\ SaveAgrees /\ Underway /= Missing
                         /\ Underway.camera = save.section /\ Underway.old = save.old
                         /\ Underway.changes = Changes
           /\ ~HalfWay => Underway = Missing
<1>1. ASSUME HalfWay PROVE /\ save /= Idle /\ SaveAgrees /\ Underway /= Missing
                           /\ Underway.camera = save.section /\ Underway.old = save.old
                           /\ Underway.changes = Changes
  <2>1. save /= Idle /\ SaveAgrees
    BY <1>1 DEF HalfWay, Idle, StoreInv
  <2>2. save.section \in StoreCameras /\ save.old \in Passwords \cup {Missing} /\ Changes \in BOOLEAN
    BY <1>1, <2>1 DEF HalfWay, SaveAgrees, Pws, Changes
  <2>3. [camera |-> save.section, old |-> save.old, changes |-> Changes] /= Missing
    BY <2>2, MissingAssumption
  <2> QED
    BY <1>1, <2>1, <2>3 DEF Underway
<1> QED
  BY <1>1 DEF Underway

LEMMA IdleIsOver == ASSUME save' = Idle PROVE Underway' = Missing
BY DEF Underway, HalfWay, Idle

\* What the promise calls a camera's password is what the store does.
LEMMA PasswordIsExisting ==
    ASSUME NEW s PROVE Promise!PasswordOf(s) = Existing(s)
BY DEF Promise!PasswordOf, Existing

LEMMA StepRefines ==
    StoreInv /\ [StoreNext]_storeVars => [Promise!PromiseNext]_<<Stored, sidecar, Underway>>
<1> SUFFICES ASSUME StoreInv, [StoreNext]_storeVars
             PROVE  [Promise!PromiseNext]_<<Stored, sidecar, Underway>>
  OBVIOUS
<1> DEFINE Stutter == UNCHANGED <<Stored, sidecar, Underway>>
<1>a. UNCHANGED local => UNCHANGED Stored
  BY DEF Stored
<1>b. save = Idle => Underway = Missing
  BY DEF Underway, HalfWay, Idle
<1>c. ASSUME save' = Idle, UNCHANGED <<local, sidecar>> PROVE Promise!GiveUp \/ Stutter
  <2>1. Underway' = Missing
    BY <1>c, IdleIsOver
  <2> QED
    BY <1>a, <1>c, <2>1 DEF Promise!GiveUp, Underway
<1>1. ASSUME NEW c \in StoreCameras, NEW d \in Drafts, SaveCameraDraft(c, d)
      PROVE  Stutter \/ Promise!PutPassword(c)
  <2>1. save = Idle /\ UNCHANGED <<local, sidecar>>
    BY <1>1 DEF SaveCameraDraft
  <2>2. /\ save'.put = UpdatesPassword(c, d) /\ save'.pc = IF UpdatesPassword(c, d) THEN "secrets" ELSE "yaml"
        /\ save'.section = c /\ save'.old = sidecar[c]
    BY <1>1 DEF SaveCameraDraft
  <2>3. CASE save'.put \/ ~Changes'
    BY <1>a, <1>b, <2>1, <2>2, <2>3 DEF Underway, HalfWay
  <2>4. CASE ~save'.put /\ Changes'
    <3>1. Underway' = [camera |-> c, old |-> sidecar[c], changes |-> TRUE]
      <4>1. HalfWay' /\ Changes' = TRUE
        BY <2>2, <2>4 DEF HalfWay, Changes
      <4> QED
        BY <2>2, <4>1 DEF Underway
    <3>2. sidecar' = [sidecar EXCEPT ![c] = sidecar[c]] /\ sidecar[c] \in Passwords \cup {Missing}
      BY <2>1 DEF StoreInv, Pws
    <3> QED
      BY <1>a, <1>b, <2>1, <3>1, <3>2 DEF Promise!PutPassword, Underway
  <2> QED
    BY <2>3, <2>4
<1>2. ASSUME NEW s \in OtherSections, SaveSection(s) PROVE Stutter
  <2>1. save = Idle /\ UNCHANGED <<local, sidecar>> /\ save'.put = FALSE /\ ~Changes'
    BY <1>2 DEF SaveSection, Idle, Changes
  <2>2. Underway' = Missing
    BY <2>1 DEF Underway, HalfWay
  <2> QED
    BY <1>a, <1>b, <2>1, <2>2
<1>3. CASE WriteSecrets
  <2>1. save.pc = "secrets" /\ UNCHANGED <<local, sidecar>> /\ SaveAgrees
    BY <1>3 DEF WriteSecrets, StoreInv, Idle
  <2>2. Underway = Missing
    BY <2>1 DEF Underway, HalfWay
  <2>3. save' = [save EXCEPT !.pc = "replace_secrets"] => save'.pc = "replace_secrets"
    BY <2>1 DEF SaveAgrees
  <2>4. Underway' = Missing
    BY <1>3, <2>3, IdleIsOver DEF WriteSecrets, Underway, HalfWay
  <2>5. Stutter
    BY <1>a, <2>1, <2>2, <2>4
  <2> QED
    BY <2>5
<1>4. CASE ReplaceSecrets
  <2>1. save.pc = "replace_secrets" /\ UNCHANGED <<local, saves>> /\ SaveAgrees
    BY <1>4 DEF ReplaceSecrets, StoreInv, Idle
  <2>2. CASE save' = Idle /\ UNCHANGED sidecar
    BY <1>c, <2>1, <2>2 DEF Promise!PromiseNext
  <2>3. CASE /\ sidecar' = [sidecar EXCEPT ![save.section] = save.password]
             /\ save' = [save EXCEPT !.pc = "yaml"]
    <3>1. save.put /\ save.old = sidecar[save.section] /\ save.section \in StoreCameras /\ save.password \in Pws
      BY <2>1 DEF SaveAgrees, Unwritten
    <3>2. /\ save'.pc = "yaml" /\ save'.put = save.put /\ save'.section = save.section /\ save'.old = save.old
          /\ Changes' = Changes
      BY <2>1, <2>3 DEF SaveAgrees, Changes
    <3>3. Underway = Missing
      BY <2>1 DEF Underway, HalfWay
    <3>4. Underway' = [camera |-> save.section, old |-> sidecar[save.section], changes |-> Changes]
      BY <3>1, <3>2 DEF Underway, HalfWay
    <3>5. Changes \in BOOLEAN /\ (Changes \/ save.password = Promise!PasswordOf(save.section))
      BY <2>1, <3>1, PasswordIsExisting DEF SaveAgrees, KeepsPassword, Changes
    <3> DEFINE differs == Changes
    <3>6. /\ differs \in BOOLEAN /\ (differs \/ save.password = Promise!PasswordOf(save.section))
          /\ Underway' = [camera |-> save.section, old |-> sidecar[save.section], changes |-> differs]
      BY <3>4, <3>5
    <3> HIDE DEF differs
    <3>7. Promise!PutPassword(save.section)
      BY <1>a, <2>1, <2>3, <3>1, <3>3, <3>6 DEF Promise!PutPassword, Underway, Pws
    <3> QED
      BY <3>1, <3>7 DEF Promise!PromiseNext
  <2> QED
    BY <1>4, <2>2, <2>3 DEF ReplaceSecrets
<1>5. CASE WriteYaml
  <2>1. save.pc = "yaml" /\ UNCHANGED <<local, sidecar>> /\ SaveAgrees
    BY <1>5 DEF WriteYaml, StoreInv, Idle
  <2>2. CASE save' = Idle
    BY <1>c, <2>1, <2>2 DEF Promise!PromiseNext
  <2>3. ASSUME NEW pc \in {"replace_yaml", "rollback"}, save' = [save EXCEPT !.pc = pc] PROVE Stutter
    <3>1. /\ save'.pc = pc /\ save'.put = save.put /\ save'.section = save.section /\ save'.old = save.old
          /\ Changes' = Changes
      BY <2>1, <2>3 DEF SaveAgrees, Changes
    <3>2. HalfWay' <=> HalfWay
      BY <2>1, <3>1 DEF HalfWay
    <3>3. Underway' = Underway
      BY <3>1, <3>2 DEF Underway
    <3> QED
      BY <1>a, <2>1, <3>3
  <2> QED
    BY <1>5, <2>2, <2>3 DEF WriteYaml, Fail
<1>6. CASE ReplaceYaml
  <2>1. save.pc = "replace_yaml" /\ UNCHANGED sidecar /\ SaveAgrees
    BY <1>6 DEF ReplaceYaml, StoreInv, Idle
  <2>2. CASE local' = save.doc /\ save' = Idle
    <3>1. PICK content \in Contents :
            /\ content.password = Missing
            /\ content.url /\ save.section \in StoreCameras =>
                 save.put \/ Changes \/ Existing(save.section) = sidecar[save.section]
            /\ save.doc = [Stored EXCEPT ![save.section] = content]
      BY <2>1 DEF SaveAgrees, DocAgrees
    <3>2. save.doc \in [Sections -> Contents]
      BY <3>1, StoredType
    <3>3. Stored' = [Stored EXCEPT ![save.section] = content]
      BY <2>2, <3>1, <3>2, MissingAssumption DEF Stored
    <3>4. Underway' = Missing
      BY <2>2, IdleIsOver
    <3>5. HalfWay <=> save.put \/ Changes
      BY <2>1 DEF HalfWay
    <3>6. /\ HalfWay => Underway /= Missing /\ Underway.camera = save.section /\ Underway.changes = Changes
          /\ ~HalfWay => Underway = Missing
      BY UnderwayFacts
    <3>7. content.url /\ save.section \in StoreCameras =>
            \/ Promise!PasswordOf(save.section) = sidecar[save.section]
            \/ Underway /= Missing /\ Underway.changes
      <4>1. save.put /\ ~Changes => Existing(save.section) = sidecar[save.section]
        BY <2>1 DEF SaveAgrees, KeepsPassword, Unwritten
      <4> QED
        BY <3>1, <3>5, <3>6, <4>1, PasswordIsExisting
    <3>8. Promise!ReplaceSection(save.section)
      BY <2>1, <3>1, <3>3, <3>4, <3>5, <3>6, <3>7 DEF Promise!ReplaceSection, Underway
    <3> QED
      BY <2>1, <3>8 DEF Promise!PromiseNext, SaveAgrees
  <2>3. CASE save' = Idle /\ UNCHANGED local
    BY <1>c, <2>1, <2>3 DEF Promise!PromiseNext
  <2>4. CASE save' = [save EXCEPT !.pc = "rollback"] /\ UNCHANGED local
    <3>1. /\ save'.pc = "rollback" /\ save'.put = save.put /\ save'.section = save.section /\ save'.old = save.old
          /\ Changes' = Changes
      BY <2>1, <2>4 DEF SaveAgrees, Changes
    <3>2. Underway' = Underway
      BY <2>1, <3>1 DEF Underway, HalfWay
    <3>3. Stutter
      BY <1>a, <2>1, <2>4, <3>2
    <3> QED
      BY <3>3
  <2> QED
    BY <1>6, <2>2, <2>3, <2>4 DEF ReplaceYaml, Fail
<1>7. CASE Rollback
  <2>1. save.pc = "rollback" /\ UNCHANGED local /\ save' = Idle /\ SaveAgrees
    BY <1>7 DEF Rollback, StoreInv, Idle
  <2>2. HalfWay /\ Underway' = Missing
    BY <2>1, IdleIsOver DEF HalfWay, SaveAgrees
  <2>3. Underway /= Missing /\ Underway.camera = save.section /\ Underway.old = save.old
    BY <2>2, UnderwayFacts
  <2>4. CASE sidecar' = [sidecar EXCEPT ![save.section] = save.old]
    BY <1>a, <2>1, <2>2, <2>3, <2>4 DEF Promise!PromiseNext, Promise!TakeBack, Underway
  <2>5. CASE UNCHANGED sidecar
    BY <1>c, <2>1, <2>5 DEF Promise!PromiseNext
  <2> QED
    BY <1>7, <2>4, <2>5 DEF Rollback
<1>8. CASE Interrupted
  BY <1>c, <1>8 DEF Interrupted, Promise!PromiseNext
<1>9. CASE SetInitialDraft \/ UNCHANGED storeVars
  <2>1. UNCHANGED <<Stored, sidecar, Underway>>
    BY <1>9 DEF SetInitialDraft, storeVars, Stored, Underway, HalfWay, Changes
  <2> QED
    BY <2>1
<1> QED
  BY <1>1, <1>2, <1>3, <1>4, <1>5, <1>6, <1>7, <1>8, <1>9
     DEF StoreNext, SavePersonDetection, SaveFaceAnalysis, SaveFaceGalleryRoot,
         MigratePersonDetection, OtherSections, Promise!PromiseNext

\* The store keeps its promise: every behaviour of the two files, with every
\* failure and interruption, is one that StorePromise allows.
THEOREM StoreImplementsPromise == StoreSpec => StoreKeepsPromise
<1>1. StoreInit => Promise!PromiseInit
  BY DEF StoreInit, Promise!PromiseInit, HalfWay, Idle, Changes
<1>2. StoreInv /\ [StoreNext]_storeVars => [Promise!PromiseNext]_Promise!promiseVars
  BY StepRefines DEF Underway, Promise!promiseVars
<1> QED
  BY <1>1, <1>2, StoreStarts, StoreNextKeeps, PTL DEF StoreSpec, StoreKeepsPromise, Promise!PromiseSpec

LEMMA StoreInvTyped == StoreInv => StoreTypeOK
BY DEF StoreInv, StoreTypeOK, SaveAgrees, Idle, Unwritten, Pws

-----------------------------------------------------------------------------
(* How many pipelines are made.                                            *)

Has(ps, i, c) == i /= Nothing /\ ps[i].camera = c

\* The pipelines that will still be made without another change by the user,
\* with pipeline i of ps, the camera now, and the one the thread works for.
Needed(ps, i, now, c) ==
    IF c /= Nothing /\ ~Has(ps, i, c) THEN IF now \in {c, Nothing} THEN 1 ELSE 2
    ELSE IF now /= Nothing /\ ~Has(ps, i, now) THEN 1 ELSE 0

PipesBounded ==
    /\ changes \in Nat
    /\ Len(queue) <= MaxQueued
    /\ \A n \in DOMAIN queue : queue[n].pipeline \in OrNothing(DOMAIN pipes)
    /\ {face.pipeline, face.tracking, ft.tracking} \subseteq OrNothing(DOMAIN pipes)
    /\ \A p \in DOMAIN pipes : pipes[p].camera \in FocusCameras
    /\ pt.pc \in {"frame", "update", "publish"} => pt.camera /= Nothing
    /\ Len(pipes) + Needed(pipes, person.pipeline, person.camera, pt.camera) <= 2 * changes

\* The same pipelines, of the same cameras.
SamePipes(ps, qs) ==
    DOMAIN qs = DOMAIN ps /\ Len(qs) = Len(ps) /\ \A i \in DOMAIN ps : qs[i].camera = ps[i].camera

\* A step of the person thread makes a pipeline for its camera or none.
PersonMoves ==
    /\ UNCHANGED <<changes, gui, face, ft>>
    /\ person'.camera = person.camera
    /\ \/ /\ SamePipes(pipes, pipes') /\ person'.pipeline = person.pipeline
          /\ pt'.camera \in {pt.camera, person.camera, Nothing}
       \/ /\ pt.camera /= Nothing /\ pt'.camera \in {pt.camera, Nothing}
          /\ SamePipes(PipesFor(pt.camera), pipes') /\ person'.pipeline = TrackingFor(pt.camera)
    /\ \/ queue' = queue
       \/ CanEmitSnapshot /\ \E i \in OrNothing(DOMAIN pipes') : queue' = Emitted(BaseSnapshot(i))
    /\ pt'.pc \in {"frame", "update", "publish"} => pt'.camera /= Nothing

\* A step of the face thread makes none.
FaceMoves ==
    /\ UNCHANGED <<changes, queue, person, pt>>
    /\ SamePipes(pipes, pipes')
    /\ face'.tracking = face.tracking
    /\ face'.pipeline \in {face.pipeline, ft.tracking, Nothing}
    /\ ft'.tracking \in {ft.tracking, face.tracking, Nothing}

LEMMA NeededIs ==
  ASSUME NEW ps, NEW i, NEW now, NEW c PROVE Needed(ps, i, now, c) \in 0 .. 2
BY DEF Needed

LEMMA NeededSame ==
  ASSUME NEW ps, NEW qs, NEW i, i \in OrNothing(DOMAIN ps), SamePipes(ps, qs), NEW now, NEW c
  PROVE  Needed(qs, i, now, c) = Needed(ps, i, now, c)
<1>1. i /= Nothing => qs[i].camera = ps[i].camera
  BY DEF SamePipes, OrNothing
<1>2. \A x : Has(qs, i, x) <=> Has(ps, i, x)
  BY <1>1 DEF Has
<1> QED
  BY <1>2 DEF Needed

LEMMA NeededLess ==
  ASSUME NEW ps, NEW i, NEW now, NEW c, NEW d \in {c, now, Nothing}
  PROVE  Needed(ps, i, now, d) <= Needed(ps, i, now, c)
BY DEF Needed

LEMMA PipesForIs ==
  ASSUME InferenceTypes, pt.camera /= Nothing
  PROVE  /\ Len(pipes) \in Nat
         /\ \/ PipesFor(pt.camera) = pipes /\ TrackingFor(pt.camera) = person.pipeline
               /\ Has(pipes, person.pipeline, pt.camera)
            \/ /\ ~Has(pipes, person.pipeline, pt.camera)
               /\ Len(PipesFor(pt.camera)) = Len(pipes) + 1 /\ TrackingFor(pt.camera) = Len(pipes) + 1
               /\ DOMAIN PipesFor(pt.camera) = DOMAIN pipes \cup {Len(pipes) + 1}
               /\ \A i \in DOMAIN pipes : PipesFor(pt.camera)[i] = pipes[i]
               /\ PipesFor(pt.camera)[Len(pipes) + 1].camera = pt.camera
<1> DEFINE new == [camera |-> pt.camera, latest |-> FALSE, confirmer |-> Nothing]
<1>1. pipes \in Seq(Pipes) /\ Len(pipes) \in Nat /\ DOMAIN pipes = 1 .. Len(pipes)
  BY DEF InferenceTypes
<1>2. CASE HasPipeline(pt.camera)
  BY <1>1, <1>2 DEF HasPipeline, Has, PipesFor, TrackingFor
<1>3. CASE ~HasPipeline(pt.camera)
  <2>1. PipesFor(pt.camera) = Append(pipes, new) /\ TrackingFor(pt.camera) = Len(pipes) + 1
    BY <1>3 DEF PipesFor, TrackingFor
  <2>2. new.camera = pt.camera
    OBVIOUS
  <2> HIDE DEF new
  <2>3. /\ DOMAIN Append(pipes, new) = 1 .. Len(pipes) + 1 /\ Len(Append(pipes, new)) = Len(pipes) + 1
        /\ \A i \in 1 .. Len(pipes) : Append(pipes, new)[i] = pipes[i]
        /\ Append(pipes, new)[Len(pipes) + 1] = new
    BY <1>1
  <2>4. 1 .. Len(pipes) + 1 = DOMAIN pipes \cup {Len(pipes) + 1}
    BY <1>1
  <2>5. ~Has(pipes, person.pipeline, pt.camera)
    BY <1>3 DEF Has, HasPipeline
  <2> QED
    BY <1>1, <2>1, <2>2, <2>3, <2>4, <2>5
<1> QED
  BY <1>2, <1>3

\* A pipeline that is made was needed.
LEMMA MadeIsNeeded ==
  ASSUME InferenceInv, PipesBounded, pt.camera /= Nothing, NEW qs, SamePipes(PipesFor(pt.camera), qs),
         NEW c \in {pt.camera, Nothing}
  PROVE  /\ Len(qs) + Needed(qs, TrackingFor(pt.camera), person.camera, c) <= 2 * changes
         /\ DOMAIN pipes \subseteq DOMAIN qs
         /\ \A p \in DOMAIN qs : qs[p].camera \in FocusCameras
<1>1. InferenceTypes /\ person.pipeline \in OrNothing(DOMAIN pipes)
  BY DEF InferenceInv, InferenceTypes
<1>2. pt.camera \in FocusCameras /\ Nothing \notin FocusCameras
  BY <1>1, InferenceAssumption DEF InferenceTypes, PersonThreads, OrNothing
<1>3. /\ changes \in Nat
      /\ Len(pipes) + Needed(pipes, person.pipeline, person.camera, pt.camera) <= 2 * changes
      /\ \A p \in DOMAIN pipes : pipes[p].camera \in FocusCameras
  BY DEF PipesBounded
<1>4. \A x : Needed(pipes, person.pipeline, person.camera, x) \in 0 .. 2
  BY NeededIs
<1>5. CASE PipesFor(pt.camera) = pipes /\ TrackingFor(pt.camera) = person.pipeline
  <2>1. Needed(qs, person.pipeline, person.camera, c) = Needed(pipes, person.pipeline, person.camera, c)
    BY <1>1, <1>5, NeededSame
  <2>2. Needed(pipes, person.pipeline, person.camera, c) <= Needed(pipes, person.pipeline, person.camera, pt.camera)
    BY NeededLess
  <2>3. Len(qs) = Len(pipes) /\ DOMAIN qs = DOMAIN pipes /\ \A p \in DOMAIN qs : qs[p].camera = pipes[p].camera
    BY <1>5 DEF SamePipes
  <2>4. Len(pipes) \in Nat
    BY <1>1, PipesForIs
  <2>5. Len(qs) + Needed(qs, person.pipeline, person.camera, c) <= 2 * changes
    BY <1>3, <1>4, <2>1, <2>2, <2>3, <2>4
  <2> QED
    BY <1>3, <1>5, <2>3, <2>5
<1>6. CASE /\ ~Has(pipes, person.pipeline, pt.camera)
           /\ Len(PipesFor(pt.camera)) = Len(pipes) + 1 /\ TrackingFor(pt.camera) = Len(pipes) + 1
           /\ DOMAIN PipesFor(pt.camera) = DOMAIN pipes \cup {Len(pipes) + 1}
           /\ \A i \in DOMAIN pipes : PipesFor(pt.camera)[i] = pipes[i]
           /\ PipesFor(pt.camera)[Len(pipes) + 1].camera = pt.camera
  <2> DEFINE n == Len(pipes) + 1
  <2>1. Len(pipes) \in Nat /\ n \in Nat /\ n /= Nothing
    BY <1>1, PipesForIs, InferenceAssumption
  <2>2. /\ Len(qs) = n /\ DOMAIN qs = DOMAIN pipes \cup {n} /\ qs[n].camera = pt.camera
        /\ \A p \in DOMAIN pipes : qs[p].camera = pipes[p].camera
    BY <1>6 DEF SamePipes
  <2>3. TrackingFor(pt.camera) = n
    BY <1>6
  <2> HIDE DEF n
  <2>4. Has(qs, n, pt.camera) /\ \A x : Has(qs, n, x) => x = pt.camera
    BY <2>1, <2>2 DEF Has
  <2>5. Needed(qs, n, person.camera, c) = IF person.camera \in {pt.camera, Nothing} THEN 0 ELSE 1
    BY <2>4 DEF Needed
  <2>6. Needed(pipes, person.pipeline, person.camera, pt.camera) = IF person.camera \in {pt.camera, Nothing} THEN 1 ELSE 2
    BY <1>6 DEF Needed
  <2>7. n + Needed(qs, n, person.camera, c) <= 2 * changes
    BY <1>3, <2>1, <2>5, <2>6 DEF n
  <2> QED
    BY <1>2, <1>3, <2>2, <2>3, <2>7
<1> QED
  BY <1>1, <1>5, <1>6, PipesForIs

LEMMA EmittedIs ==
  ASSUME InferenceInv, PipesBounded, CanEmitSnapshot, NEW S, NEW i \in OrNothing(S), DOMAIN pipes \subseteq S
  PROVE  /\ Len(Emitted(BaseSnapshot(i))) <= MaxQueued
         /\ \A n \in DOMAIN Emitted(BaseSnapshot(i)) : Emitted(BaseSnapshot(i))[n].pipeline \in OrNothing(S)
<1> DEFINE s == BaseSnapshot(i)
<1>1. queue \in Seq(PersonSnapshots) /\ Len(queue) \in Nat /\ MaxQueued \in Nat
  BY InferenceAssumption DEF InferenceInv, InferenceTypes
<1>2. s.pipeline = i
  BY DEF BaseSnapshot
<1>3. \A n \in DOMAIN queue : queue[n].pipeline \in OrNothing(S)
  BY DEF PipesBounded, OrNothing
<1> HIDE DEF s
<1>4. CASE gui = "run"
  <2>1. Len(queue) < MaxQueued /\ Emitted(s) = Append(queue, s)
    BY <1>4 DEF CanEmitSnapshot, Emitted
  <2>2. /\ Len(Append(queue, s)) = Len(queue) + 1 /\ DOMAIN Append(queue, s) = 1 .. Len(queue) + 1
        /\ Append(queue, s)[Len(queue) + 1] = s /\ DOMAIN queue = 1 .. Len(queue)
        /\ \A n \in 1 .. Len(queue) : Append(queue, s)[n] = queue[n]
    BY <1>1
  <2>3. \A n \in 1 .. Len(queue) + 1 : n \in 1 .. Len(queue) \/ n = Len(queue) + 1
    BY <1>1
  <2>4. Len(Append(queue, s)) <= MaxQueued
    BY <1>1, <2>1, <2>2
  <2> QED
    BY <1>2, <1>3, <2>1, <2>2, <2>3, <2>4 DEF s
<1>5. CASE gui /= "run"
  <2>1. Emitted(s) = <<>>
    BY <1>5 DEF Emitted
  <2>2. Len(Emitted(s)) = 0 /\ DOMAIN Emitted(s) = {}
    BY <2>1
  <2> QED
    BY <1>1, <2>2 DEF s
<1> QED
  BY <1>4, <1>5

LEMMA PersonMovesBounded ==
  ASSUME InferenceInv, PipesBounded, PersonMoves PROVE PipesBounded'
<1>1. /\ changes' = changes /\ gui' = gui /\ face' = face /\ ft' = ft /\ person'.camera = person.camera
      /\ pt'.pc \in {"frame", "update", "publish"} => pt'.camera /= Nothing
  BY DEF PersonMoves
<1>2. InferenceTypes /\ person.pipeline \in OrNothing(DOMAIN pipes) /\ Len(pipes) \in Nat
  BY DEF InferenceInv, InferenceTypes
<1>3. /\ Len(pipes') + Needed(pipes', person'.pipeline, person'.camera, pt'.camera) <= 2 * changes
      /\ DOMAIN pipes \subseteq DOMAIN pipes'
      /\ \A p \in DOMAIN pipes' : pipes'[p].camera \in FocusCameras
  <2>1. CASE /\ SamePipes(pipes, pipes') /\ person'.pipeline = person.pipeline
             /\ pt'.camera \in {pt.camera, person.camera, Nothing}
    <3>1. Needed(pipes', person.pipeline, person.camera, pt'.camera)
            = Needed(pipes, person.pipeline, person.camera, pt'.camera)
      BY <1>2, <2>1, NeededSame
    <3>2. Needed(pipes, person.pipeline, person.camera, pt'.camera)
            <= Needed(pipes, person.pipeline, person.camera, pt.camera)
      BY <2>1, NeededLess
    <3>3. \A x : Needed(pipes, person.pipeline, person.camera, x) \in 0 .. 2
      BY NeededIs
    <3>4. Len(pipes') = Len(pipes) /\ DOMAIN pipes' = DOMAIN pipes
          /\ \A p \in DOMAIN pipes : pipes'[p].camera = pipes[p].camera
      BY <2>1 DEF SamePipes
    <3>5. /\ changes \in Nat
          /\ Len(pipes) + Needed(pipes, person.pipeline, person.camera, pt.camera) <= 2 * changes
          /\ \A p \in DOMAIN pipes : pipes[p].camera \in FocusCameras
      BY DEF PipesBounded
    <3>6. Len(pipes') + Needed(pipes', person'.pipeline, person'.camera, pt'.camera) <= 2 * changes
      BY <1>1, <1>2, <2>1, <3>1, <3>2, <3>3, <3>4, <3>5
    <3> QED
      BY <3>4, <3>5, <3>6
  <2>2. CASE /\ pt.camera /= Nothing /\ pt'.camera \in {pt.camera, Nothing}
             /\ SamePipes(PipesFor(pt.camera), pipes') /\ person'.pipeline = TrackingFor(pt.camera)
    BY <1>1, <2>2, MadeIsNeeded
  <2> QED
    BY <2>1, <2>2 DEF PersonMoves
<1>4. Len(queue') <= MaxQueued /\ \A n \in DOMAIN queue' : queue'[n].pipeline \in OrNothing(DOMAIN pipes')
  <2>1. CASE queue' = queue
    BY <1>3, <2>1 DEF PipesBounded, OrNothing
  <2>2. CASE CanEmitSnapshot /\ \E i \in OrNothing(DOMAIN pipes') : queue' = Emitted(BaseSnapshot(i))
    BY <1>3, <2>2, EmittedIs
  <2> QED
    BY <2>1, <2>2 DEF PersonMoves
<1>5. {face.pipeline, face.tracking, ft.tracking} \subseteq OrNothing(DOMAIN pipes')
  BY <1>3 DEF PipesBounded, OrNothing
<1> QED
  BY <1>1, <1>3, <1>4, <1>5 DEF PipesBounded

LEMMA FaceMovesBounded ==
  ASSUME InferenceInv, PipesBounded, FaceMoves PROVE PipesBounded'
<1>1. /\ changes' = changes /\ queue' = queue /\ person' = person /\ pt' = pt
      /\ face'.tracking = face.tracking
      /\ face'.pipeline \in {face.pipeline, ft.tracking, Nothing}
      /\ ft'.tracking \in {ft.tracking, face.tracking, Nothing}
      /\ DOMAIN pipes' = DOMAIN pipes /\ Len(pipes') = Len(pipes)
      /\ \A i \in DOMAIN pipes : pipes'[i].camera = pipes[i].camera
  BY DEF FaceMoves, SamePipes
<1>2. person.pipeline \in OrNothing(DOMAIN pipes)
  BY DEF InferenceInv, InferenceTypes
<1>3. Needed(pipes', person.pipeline, person.camera, pt.camera) = Needed(pipes, person.pipeline, person.camera, pt.camera)
  BY <1>2, NeededSame DEF FaceMoves
<1>4. {face'.pipeline, face'.tracking, ft'.tracking} \subseteq OrNothing(DOMAIN pipes)
  BY <1>1 DEF PipesBounded, OrNothing
<1> QED
  BY <1>1, <1>3, <1>4 DEF PipesBounded

LEMMA SamePipesItself == ASSUME NEW p PROVE SamePipes(p, p)
BY DEF SamePipes

LEMMA LatestSame ==
  ASSUME NEW q \in Seq(Pipes), NEW i, NEW b \in BOOLEAN PROVE SamePipes(q, [q EXCEPT ![i].latest = b])
<1> DEFINE r == [q EXCEPT ![i].latest = b]
<1>1. DOMAIN q = 1 .. Len(q) /\ Len(q) \in Nat /\ \A k \in 1 .. Len(q) : q[k] \in Pipes
  OBVIOUS
<1>2. DOMAIN r = 1 .. Len(q) /\ \A k \in 1 .. Len(q) : r[k].camera = q[k].camera
  BY <1>1 DEF Pipes
<1> HIDE DEF r
<1>3. r \in Seq(Pipes) /\ r = [q EXCEPT ![i].latest = b]
  BY LatestKeeps DEF r
<1>4. Len(r) = Len(q)
  BY <1>1, <1>2, <1>3
<1> QED
  BY <1>1, <1>2, <1>4 DEF SamePipes, r

LEMMA ConfirmerSame ==
  ASSUME NEW q \in Seq(Pipes), NEW i, NEW x \in OrNothing(Nat) PROVE SamePipes(q, [q EXCEPT ![i].confirmer = x])
<1> DEFINE r == [q EXCEPT ![i].confirmer = x]
<1>1. DOMAIN q = 1 .. Len(q) /\ Len(q) \in Nat /\ \A k \in 1 .. Len(q) : q[k] \in Pipes
  OBVIOUS
<1>2. DOMAIN r = 1 .. Len(q) /\ \A k \in 1 .. Len(q) : r[k].camera = q[k].camera
  BY <1>1 DEF Pipes
<1> HIDE DEF r
<1>3. r \in Seq(Pipes) /\ r = [q EXCEPT ![i].confirmer = x]
  BY ConfirmerKeeps DEF r
<1>4. Len(r) = Len(q)
  BY <1>1, <1>2, <1>3
<1> QED
  BY <1>1, <1>2, <1>4 DEF SamePipes, r

LEMMA PersonAgainIs ==
  ASSUME InferenceInv PROVE PersonAgain.camera = Nothing /\ PersonAgain.pc = "loop"
BY DEF PersonAgain, InferenceInv, InferenceTypes, PersonThreads

\* _publish_if_current leaves the camera and the pipeline.
LEMMA PublishMoves ==
  ASSUME InferenceInv, Publish(BaseSnapshot(person.pipeline))
  PROVE  /\ person'.camera = person.camera /\ person'.pipeline = person.pipeline
         /\ queue' = queue \/ queue' = Emitted(BaseSnapshot(person.pipeline))
BY DEF Publish, InferenceInv, InferenceTypes, Persons

LEMMA PersonThreadMoves ==
  ASSUME InferenceInv, PipesBounded, PersonThread PROVE PersonMoves
<1>1. /\ pipes \in Seq(Pipes) /\ person \in Persons /\ pt \in PersonThreads
      /\ person.pipeline \in OrNothing(DOMAIN pipes)
      /\ PersonAgain.camera = Nothing /\ PersonAgain.pc = "loop"
      /\ pt.pc \in {"frame", "update", "publish"} => pt.camera /= Nothing
      /\ SamePipes(pipes, pipes)
  BY PersonAgainIs, SamePipesItself DEF InferenceInv, InferenceTypes, PipesBounded
<1>2. ASSUME UNCHANGED <<changes, gui, face, ft, pipes, person, queue>>,
             pt'.camera \in {pt.camera, person.camera, Nothing},
             pt'.pc \in {"frame", "update", "publish"} => pt'.camera /= Nothing
      PROVE  PersonMoves
  BY <1>1, <1>2 DEF PersonMoves
<1>3. ASSUME UNCHANGED <<changes, gui, face, ft, pipes>>, pt'.camera \in {pt.camera, Nothing},
             pt'.pc \in {"frame", "update", "publish"} => pt'.camera /= Nothing,
             CanEmitSnapshot, Publish(BaseSnapshot(person.pipeline))
      PROVE  PersonMoves
  <2>1. /\ person'.camera = person.camera /\ person'.pipeline = person.pipeline
        /\ queue' = queue \/ queue' = Emitted(BaseSnapshot(person.pipeline))
    BY <1>3, PublishMoves
  <2> QED
    BY <1>1, <1>3, <2>1 DEF PersonMoves
<1>4. ASSUME pt.camera /= Nothing, NEW b \in BOOLEAN
      PROVE  SamePipes(PipesFor(pt.camera), [PipesFor(pt.camera) EXCEPT ![TrackingFor(pt.camera)].latest = b])
  <2>1. pt.camera \in OrNothing(FocusCameras) /\ InferenceTypes
    BY <1>1 DEF PersonThreads, InferenceInv
  <2> QED
    BY <2>1, PipesForKeeps, LatestSame
<1>5. CASE PersonLoop
  <2>1. /\ UNCHANGED <<changes, gui, face, ft, pipes, person, queue>>
        /\ pt'.camera \in {pt.camera, person.camera} /\ pt'.pc \in {"final", "bind", "reset"}
    BY <1>1, <1>5 DEF PersonLoop, PersonThreads
  <2> QED
    BY <1>2, <2>1
<1>6. CASE PersonReset
  <2>1. /\ UNCHANGED <<changes, gui, face, ft, queue>> /\ pt'.camera = pt.camera /\ pt'.pc = "load"
    BY <1>1, <1>6 DEF PersonReset, PersonThreads
  <2>2. CASE pt.camera = Nothing
    BY <1>2, <1>6, <2>1, <2>2 DEF PersonReset
  <2>3. CASE pt.camera /= Nothing
    <3>1. /\ pipes' = [PipesFor(pt.camera) EXCEPT ![TrackingFor(pt.camera)].latest = FALSE]
          /\ person' = [person EXCEPT !.pipeline = TrackingFor(pt.camera)]
      BY <1>6, <2>3 DEF PersonReset
    <3>2. SamePipes(PipesFor(pt.camera), pipes')
      BY <1>4, <2>3, <3>1
    <3>3. person'.camera = person.camera /\ person'.pipeline = TrackingFor(pt.camera)
      BY <1>1, <3>1 DEF Persons
    <3> QED
      BY <2>1, <2>3, <3>2, <3>3 DEF PersonMoves
  <2> QED
    BY <2>2, <2>3
<1>7. CASE PersonLoad
  <2>1. UNCHANGED <<changes, gui, face, ft, pipes>> /\ pt'.camera = pt.camera /\ pt'.pc = "check"
    BY <1>1, <1>7 DEF PersonLoad, PersonThreads
  <2> QED
    BY <1>3, <1>7, <2>1 DEF PersonLoad
<1>8. CASE PersonCheck
  <2>1. UNCHANGED <<changes, gui, face, ft, pipes, person, queue>>
    BY <1>8 DEF PersonCheck
  <2>2. pt'.camera \in {pt.camera, Nothing} /\ pt'.pc \notin {"frame", "update", "publish"}
    BY <1>1, <1>8 DEF PersonCheck, PersonThreads, PersonAgain
  <2> QED
    BY <1>2, <2>1, <2>2
<1>9. CASE PersonBind
  <2>1. /\ UNCHANGED <<changes, gui, face, ft>> /\ pt'.camera \in {pt.camera, Nothing}
        /\ pt'.pc \in {"frame", "update", "publish"} => pt'.camera /= Nothing
    BY <1>1, <1>9 DEF PersonBind, PersonThreads, PersonAgain
  <2>2. CASE pt.camera = pt.bound
    BY <1>2, <1>9, <2>1, <2>2 DEF PersonBind
  <2>3. CASE pt.camera /= pt.bound
    <3> DEFINE p == IF pt.camera = Nothing THEN person.pipeline ELSE TrackingFor(pt.camera)
    <3>1. /\ CanEmitSnapshot
          /\ pipes' = IF pt.camera = Nothing THEN pipes ELSE PipesFor(pt.camera)
          /\ person'.camera = person.camera /\ person'.pipeline = p
          /\ queue' = queue \/ queue' = Emitted(BaseSnapshot(p))
      BY <1>1, <1>9, <2>3 DEF PersonBind, Persons
    <3>2. CASE pt.camera = Nothing
      BY <1>1, <2>1, <3>1, <3>2 DEF PersonMoves
    <3>3. CASE pt.camera /= Nothing
      <4>1. SamePipes(PipesFor(pt.camera), pipes')
        BY <3>1, <3>3, SamePipesItself
      <4>2. InferenceTypes /\ pt.camera \in OrNothing(FocusCameras)
        BY <1>1 DEF PersonThreads, InferenceInv
      <4>3. p \in OrNothing(DOMAIN pipes') /\ person'.pipeline = TrackingFor(pt.camera)
        BY <3>1, <3>3, <4>2, PipesForKeeps DEF OrNothing
      <4> QED
        BY <2>1, <3>1, <3>3, <4>1, <4>3 DEF PersonMoves
    <3> QED
      BY <3>2, <3>3
  <2> QED
    BY <2>2, <2>3
<1>10. CASE PersonDetect
  <2>1. UNCHANGED <<changes, gui, face, ft, pipes>> /\ pt.camera /= Nothing
    BY <1>1, <1>10 DEF PersonDetect
  <2>2. pt'.camera \in {pt.camera, Nothing} /\ (pt'.pc \in {"frame", "update", "publish"} => pt'.camera /= Nothing)
    BY <1>1, <1>10, <2>1 DEF PersonDetect, PersonThreads
  <2>3. UNCHANGED <<person, queue>> \/ (CanEmitSnapshot /\ Publish(BaseSnapshot(person.pipeline)))
    BY <1>10 DEF PersonDetect
  <2> QED
    BY <1>2, <1>3, <2>1, <2>2, <2>3
<1>11. CASE PersonUpdate
  <2>1. /\ UNCHANGED <<changes, gui, face, ft, queue>> /\ pt.camera /= Nothing
        /\ pt'.camera = pt.camera
        /\ pipes' = [PipesFor(pt.camera) EXCEPT ![TrackingFor(pt.camera)].latest = TRUE]
        /\ person'.camera = person.camera /\ person'.pipeline = TrackingFor(pt.camera)
    BY <1>1, <1>11 DEF PersonUpdate, PersonThreads, Persons
  <2>2. SamePipes(PipesFor(pt.camera), pipes')
    BY <1>4, <2>1
  <2> QED
    BY <2>1, <2>2 DEF PersonMoves
<1>12. CASE PersonPublish
  BY <1>1, <1>3, <1>12 DEF PersonPublish
<1>13. CASE PersonFinal
  <2>1. UNCHANGED <<changes, gui, face, ft, pipes, person, queue>> /\ pt'.camera = pt.camera /\ pt'.pc = "dead"
    BY <1>1, <1>13 DEF PersonFinal, PersonThreads
  <2> QED
    BY <1>2, <2>1
<1> QED
  BY <1>5, <1>6, <1>7, <1>8, <1>9, <1>10, <1>11, <1>12, <1>13 DEF PersonThread

LEMMA CloseRuntimeSame == ASSUME InferenceInv, CloseRuntime PROVE SamePipes(pipes, pipes')
<1>1. pipes \in Seq(Pipes)
  BY DEF InferenceInv, InferenceTypes
<1>2. pipes' = pipes \/ pipes' = [pipes EXCEPT ![face.pipeline].confirmer = Nothing]
  BY DEF CloseRuntime
<1>3. SamePipes(pipes, [pipes EXCEPT ![face.pipeline].confirmer = Nothing])
  <2>1. Nothing \in OrNothing(Nat)
    BY DEF OrNothing
  <2> QED
    BY <1>1, <2>1, ConfirmerSame
<1>4. SamePipes(pipes, pipes)
  BY SamePipesItself
<1> QED
  BY <1>2, <1>3, <1>4

LEMMA FaceThreadMoves ==
  ASSUME InferenceInv, PipesBounded, FaceThread PROVE FaceMoves
<1>1. /\ pipes \in Seq(Pipes) /\ face \in Faces /\ ft \in FaceThreads /\ SamePipes(pipes, pipes)
      /\ FacePublish.tracking = face.tracking /\ FacePublish.pipeline = face.pipeline /\ FacePublish \in Faces
      /\ FaceAgain.tracking = Nothing
  <2>1. pipes \in Seq(Pipes) /\ face \in Faces /\ ft \in FaceThreads
    BY DEF InferenceInv, InferenceTypes
  <2>2. FacePublish.tracking = face.tracking /\ FacePublish.pipeline = face.pipeline /\ FacePublish \in Faces
    BY <2>1 DEF FacePublish, Faces, FaceThreads, SnapshotsOf, OrNothing
  <2>3. FaceAgain.tracking = Nothing
    BY <2>1 DEF FaceAgain, FaceThreads
  <2> QED
    BY <2>1, <2>2, <2>3, SamePipesItself
<1>2. CASE FaceLoop
  <2>1. UNCHANGED <<changes, queue, person, pt>>
    BY <1>2 DEF FaceLoop
  <2>2. SamePipes(pipes, pipes')
    BY <1>1, <1>2, CloseRuntimeSame DEF FaceLoop
  <2>3. face'.tracking = face.tracking /\ face'.pipeline \in {face.pipeline, Nothing}
    BY <1>1, <1>2 DEF FaceLoop, Faces
  <2>4. ft'.tracking \in {ft.tracking, face.tracking}
    BY <1>1, <1>2 DEF FaceLoop, FaceThreads
  <2> QED
    BY <2>1, <2>2, <2>3, <2>4 DEF FaceMoves
<1>3. CASE FaceReload
  <2>1. UNCHANGED <<changes, queue, person, pt>> /\ face' = FacePublish
    BY <1>3 DEF FaceReload
  <2>2. pipes' = pipes \/ pipes' = [pipes EXCEPT ![ft.tracking].confirmer = Nothing]
    BY <1>3 DEF FaceReload
  <2>a. SamePipes(pipes, [pipes EXCEPT ![ft.tracking].confirmer = Nothing])
    <3>1. Nothing \in OrNothing(Nat)
      BY DEF OrNothing
    <3> QED
      BY <1>1, <3>1, ConfirmerSame
  <2>3. SamePipes(pipes, pipes')
    BY <1>1, <2>2, <2>a
  <2>4. ft'.tracking = ft.tracking
    BY <1>1, <1>3 DEF FaceReload, FaceThreads
  <2> QED
    BY <1>1, <2>1, <2>3, <2>4 DEF FaceMoves
<1>4. CASE FaceBuild
  <2>1. UNCHANGED <<changes, queue, person, pt, face>>
    BY <1>4 DEF FaceBuild
  <2>2. PICK confirmer \in {ft.builds + 1, Nothing} : pipes' = [pipes EXCEPT ![ft.tracking].confirmer = confirmer]
    BY <1>4 DEF FaceBuild
  <2>a. confirmer \in OrNothing(Nat)
    BY <1>1 DEF FaceThreads, OrNothing
  <2>3. SamePipes(pipes, pipes')
    BY <1>1, <2>2, <2>a, ConfirmerSame
  <2>4. ft'.tracking = ft.tracking
    BY <1>1, <1>4 DEF FaceBuild, FaceThreads
  <2> QED
    BY <2>1, <2>3, <2>4 DEF FaceMoves
<1>5. CASE FaceRefused \/ FaceRaises
  <2>1. UNCHANGED <<changes, queue, pipes, person, pt>> /\ face' \in {face, FacePublish} /\ ft'.tracking = ft.tracking
    BY <1>1, <1>5 DEF FaceRefused, FaceRaises, FaceThreads
  <2> QED
    BY <1>1, <2>1 DEF FaceMoves
<1>6. CASE FaceInstall
  <2>1. UNCHANGED <<changes, queue, pipes, person, pt>> /\ ft'.tracking = ft.tracking
        /\ face' = [FacePublish EXCEPT !.runtime = ft.runtime, !.pipeline = ft.tracking]
    BY <1>1, <1>6 DEF FaceInstall, FaceThreads
  <2>2. face'.tracking = face.tracking /\ face'.pipeline = ft.tracking
    BY <1>1, <2>1 DEF Faces
  <2> QED
    BY <1>1, <2>1, <2>2 DEF FaceMoves
<1>7. CASE FaceLook
  <2>1. UNCHANGED <<changes, queue, pipes, person, pt, face>>
    BY <1>7 DEF FaceLook
  <2>2. ft'.tracking \in {ft.tracking, Nothing}
    BY <1>1, <1>7 DEF FaceLook, FaceThreads
  <2> QED
    BY <1>1, <2>1, <2>2 DEF FaceMoves
<1>8. CASE FaceProcess
  BY <1>1, <1>8 DEF FaceProcess, FaceMoves
<1>9. CASE FaceFinal
  <2>1. /\ UNCHANGED <<changes, queue, person, pt>> /\ SamePipes(pipes, pipes') /\ ft'.tracking = ft.tracking
    BY <1>1, <1>9, CloseRuntimeSame DEF FaceFinal, FaceThreads
  <2>2. face'.tracking = face.tracking /\ face'.pipeline = Nothing
    BY <1>1, <1>9 DEF FaceFinal, Faces
  <2> QED
    BY <2>1, <2>2 DEF FaceMoves
<1> QED
  BY <1>2, <1>3, <1>4, <1>5, <1>6, <1>7, <1>8, <1>9 DEF FaceThread

LEMMA StopClosesMoves == ASSUME InferenceInv, PipesBounded, StopClosesRuntime PROVE FaceMoves
<1>1. face \in Faces
  BY DEF InferenceInv, InferenceTypes
<1>2. face'.tracking = face.tracking /\ face'.pipeline = Nothing
  BY <1>1 DEF StopClosesRuntime, Faces
<1> QED
  BY <1>2, CloseRuntimeSame DEF StopClosesRuntime, FaceMoves

-----------------------------------------------------------------------------
(* The user's steps.                                                       *)

LEMMA SetActiveCameraBounded == ASSUME InferenceInv, PipesBounded, SetActiveCamera PROVE PipesBounded'
<1>1. PICK c \in FocusCameras \cup {Nothing} : person' = FocusPerson(c) /\ face' = FocusFace(c)
  BY DEF SetActiveCamera
<1>2. changes' = changes + 1 /\ UNCHANGED <<queue, pipes, pt, ft>>
  BY DEF SetActiveCamera
<1>3. person \in Persons /\ face \in Faces /\ Len(pipes) \in Nat
  BY DEF InferenceInv, InferenceTypes
<1>4. face'.pipeline = face.pipeline /\ face'.tracking = Nothing
  BY <1>1, <1>3 DEF FocusFace, Faces
<1>5. Needed(pipes, person'.pipeline, person'.camera, pt.camera) \in 0 .. 2
  BY NeededIs
<1>6. Needed(pipes, person.pipeline, person.camera, pt.camera) \in 0 .. 2
  BY NeededIs
<1>7. /\ changes \in Nat
      /\ Len(pipes) + Needed(pipes, person.pipeline, person.camera, pt.camera) <= 2 * changes
  BY DEF PipesBounded
<1>8. /\ changes' \in Nat
      /\ Len(pipes) + Needed(pipes, person'.pipeline, person'.camera, pt.camera) <= 2 * changes'
  BY <1>2, <1>3, <1>5, <1>6, <1>7
<1> QED
  BY <1>2, <1>4, <1>8 DEF PipesBounded, OrNothing

LEMMA SettingsBounded == ASSUME InferenceInv, PipesBounded, UpdatePersonSettings \/ UpdateFaceSettings PROVE PipesBounded'
<1>1. changes' = changes + 1 /\ UNCHANGED <<queue, pipes, pt, ft>>
  BY DEF UpdatePersonSettings, UpdateFaceSettings
<1>2. person \in Persons /\ face \in Faces /\ Len(pipes) \in Nat
  BY DEF InferenceInv, InferenceTypes
<1>3. person'.pipeline = person.pipeline /\ person'.camera = person.camera
  BY <1>2 DEF UpdatePersonSettings, UpdateFaceSettings, Persons
<1>4. face'.pipeline = face.pipeline /\ face'.tracking = face.tracking
  BY <1>2 DEF UpdatePersonSettings, UpdateFaceSettings, Faces
<1>5. Needed(pipes, person.pipeline, person.camera, pt.camera) \in 0 .. 2
  BY NeededIs
<1>6. /\ changes' \in Nat
      /\ Len(pipes) + Needed(pipes, person.pipeline, person.camera, pt.camera) <= 2 * changes'
  BY <1>1, <1>2, <1>5 DEF PipesBounded
<1> QED
  BY <1>1, <1>3, <1>4, <1>6 DEF PipesBounded

LEMMA SetPersonSnapshotBounded == ASSUME InferenceInv, PipesBounded, SetPersonSnapshot PROVE PipesBounded'
<1>1. queue /= <<>> /\ queue' = Tail(queue) /\ UNCHANGED <<changes, pipes, person, pt, ft>>
      /\ face' = IF Head(queue).camera = face.camera
                   THEN [face EXCEPT !.snapshot = TRUE, !.tracking = Head(queue).pipeline] ELSE face
  BY DEF SetPersonSnapshot
<1>2. queue \in Seq(PersonSnapshots) /\ face \in Faces /\ MaxQueued \in Nat
  BY InferenceAssumption DEF InferenceInv, InferenceTypes
<1>3. /\ Len(queue) \in Nat /\ Len(queue) > 0 /\ DOMAIN queue = 1 .. Len(queue)
      /\ Len(Tail(queue)) = Len(queue) - 1 /\ DOMAIN Tail(queue) = 1 .. Len(queue) - 1
      /\ \A n \in 1 .. Len(queue) - 1 : Tail(queue)[n] = queue[n + 1]
      /\ Head(queue) = queue[1]
  BY <1>1, <1>2
<1>4. /\ \A n \in DOMAIN queue' : queue'[n].pipeline \in OrNothing(DOMAIN pipes)
      /\ Head(queue).pipeline \in OrNothing(DOMAIN pipes) /\ Len(queue') <= MaxQueued
  BY <1>1, <1>2, <1>3 DEF PipesBounded
<1>5. face'.pipeline = face.pipeline /\ face'.tracking \in {face.tracking, Head(queue).pipeline}
  BY <1>1, <1>2 DEF Faces
<1> QED
  BY <1>1, <1>4, <1>5 DEF PipesBounded

LEMMA StopsBounded == ASSUME InferenceInv, PipesBounded, StopPerson \/ StopFace PROVE PipesBounded'
<1>1. UNCHANGED <<changes, pipes, pt, ft>> /\ queue' \in {queue, <<>>}
  BY DEF StopPerson, StopFace
<1>2. person \in Persons /\ face \in Faces /\ MaxQueued \in Nat
  BY InferenceAssumption DEF InferenceInv, InferenceTypes
<1>3. person'.pipeline = person.pipeline /\ person'.camera = person.camera
  BY <1>2 DEF StopPerson, StopFace, Persons
<1>4. face'.pipeline = face.pipeline /\ face'.tracking = face.tracking
  BY <1>2 DEF StopPerson, StopFace, Faces
<1>5. Len(queue') <= MaxQueued /\ \A n \in DOMAIN queue' : queue'[n].pipeline \in OrNothing(DOMAIN pipes)
  BY <1>1, <1>2 DEF PipesBounded
<1> QED
  BY <1>1, <1>3, <1>4, <1>5 DEF PipesBounded

LEMMA InferenceStartsBounded == ASSUME InferenceInit PROVE PipesBounded
<1>1. /\ changes = 0 /\ queue = <<>> /\ pipes = <<>> /\ pt.pc = "loop" /\ pt.camera = Nothing
      /\ ft.tracking = Nothing /\ person.camera = Nothing
  BY DEF InferenceInit, NewPersonController
<1>2. face.pipeline = Nothing /\ face.tracking = Nothing
  BY DEF InferenceInit, NewFaceController
<1>3. Needed(pipes, person.pipeline, person.camera, pt.camera) = 0
  BY <1>1 DEF Needed
<1>4. Len(pipes) = 0 /\ Len(queue) = 0 /\ DOMAIN pipes = {} /\ DOMAIN queue = {} /\ MaxQueued \in Nat
  BY <1>1, InferenceAssumption
<1> QED
  BY <1>1, <1>2, <1>3, <1>4 DEF PipesBounded, OrNothing

LEMMA InferenceNextBounded == InferenceInv /\ PipesBounded /\ [InferenceNext]_infVars => PipesBounded'
<1> SUFFICES ASSUME InferenceInv, PipesBounded, [InferenceNext]_infVars PROVE PipesBounded'
  OBVIOUS
<1>1. CASE UNCHANGED infVars
  BY <1>1 DEF infVars, PipesBounded
<1>2. CASE PersonThread
  BY <1>2, PersonThreadMoves, PersonMovesBounded
<1>3. CASE FaceThread \/ StopClosesRuntime
  BY <1>3, FaceThreadMoves, StopClosesMoves, FaceMovesBounded
<1> QED
  BY <1>1, <1>2, <1>3, SetActiveCameraBounded, SettingsBounded, SetPersonSnapshotBounded, StopsBounded
     DEF InferenceNext

LEMMA InferenceInvTyped == InferenceInv /\ PipesBounded => InferenceTypeOK
<1> SUFFICES ASSUME InferenceInv, PipesBounded PROVE InferenceTypeOK
  OBVIOUS
<1>1. /\ gui \in {"run", "stop_person", "stop_face", "gone"} /\ person \in Persons /\ face \in Faces
      /\ person.pipeline \in OrNothing(DOMAIN pipes) /\ pipes \in Seq(Pipes) /\ Len(pipes) \in Nat
  BY DEF InferenceInv, InferenceTypes
<1>2. Len(pipes) <= 2 * changes
  <2>1. Needed(pipes, person.pipeline, person.camera, pt.camera) \in 0 .. 2
    BY NeededIs
  <2> QED
    BY <1>1, <2>1 DEF PipesBounded
<1>3. \A p \in DOMAIN pipes : pipes[p] \in Pipes
  BY <1>1
<1> QED
  BY <1>1, <1>2, <1>3 DEF PipesBounded, InferenceTypeOK, Pipes, Persons, Faces, OrNothing

-----------------------------------------------------------------------------
(* How many providers are made.                                            *)

\* A reconfiguration that has not started its provider will make one, and the
\* draft of a dirty card another reconfiguration.
Owed(r) == {c \in Cameras : r[c].pc \in {"stop", "start"}}
Dirty(e) == {c \in Cameras : e[c].card /= Absent}
Owing(r, e) == Cardinality(Owed(r)) + Cardinality(Dirty(e))

FewProviders ==
    /\ {focus.person, focus.face} \subseteq OrAbsent(Made)
    /\ main = "new" => Dirty(editor) = {}
    /\ Cardinality(Made) + Owing(recon, editor) <= Cardinality(Cameras) + 2 * edits

LEMMA CameraCount ==
  ASSUME NEW S \in SUBSET Cameras
  PROVE  /\ Cardinality(S) \in Nat
         /\ \A c \in Cameras : Cardinality(S \cup {c}) <= Cardinality(S) + 1
         /\ \A c \in S : Cardinality(S \ {c}) = Cardinality(S) - 1
         /\ \A T \in SUBSET S : Cardinality(T) \in Nat /\ Cardinality(T) <= Cardinality(S)
<1>1. IsFiniteSet(Cameras)
  BY DesktopAssumption
<1>2. IsFiniteSet(S)
  BY <1>1, FS_Subset
<1>3. Cardinality(S) \in Nat
  BY <1>2, FS_CardinalityType
<1>4. ASSUME NEW c \in Cameras PROVE Cardinality(S \cup {c}) <= Cardinality(S) + 1
  <2>1. CASE c \in S
    <3>1. S \cup {c} = S
      BY <2>1
    <3>2. Cardinality(S \cup {c}) = Cardinality(S)
      BY <3>1
    <3> QED
      BY <1>3, <3>2
  <2>2. CASE c \notin S
    <3>1. Cardinality(S \cup {c}) = Cardinality(S) + 1
      BY <1>2, <2>2, FS_AddElement
    <3> QED
      BY <1>3, <3>1
  <2> QED
    BY <2>1, <2>2
<1>5. \A c \in S : Cardinality(S \ {c}) = Cardinality(S) - 1
  BY <1>2, FS_RemoveElement
<1>6. \A T \in SUBSET S : Cardinality(T) \in Nat /\ Cardinality(T) <= Cardinality(S)
  BY <1>2, FS_Subset, FS_CardinalityType
<1> QED
  BY <1>3, <1>4, <1>5, <1>6

LEMMA OwingIs ==
  ASSUME NEW r, NEW e
  PROVE  /\ Cardinality(Owed(r)) \in Nat /\ Cardinality(Dirty(e)) \in Nat /\ Owing(r, e) \in Nat
         /\ Owed(r) \in SUBSET Cameras /\ Dirty(e) \in SUBSET Cameras
<1>1. Owed(r) \in SUBSET Cameras /\ Dirty(e) \in SUBSET Cameras
  BY DEF Owed, Dirty
<1>2. Cardinality(Owed(r)) \in Nat /\ Cardinality(Dirty(e)) \in Nat
  BY <1>1, CameraCount
<1> QED
  BY <1>1, <1>2 DEF Owing

LEMMA OwingLess ==
  ASSUME NEW r, NEW e, NEW r2, NEW e2, Owed(r2) \subseteq Owed(r), Dirty(e2) \subseteq Dirty(e)
  PROVE  Owing(r2, e2) <= Owing(r, e)
<1>1. /\ Cardinality(Owed(r2)) <= Cardinality(Owed(r)) /\ Cardinality(Dirty(e2)) <= Cardinality(Dirty(e))
      /\ Cardinality(Owed(r2)) \in Nat /\ Cardinality(Owed(r)) \in Nat
      /\ Cardinality(Dirty(e2)) \in Nat /\ Cardinality(Dirty(e)) \in Nat
  BY OwingIs, CameraCount
<1> QED
  BY <1>1 DEF Owing

\* A step that owes what it makes.
LEMMA FewKept ==
  ASSUME DesktopInv, DesktopInv', FewProviders, DOMAIN provider \subseteq DOMAIN provider', main' /= "new",
         {focus'.person, focus'.face} \subseteq
            {focus.person, focus.face, Absent} \cup {monitor'.providers[c] : c \in Cameras},
         Cardinality(Made') + Owing(recon', editor') + 2 * edits
            <= Cardinality(Made) + Owing(recon, editor) + 2 * edits'
  PROVE  FewProviders'
<1>1. \A c \in Cameras : monitor'.providers[c] \in OrAbsent(Made')
  BY DEF DesktopInv, HandOver, IsFor, Made, OrAbsent
<1>2. {focus'.person, focus'.face} \subseteq OrAbsent(Made')
  BY <1>1 DEF FewProviders, OrAbsent, Made
<1>3. /\ edits \in Nat /\ edits' \in Nat /\ Cardinality(Made) \in Nat /\ Cardinality(Made') \in Nat
      /\ Owing(recon, editor) \in Nat /\ Owing(recon', editor') \in Nat /\ Cardinality(Cameras) \in Nat
  BY OwingIs, CamerasFinite, DesktopAssumption DEF DesktopInv, DesktopTypes, ProvidersOf, Made
<1>4. Cardinality(Made') + Owing(recon', editor') <= Cardinality(Cameras) + 2 * edits'
  BY <1>3 DEF FewProviders
<1> QED
  BY <1>2, <1>4 DEF FewProviders

-----------------------------------------------------------------------------
(* The edits of a camera owe one reconfiguration each.                     *)

\* An edit e2 of camera c has what e had, and may owe one reconfiguration more.
OneMore(e, e2, c) == Owed(e2.recon) \subseteq Owed(e.recon) \cup {c} /\ Dirty(e2.editor) = Dirty(e.editor)

LEMMA CardKept ==
  ASSUME NEW ed \in [Cameras -> Editors], NEW c \in Cameras, NEW x \in Editors, x.card = ed[c].card
  PROVE  Dirty([ed EXCEPT ![c] = x]) = Dirty(ed)
BY DEF Dirty

LEMMA AppliedOwes ==
  ASSUME NEW r \in [Cameras -> Recons], NEW c \in Cameras, NEW x
  PROVE  Owed([r EXCEPT ![c] = x]) \subseteq Owed(r) \cup {c}
BY DEF Owed

LEMMA TryApplyOwes ==
  ASSUME NEW e, Edit(e), EditOK(e), NEW c \in Cameras, NEW draft \in Slots, NEW written \in BOOLEAN
  PROVE  OneMore(e, TryApply(e, c, draft, written), c)
<1> DEFINE d == e.editor[c]
<1>1. d \in Editors /\ e.editor \in [Cameras -> Editors] /\ e.recon \in [Cameras -> Recons]
  BY DEF EditOK, Agrees
<1>2. CASE d.applying /= Absent \/ ~written
  <2> DEFINE x == [d EXCEPT !.pending = draft]
  <2>1. x \in Editors /\ x.card = d.card
    BY <1>1 DEF Editors, OrAbsent
  <2>2. TryApply(e, c, draft, written) = [e EXCEPT !.editor[c] = x]
    BY <1>2 DEF TryApply
  <2> HIDE DEF x
  <2>3. [e EXCEPT !.editor[c] = x].editor = [e.editor EXCEPT ![c] = x] /\ [e EXCEPT !.editor[c] = x].recon = e.recon
    BY <2>1, EditorKeeps
  <2>4. Dirty([e.editor EXCEPT ![c] = x]) = Dirty(e.editor)
    BY <1>1, <2>1, CardKept
  <2> QED
    BY <2>2, <2>3, <2>4 DEF OneMore
<1>3. CASE ~(d.applying /= Absent \/ ~written) /\ e.recon[c].pc /= "none"
  <2> DEFINE x == [d EXCEPT !.saved = draft, !.pending = draft]
  <2>1. x \in Editors /\ x.card = d.card
    BY <1>1 DEF Editors, OrAbsent
  <2>2. TryApply(e, c, draft, written) = [e EXCEPT !.editor[c] = x]
    BY <1>1, <1>3 DEF TryApply, Edit
  <2> HIDE DEF x
  <2>3. [e EXCEPT !.editor[c] = x].editor = [e.editor EXCEPT ![c] = x] /\ [e EXCEPT !.editor[c] = x].recon = e.recon
    BY <2>1, EditorKeeps
  <2>4. Dirty([e.editor EXCEPT ![c] = x]) = Dirty(e.editor)
    BY <1>1, <2>1, CardKept
  <2> QED
    BY <2>2, <2>3, <2>4 DEF OneMore
<1>4. CASE ~(d.applying /= Absent \/ ~written) /\ e.recon[c].pc = "none"
  <2> DEFINE x == [d EXCEPT !.saved = draft, !.pending = Absent, !.applying = draft]
             y == Reconfigure(e.monitor, c, draft)
  <2>1. x \in Editors /\ x.card = d.card
    BY <1>1 DEF Editors, OrAbsent
  <2>2. /\ TryApply(e, c, draft, written).editor = [e.editor EXCEPT ![c] = x]
        /\ TryApply(e, c, draft, written).recon = [e.recon EXCEPT ![c] = y]
    BY <1>1, <1>4 DEF TryApply
  <2> HIDE DEF x, y
  <2>3. Dirty([e.editor EXCEPT ![c] = x]) = Dirty(e.editor)
    BY <1>1, <2>1, CardKept
  <2>4. Owed([e.recon EXCEPT ![c] = y]) \subseteq Owed(e.recon) \cup {c}
    BY <1>1, AppliedOwes
  <2> QED
    BY <2>2, <2>3, <2>4 DEF OneMore
<1> QED
  BY <1>2, <1>3, <1>4

LEMMA SaveCameraOwes ==
  ASSUME NEW e, Edit(e), EditOK(e), NEW c \in Cameras, NEW draft \in Slots, NEW written \in BOOLEAN
  PROVE  OneMore(e, SaveCamera(e, c, draft, written), c)
<1> DEFINE d == e.editor[c]
           x == [d EXCEPT !.saved = draft]
           y == Reconfigure(e.monitor, c, draft)
<1>1. d \in Editors /\ e.editor \in [Cameras -> Editors] /\ e.recon \in [Cameras -> Recons]
  BY DEF EditOK, Agrees
<1>2. x \in Editors /\ x.card = d.card
  BY <1>1 DEF Editors, OrAbsent
<1>3. /\ ~written => SaveCamera(e, c, draft, written) = e
      /\ written /\ e.recon[c].pc /= "none" => SaveCamera(e, c, draft, written) = [e EXCEPT !.editor[c] = x]
      /\ written /\ e.recon[c].pc = "none" =>
           /\ SaveCamera(e, c, draft, written).editor = [e.editor EXCEPT ![c] = x]
           /\ SaveCamera(e, c, draft, written).recon = [e.recon EXCEPT ![c] = y]
  BY <1>1 DEF SaveCamera, Edit
<1> HIDE DEF x, y
<1>4. [e EXCEPT !.editor[c] = x].editor = [e.editor EXCEPT ![c] = x] /\ [e EXCEPT !.editor[c] = x].recon = e.recon
  BY <1>2, EditorKeeps
<1>5. Dirty([e.editor EXCEPT ![c] = x]) = Dirty(e.editor)
  BY <1>1, <1>2, CardKept
<1>6. Owed([e.recon EXCEPT ![c] = y]) \subseteq Owed(e.recon) \cup {c}
  BY <1>1, AppliedOwes
<1>7. CASE ~written
  BY <1>3, <1>7 DEF OneMore
<1>8. CASE written /\ e.recon[c].pc /= "none"
  BY <1>3, <1>4, <1>5, <1>8 DEF OneMore
<1>9. CASE written /\ e.recon[c].pc = "none"
  BY <1>3, <1>5, <1>6, <1>9 DEF OneMore
<1> QED
  BY <1>7, <1>8, <1>9

LEMMA OneMoreOwes ==
  ASSUME NEW e, NEW e2, NEW c \in Cameras, OneMore(e, e2, c)
  PROVE  Owing(e2.recon, e2.editor) <= Owing(e.recon, e.editor) + 1
<1>1. Cardinality(Owed(e2.recon)) <= Cardinality(Owed(e.recon)) + 1
  <2>1. Owed(e.recon) \in SUBSET Cameras /\ Owed(e.recon) \cup {c} \in SUBSET Cameras
    BY OwingIs
  <2>2. Cardinality(Owed(e2.recon)) <= Cardinality(Owed(e.recon) \cup {c})
    BY <2>1, CameraCount DEF OneMore
  <2>3. Cardinality(Owed(e.recon) \cup {c}) <= Cardinality(Owed(e.recon)) + 1
    BY <2>1, CameraCount
  <2>4. Cardinality(Owed(e.recon) \cup {c}) \in Nat
    BY <2>1, CameraCount
  <2> QED
    BY <2>2, <2>3, <2>4, OwingIs
<1>2. /\ Cardinality(Owed(e2.recon)) \in Nat /\ Cardinality(Owed(e.recon)) \in Nat
      /\ Cardinality(Dirty(e2.editor)) \in Nat /\ Cardinality(Dirty(e.editor)) \in Nat
  BY OwingIs
<1>3. Cardinality(Dirty(e2.editor)) = Cardinality(Dirty(e.editor))
  BY DEF OneMore
<1> QED
  BY <1>1, <1>2, <1>3 DEF Owing

\* The draft that the panel flushes was owed.
LEMMA FlushOwes ==
  ASSUME NEW e, Edit(e), EditOK(e), ProvidersOf(provider), focus \in Foci, NEW flushed \in FlushPending(e)
  PROVE  Owing(flushed.recon, flushed.editor) <= Owing(e.recon, e.editor)
<1> DEFINE c == focus.panel
           draft == e.editor[c].card
           x == [e.editor[c] EXCEPT !.card = Absent]
<1>1. CASE c /= Absent /\ draft /= Absent
  <2>1. c \in Cameras
    BY <1>1 DEF Foci, OrAbsent
  <2>2. e.editor[c] \in Editors /\ e.editor \in [Cameras -> Editors]
    BY <2>1 DEF EditOK
  <2>3. draft \in Slots /\ x \in Editors /\ x.card = Absent
    BY <1>1, <2>2 DEF Editors, OrAbsent
  <2>4. PICK written \in BOOLEAN : flushed = TryApply([e EXCEPT !.editor[c] = x], c, draft, written)
    BY <1>1 DEF FlushPending
  <2>5. c \in Dirty(e.editor)
    BY <1>1, <2>1 DEF Dirty
  <2> HIDE DEF c, draft, x
  <2> DEFINE e2 == [e EXCEPT !.editor[c] = x]
  <2>6. Edit(e2) /\ EditOK(e2) /\ e2.editor = [e.editor EXCEPT ![c] = x] /\ e2.recon = e.recon
    BY <2>1, <2>3, EditorKeeps
  <2>7. Dirty(e2.editor) = Dirty(e.editor) \ {c}
    BY <2>2, <2>3, <2>6 DEF Dirty
  <2> HIDE DEF e2
  <2>8. OneMore(e2, TryApply(e2, c, draft, written), c)
    BY <2>1, <2>3, <2>6, TryApplyOwes
  <2>9. Owing(flushed.recon, flushed.editor) <= Owing(e2.recon, e2.editor) + 1
    BY <2>1, <2>4, <2>8, OneMoreOwes DEF e2
  <2>10. Cardinality(Dirty(e2.editor)) = Cardinality(Dirty(e.editor)) - 1
    BY <2>5, <2>7, OwingIs, CameraCount
  <2>11. /\ Owing(e2.recon, e2.editor) = Cardinality(Owed(e.recon)) + Cardinality(Dirty(e2.editor))
         /\ Owing(e.recon, e.editor) = Cardinality(Owed(e.recon)) + Cardinality(Dirty(e.editor))
    BY <2>6 DEF Owing
  <2>12. /\ Cardinality(Owed(e.recon)) \in Nat /\ Cardinality(Dirty(e.editor)) \in Nat
         /\ Owing(flushed.recon, flushed.editor) \in Nat
    BY OwingIs
  <2> QED
    BY <2>9, <2>10, <2>11, <2>12
<1>2. CASE ~(c /= Absent /\ draft /= Absent)
  <2>1. flushed = e
    BY <1>2 DEF FlushPending
  <2>2. Owing(e.recon, e.editor) \in Nat
    BY OwingIs
  <2> QED
    BY <2>1, <2>2
<1> QED
  BY <1>1, <1>2

-----------------------------------------------------------------------------
(* The steps.                                                              *)

\* A step that makes no provider and owes no more.
LEMMA FewSame ==
  ASSUME DesktopInv, DesktopInv', FewProviders, DOMAIN provider' = DOMAIN provider, main' /= "new", edits' = edits,
         {focus'.person, focus'.face} \subseteq
            {focus.person, focus.face, Absent} \cup {monitor'.providers[c] : c \in Cameras},
         Owed(recon') \subseteq Owed(recon), Dirty(editor') \subseteq Dirty(editor)
  PROVE  FewProviders'
<1>1. Owing(recon', editor') <= Owing(recon, editor)
  BY OwingLess
<1>2. /\ edits \in Nat /\ Cardinality(Made) \in Nat /\ Made' = Made
      /\ Owing(recon, editor) \in Nat /\ Owing(recon', editor') \in Nat
  BY OwingIs DEF DesktopInv, DesktopTypes, ProvidersOf, Made
<1>3. Cardinality(Made') + Owing(recon', editor') + 2 * edits
        <= Cardinality(Made) + Owing(recon, editor) + 2 * edits'
  BY <1>1, <1>2
<1> QED
  BY <1>3, FewKept

LEMMA StartMonitorFew ==
  ASSUME DesktopInv, DesktopInv', FewProviders, StartMonitor PROVE FewProviders'
<1>1. /\ main = "new" /\ main' = "loop" /\ UNCHANGED <<edits, editor, recon, focus>>
  BY DEF StartMonitor
<1>2. Fresh /\ Dirty(editor) = {} /\ Made = {}
  BY <1>1 DEF DesktopInv, FewProviders, Fresh
<1>3. Owed(recon) = {}
  BY <1>2 DEF Owed, Fresh
<1>4. Owing(recon, editor) = 0
  BY <1>2, <1>3, FS_EmptySet DEF Owing
<1>5. Cardinality(Made') \in Nat /\ Cardinality(Made') <= Cardinality(Cameras)
  <2>1. PICK built \in SUBSET Cameras : Made' = 1 .. Cardinality(built)
    BY DEF StartMonitor, Made
  <2>2. Cardinality(built) \in Nat /\ Cardinality(built) <= Cardinality(Cameras)
    BY FirstIs
  <2> QED
    BY <2>1, <2>2, FS_Interval
<1>6. {focus'.person, focus'.face} \subseteq OrAbsent(Made')
  BY <1>1, <1>2 DEF FewProviders, OrAbsent
<1>7. Cardinality(Made') + Owing(recon', editor') <= Cardinality(Cameras) + 2 * edits'
  BY <1>1, <1>4, <1>5, CamerasFinite DEF DesktopInv, DesktopTypes
<1> QED
  BY <1>1, <1>6, <1>7 DEF FewProviders

LEMMA ReconStopFew ==
  ASSUME DesktopInv, DesktopInv', FewProviders, NEW c \in Cameras, ReconStop(c) PROVE FewProviders'
<1>1. /\ recon[c].pc = "stop" /\ recon \in [Cameras -> Recons]
      /\ UNCHANGED <<main, edits, editor, monitor, focus>> /\ DOMAIN provider' = DOMAIN provider
  BY DEF ReconStop, StopOne, DesktopInv, DesktopTypes
<1>2. main' /= "new"
  BY <1>1 DEF DesktopInv, Fresh
<1>3. Owed(recon') \subseteq Owed(recon)
  BY <1>1 DEF ReconStop, Owed, Recons
<1> QED
  BY <1>1, <1>2, <1>3, FewSame

LEMMA WorkerEndsFew ==
  ASSUME DesktopInv, DesktopInv', FewProviders, NEW p \in Made, WorkerEnds(p) PROVE FewProviders'
<1>1. /\ main' /= "new" /\ UNCHANGED <<edits, editor, monitor, recon, focus>>
      /\ DOMAIN provider' = DOMAIN provider
  BY DEF WorkerEnds
<1> QED
  BY <1>1, FewSame

\* The reconfiguration pays for its provider.
LEMMA ReconStartFew ==
  ASSUME DesktopInv, DesktopInv', FewProviders, NEW c \in Cameras, ReconStart(c) PROVE FewProviders'
<1>1. /\ recon[c].pc = "start" /\ recon \in [Cameras -> Recons] /\ monitor \in Monitors
      /\ UNCHANGED <<main, edits, editor, monitor, focus>>
      /\ ProvidersOf(provider) /\ HandOver(monitor, recon, provider, c)
  BY DEF ReconStart, DesktopInv, DesktopTypes
<1>2. main' /= "new"
  BY <1>1 DEF DesktopInv, Fresh
<1>3. c \in Owed(recon) /\ Owed(recon') = Owed(recon) \ {c}
  BY <1>1 DEF ReconStart, Owed, Recons
<1>4. Cardinality(Owed(recon')) = Cardinality(Owed(recon)) - 1
  BY <1>3, OwingIs, CameraCount
<1>5. /\ Cardinality(Owed(recon)) \in Nat /\ Cardinality(Dirty(editor)) \in Nat /\ edits \in Nat
  BY OwingIs DEF DesktopInv, DesktopTypes
<1>6. DOMAIN provider \subseteq DOMAIN provider' /\ Cardinality(Made') <= Cardinality(Made) + 1
      /\ Cardinality(Made) \in Nat /\ Cardinality(Made') \in Nat
  <2>1. Cardinality(Made) \in Nat /\ IsFiniteSet(Made)
    BY <1>1, ProvidersAre, FS_Interval DEF Made
  <2>2. CASE UNCHANGED provider
    BY <2>1, <2>2 DEF Made
  <2>3. CASE recon[c].slot.on /\ provider' = With(NewProvider, NewFrameProvider(c, recon[c].slot, "runs"))
    <3> DEFINE r == NewFrameProvider(c, recon[c].slot, "runs")
    <3>1. recon[c].slot \in Slots
      BY <1>1 DEF HandOver, Busy, Monitors
    <3>2. r \in FrameProviders
      BY <3>1 DEF NewFrameProvider, FrameProviders
    <3>3. provider' = With(NewProvider, r)
      BY <2>3
    <3> HIDE DEF r
    <3>4. NewProvider \notin Made /\ DOMAIN provider' = Made \cup {NewProvider}
      BY <1>1, <3>2, <3>3, WithIs
    <3>5. Cardinality(Made') = Cardinality(Made) + 1
      BY <2>1, <3>4, FS_AddElement DEF Made
    <3> QED
      BY <2>1, <3>4, <3>5 DEF Made
  <2> QED
    BY <2>2, <2>3 DEF ReconStart
<1>7. Cardinality(Made') + Owing(recon', editor') + 2 * edits
        <= Cardinality(Made) + Owing(recon, editor) + 2 * edits'
  BY <1>1, <1>4, <1>5, <1>6 DEF Owing
<1> QED
  BY <1>1, <1>2, <1>6, <1>7, FewKept

LEMMA PollFew ==
  ASSUME DesktopInv, DesktopInv', FewProviders, NEW c \in Cameras, PollCamera(c) PROVE FewProviders'
<1>1. main' /= "new" /\ UNCHANGED <<edits, editor, recon, provider, focus>>
  BY DEF PollCamera
<1> QED
  BY <1>1, FewSame

LEMMA CleanupFew ==
  ASSUME DesktopInv, DesktopInv', FewProviders, NEW c \in Cameras, Cleanup(c) PROVE FewProviders'
<1>1. main' /= "new" /\ UNCHANGED <<edits, editor, monitor, provider, focus>>
      /\ recon' = [recon EXCEPT ![c] = NoRecon] /\ NoRecon.pc = "none"
  BY DEF Cleanup, NoRecon
<1>2. Owed(recon') \subseteq Owed(recon)
  BY <1>1 DEF Owed, DesktopInv, DesktopTypes
<1> QED
  BY <1>1, <1>2, FewSame

LEMMA CompletedFew ==
  ASSUME DesktopInv, DesktopInv', FewProviders, NEW c \in Cameras, Completed(c) PROVE FewProviders'
<1>1. /\ main' /= "new" /\ UNCHANGED <<edits, provider>> /\ Rebind(c, Install(c)) /\ monitor' = Install(c)
      /\ recon' = [recon EXCEPT ![c].pc = "cleanup"] /\ recon \in [Cameras -> Recons]
      /\ editor \in [Cameras -> Editors]
  BY DEF Completed, DesktopInv, DesktopTypes
<1>2. Owed(recon') \subseteq Owed(recon)
  BY <1>1 DEF Owed, Recons
<1>3. Dirty(editor') \subseteq Dirty(editor)
  <2> DEFINE again == ~recon[c].failed /\ editor[c].pending /= Absent
             savedIf(written) == IF again /\ written THEN editor[c].pending ELSE editor[c].saved
             card == IF again \/ recon[c].failed THEN editor[c].card ELSE Absent
  <2>0. PICK written \in BOOLEAN :
          editor' = IF frontend = "qt"
                      THEN [editor EXCEPT ![c].applying = Absent, ![c].saved = savedIf(written), ![c].card = card]
                      ELSE editor
    BY <1>1 DEF Completed
  <2> DEFINE saved == savedIf(written)
  <2>1. editor' = IF frontend = "qt"
                    THEN [editor EXCEPT ![c].applying = Absent, ![c].saved = saved, ![c].card = card]
                    ELSE editor
    BY <2>0
  <2>2. card \in {editor[c].card, Absent}
    OBVIOUS
  <2> HIDE DEF saved, savedIf, card
  <2> QED
    BY <1>1, <2>1, <2>2 DEF Dirty, Editors
<1>4. {focus'.person, focus'.face} \subseteq
            {focus.person, focus.face, Absent} \cup {monitor'.providers[d] : d \in Cameras}
  <2>1. CASE frontend = "qt" /\ focus.camera = c
    <3>1. focus' = Bind(c, monitor') /\ c \in OrAbsent(Cameras) /\ monitor' \in Monitors /\ focus \in Foci
      BY <1>1, <2>1 DEF Rebind, OrAbsent, DesktopInv, DesktopTypes
    <3>2. c /= Absent
      BY DesktopAssumption
    <3> QED
      BY <3>1, <3>2, BindIs
  <2>2. CASE ~(frontend = "qt" /\ focus.camera = c)
    BY <1>1, <2>2 DEF Rebind
  <2> QED
    BY <2>1, <2>2
<1> QED
  BY <1>1, <1>2, <1>3, <1>4, FewSame

LEMMA LateCompletionFew ==
  ASSUME DesktopInv, DesktopInv', FewProviders, NEW c \in Cameras, LateCompletion(c) PROVE FewProviders'
<1>1. /\ main' /= "new" /\ UNCHANGED <<edits, editor, monitor, focus>> /\ recon \in [Cameras -> Recons]
      /\ recon' = [recon EXCEPT ![c].pc = "cleanup", ![c].new = Absent]
      /\ DOMAIN provider' = DOMAIN provider
  BY DEF LateCompletion, StopOne, DesktopInv, DesktopTypes
<1>2. Owed(recon') \subseteq Owed(recon)
  BY <1>1 DEF Owed, Recons
<1> QED
  BY <1>1, <1>2, FewSame

\* The focus is bound to c, or to no camera.
LEMMA FocusFew ==
  ASSUME DesktopInv, DesktopInv', FewProviders, NEW c \in OrAbsent(Cameras), main = "loop",
         focus' = Bind(c, monitor),
         UNCHANGED <<frontend, shell, main, edits, editor, monitor, recon, provider>>
  PROVE  FewProviders'
<1>1. {focus'.person, focus'.face} \subseteq {Absent} \cup {monitor.providers[d] : d \in Cameras}
  BY DEF Bind, OrAbsent, DesktopInv, DesktopTypes, Foci
<1> QED
  BY <1>1, FewSame

\* An edit e that owes no more than the edits paid for.
LEMMA EditFew ==
  ASSUME DesktopInv, DesktopInv', FewProviders, NEW e, main' /= "new",
         editor' = e.editor, recon' = e.recon, DOMAIN provider' = DOMAIN provider,
         edits' \in Nat, NEW n \in Nat, edits' = edits + n,
         {focus'.person, focus'.face} \subseteq
            {focus.person, focus.face, Absent} \cup {monitor'.providers[c] : c \in Cameras},
         Owing(e.recon, e.editor) <= Owing(recon, editor) + 2 * n
  PROVE  FewProviders'
<1>1. /\ edits \in Nat /\ Cardinality(Made) \in Nat /\ Made' = Made
      /\ Owing(recon, editor) \in Nat /\ Owing(e.recon, e.editor) \in Nat
  BY OwingIs DEF DesktopInv, DesktopTypes, ProvidersOf, Made
<1>2. Cardinality(Made') + Owing(recon', editor') + 2 * edits
        <= Cardinality(Made) + Owing(recon, editor) + 2 * edits'
  BY <1>1
<1> QED
  BY <1>2, FewKept

LEMMA PanelEditFew ==
  ASSUME DesktopInv, DesktopInv', FewProviders, NEW c \in Cameras, PanelEdit(c) PROVE FewProviders'
<1>1. PICK on \in BOOLEAN, written \in BOOLEAN :
        LET draft == [edit |-> edits', on |-> on]
        IN Becomes(TryApply([Editing EXCEPT !.editor[c].card = draft], c, draft, written))
  BY DEF PanelEdit
<1> DEFINE draft == [edit |-> edits', on |-> on]
           x == [editor[c] EXCEPT !.card = draft]
           e2 == [Editing EXCEPT !.editor[c] = x]
<1>2. draft \in Slots /\ edits' \in 0 .. MaxEdits
  BY DraftIs DEF PanelEdit, Edits, UserActs
<1>3. /\ main = "loop" /\ UNCHANGED <<frontend, shell, main, provider, focus>> /\ edits' = edits + 1
      /\ editor \in [Cameras -> Editors] /\ edits \in Nat
  BY DEF PanelEdit, Edits, UserActs, DesktopInv, DesktopTypes
<1>4. [Editing EXCEPT !.editor[c].card = draft] = e2
  BY DEF Editing
<1> HIDE DEF draft
<1>5. x \in Editors
  BY <1>2, <1>3 DEF Editors, OrAbsent
<1> HIDE DEF x
<1>6. Edit(e2) /\ EditOK(e2) /\ e2.editor = [editor EXCEPT ![c] = x] /\ e2.recon = recon
  <2>1. /\ Edit(Editing) /\ EditOK(Editing) /\ Editing.editor = editor /\ Editing.recon = recon
    BY <1>3, EditingIs
  <2>2. /\ Edit(e2) /\ EditOK(e2) /\ e2.editor = [Editing.editor EXCEPT ![c] = x]
        /\ e2.recon = Editing.recon
    BY <1>5, <2>1, EditorKeeps
  <2> QED
    BY <2>1, <2>2
<1> HIDE DEF e2
<1> DEFINE e3 == TryApply(e2, c, draft, written)
<1>7. Owing(e3.recon, e3.editor) <= Owing(e2.recon, e2.editor) + 1
  BY <1>2, <1>6, TryApplyOwes, OneMoreOwes
<1>8. Becomes(e3)
  BY <1>1, <1>4 DEF draft
<1> HIDE DEF e3
<1>9. Owing(e2.recon, e2.editor) <= Owing(recon, editor) + 1
  <2>1. Dirty(e2.editor) \subseteq Dirty(editor) \cup {c}
    BY <1>3, <1>6 DEF Dirty
  <2>2. Dirty(editor) \in SUBSET Cameras /\ Dirty(editor) \cup {c} \in SUBSET Cameras
    BY OwingIs
  <2>3. Cardinality(Dirty(e2.editor)) <= Cardinality(Dirty(editor) \cup {c})
        /\ Cardinality(Dirty(editor) \cup {c}) <= Cardinality(Dirty(editor)) + 1
        /\ Cardinality(Dirty(editor) \cup {c}) \in Nat
    BY <2>1, <2>2, CameraCount
  <2>4. /\ Cardinality(Dirty(e2.editor)) \in Nat /\ Cardinality(Dirty(editor)) \in Nat
        /\ Cardinality(Owed(recon)) \in Nat
    BY OwingIs
  <2> QED
    BY <1>6, <2>3, <2>4 DEF Owing
<1>10. Owing(e3.recon, e3.editor) <= Owing(recon, editor) + 2 * 1
  <2>1. Owing(e3.recon, e3.editor) \in Nat /\ Owing(e2.recon, e2.editor) \in Nat /\ Owing(recon, editor) \in Nat
    BY OwingIs
  <2> QED
    BY <1>7, <1>9, <2>1
<1>11. editor' = e3.editor /\ recon' = e3.recon
  BY <1>8 DEF Becomes
<1>12. edits' \in Nat /\ 1 \in Nat /\ DOMAIN provider' = DOMAIN provider /\ main' /= "new"
       /\ {focus'.person, focus'.face} \subseteq
            {focus.person, focus.face, Absent} \cup {monitor'.providers[d] : d \in Cameras}
  BY <1>2, <1>3
<1> QED
  BY <1>3, <1>10, <1>11, <1>12, EditFew

LEMMA CommandEditFew ==
  ASSUME DesktopInv, DesktopInv', FewProviders, NEW c \in Cameras, CommandEdit(c) PROVE FewProviders'
<1>1. PICK on \in BOOLEAN, written \in BOOLEAN :
        Becomes(SaveCamera(Editing, c, [edit |-> edits', on |-> on], written))
  BY DEF CommandEdit
<1> DEFINE draft == [edit |-> edits', on |-> on]
<1>2. draft \in Slots /\ edits' \in 0 .. MaxEdits
  BY DraftIs DEF CommandEdit, Edits, UserActs
<1>3. /\ main = "loop" /\ UNCHANGED <<frontend, shell, main, provider, focus>> /\ edits' = edits + 1
      /\ edits \in Nat
  BY DEF CommandEdit, Edits, UserActs, DesktopInv, DesktopTypes
<1>4. Edit(Editing) /\ EditOK(Editing) /\ Editing.editor = editor /\ Editing.recon = recon
  BY <1>3, EditingIs
<1> DEFINE e3 == SaveCamera(Editing, c, draft, written)
<1>5. Becomes(e3)
  BY <1>1
<1> HIDE DEF draft
<1>6. Owing(e3.recon, e3.editor) <= Owing(Editing.recon, Editing.editor) + 1
  BY <1>2, <1>4, SaveCameraOwes, OneMoreOwes
<1> HIDE DEF e3
<1>7. Owing(e3.recon, e3.editor) <= Owing(recon, editor) + 2 * 1
  <2>1. Owing(e3.recon, e3.editor) \in Nat /\ Owing(recon, editor) \in Nat
    BY OwingIs
  <2> QED
    BY <1>4, <1>6, <2>1
<1>8. editor' = e3.editor /\ recon' = e3.recon
  BY <1>5 DEF Becomes
<1>9. edits' \in Nat /\ 1 \in Nat /\ DOMAIN provider' = DOMAIN provider /\ main' /= "new"
      /\ {focus'.person, focus'.face} \subseteq
            {focus.person, focus.face, Absent} \cup {monitor'.providers[d] : d \in Cameras}
  BY <1>2, <1>3
<1> QED
  BY <1>3, <1>7, <1>8, <1>9, EditFew

\* What the panel flushed owes no more, nor does what it left alone.
LEMMA FlushedFew ==
  ASSUME DesktopInv, DesktopInv', FewProviders, main = "loop", main' /= "new", edits' = edits,
         DOMAIN provider' = DOMAIN provider, NEW e \in FlushPending(Editing) \cup {Editing},
         editor' = e.editor, recon' = e.recon,
         {focus'.person, focus'.face} \subseteq
            {focus.person, focus.face, Absent} \cup {monitor'.providers[c] : c \in Cameras}
  PROVE  FewProviders'
<1>1. /\ Edit(Editing) /\ EditOK(Editing) /\ Editing.editor = editor /\ Editing.recon = recon
      /\ ProvidersOf(provider) /\ focus \in Foci /\ edits \in Nat
  BY EditingIs DEF DesktopInv, DesktopTypes
<1>2. Owing(e.recon, e.editor) \in Nat /\ Owing(recon, editor) \in Nat
  BY OwingIs
<1>3. Owing(e.recon, e.editor) <= Owing(recon, editor)
  <2>1. CASE e = Editing
    BY <1>1, <1>2, <2>1
  <2>2. CASE e \in FlushPending(Editing)
    BY <1>1, <2>2, FlushOwes
  <2> QED
    BY <2>1, <2>2
<1>4. Owing(e.recon, e.editor) <= Owing(recon, editor) + 2 * 0 /\ edits' = edits + 0 /\ edits' \in Nat /\ 0 \in Nat
  BY <1>1, <1>2, <1>3
<1> QED
  BY <1>4, EditFew

LEMMA ShowFocusFew ==
  ASSUME DesktopInv, DesktopInv', FewProviders, NEW c \in Cameras, ShowFocus(c) PROVE FewProviders'
<1>1. main = "loop" /\ UNCHANGED <<frontend, shell, main, edits, provider>>
  BY DEF ShowFocus, UserActs
<1>2. PICK e \in FlushPending(Editing) \cup {Editing} :
        Becomes(e) /\ focus' = [Bind(c, e.monitor) EXCEPT !.panel = c]
  BY DEF ShowFocus
<1>3. e.monitor = monitor' /\ editor' = e.editor /\ recon' = e.recon
  BY <1>2 DEF Becomes
<1> DEFINE b == Bind(c, monitor')
<1>4. b \in Foci /\ b.person = monitor'.providers[c] /\ b.face = monitor'.providers[c]
  <2>1. focus \in Foci /\ monitor' \in Monitors /\ c \in OrAbsent(Cameras) /\ c /= Absent
    BY DesktopAssumption DEF DesktopInv, DesktopTypes, OrAbsent
  <2> QED
    BY <2>1, BindIs
<1>5. focus' = [b EXCEPT !.panel = c]
  BY <1>2, <1>3
<1> HIDE DEF b
<1>6. {focus'.person, focus'.face} \subseteq
            {focus.person, focus.face, Absent} \cup {monitor'.providers[d] : d \in Cameras}
  BY <1>4, <1>5 DEF Foci
<1>7. main' /= "new" /\ edits' = edits /\ DOMAIN provider' = DOMAIN provider
  BY <1>1
<1> QED
  BY <1>1, <1>2, <1>3, <1>6, <1>7, FlushedFew

LEMMA CloseWindowFew ==
  ASSUME DesktopInv, DesktopInv', FewProviders, CloseWindow PROVE FewProviders'
<1>1. main = "loop" /\ main' /= "new" /\ edits' = edits /\ focus' = focus
  BY DEF CloseWindow
<1>2. DOMAIN provider' = DOMAIN provider
  BY DEF CloseWindow, StopMonitor, Made
<1>3. PICK e \in FlushPending(Editing) : editor' = e.editor /\ recon' = e.recon
  BY DEF CloseWindow
<1> QED
  BY <1>1, <1>2, <1>3, FlushedFew

LEMMA StopFew ==
  ASSUME DesktopInv, DesktopInv', FewProviders, ShutdownBridge \/ BrokenEmit PROVE FewProviders'
<1>1. main' /= "new" /\ UNCHANGED <<edits, editor, recon, focus>> /\ StopMonitor(monitor)
  BY DEF ShutdownBridge, BrokenEmit
<1>2. DOMAIN provider' = DOMAIN provider
  BY <1>1 DEF StopMonitor, Made
<1> QED
  BY <1>1, <1>2, FewSame

LEMMA ShellLeavesFew ==
  ASSUME DesktopInv, DesktopInv', FewProviders, ShellLeaves PROVE FewProviders'
<1>1. main' /= "new" /\ UNCHANGED <<edits, editor, monitor, recon, provider, focus>>
  BY DEF ShellLeaves
<1> QED
  BY <1>1, FewSame

\* The process takes its providers and threads with it; no more cards are
\* dirty than there are cameras.
LEMMA QuitFew ==
  ASSUME DesktopInv, Quit PROVE FewProviders'
<1>1. /\ main' = "quit" /\ edits' = edits /\ Made' = {} /\ focus' = NoFocus
      /\ recon' = [c \in Cameras |-> NoRecon] /\ NoRecon.pc = "none"
  BY DEF Quit, Made, NoRecon
<1>2. Owed(recon') = {}
  BY <1>1 DEF Owed
<1>3. Cardinality(Made') = 0 /\ Cardinality(Owed(recon')) = 0
  BY <1>1, <1>2, FS_EmptySet
<1>4. Cardinality(Dirty(editor')) \in Nat /\ Cardinality(Dirty(editor')) <= Cardinality(Cameras)
  <2>1. Dirty(editor') \in SUBSET Cameras
    BY DEF Dirty
  <2> QED
    BY <2>1, CameraCount
<1>5. edits \in Nat
  BY DEF DesktopInv, DesktopTypes
<1>6. Cardinality(Made') + Owing(recon', editor') <= Cardinality(Cameras) + 2 * edits'
  BY <1>1, <1>3, <1>4, <1>5, CamerasFinite DEF Owing
<1>7. {focus'.person, focus'.face} \subseteq OrAbsent(Made')
  BY <1>1 DEF NoFocus, OrAbsent
<1> QED
  BY <1>1, <1>6, <1>7 DEF FewProviders

LEMMA DesktopNextFew ==
  ASSUME DesktopInv, DesktopInv', FewProviders, DesktopNext PROVE FewProviders'
<1>1. CASE StartMonitor
  BY <1>1, StartMonitorFew
<1>2. CASE CloseWindow \/ ShutdownBridge \/ BrokenEmit \/ Quit \/ ShellLeaves
  BY <1>2, CloseWindowFew, StopFew, QuitFew, ShellLeavesFew
<1>3. CASE ShowGrid
  BY <1>3, FocusFew DEF ShowGrid, UserActs, OrAbsent
<1>4. ASSUME NEW c \in Cameras \cup {Absent}, CommandFocus(c) PROVE FewProviders'
  BY <1>4, FocusFew DEF CommandFocus, UserActs, OrAbsent
<1>5. ASSUME NEW c \in Cameras, Completed(c) \/ Cleanup(c) \/ LateCompletion(c) PROVE FewProviders'
  BY <1>5, CompletedFew, CleanupFew, LateCompletionFew
<1>6. ASSUME NEW c \in Cameras, ReconThread(c) \/ PollCamera(c) PROVE FewProviders'
  BY <1>6, ReconStopFew, ReconStartFew, PollFew DEF ReconThread
<1>7. ASSUME NEW c \in Cameras, PanelEdit(c) \/ CommandEdit(c) \/ ShowFocus(c) PROVE FewProviders'
  BY <1>7, PanelEditFew, CommandEditFew, ShowFocusFew
<1>8. ASSUME NEW p \in Made, WorkerEnds(p) PROVE FewProviders'
  BY <1>8, WorkerEndsFew
<1> QED
  BY <1>1, <1>2, <1>3, <1>4, <1>5, <1>6, <1>7, <1>8 DEF DesktopNext, MainThread, Leaves

LEMMA DesktopStartsFew == ASSUME DesktopInit PROVE FewProviders
<1>1. /\ focus.person = Absent /\ focus.face = Absent /\ edits = 0 /\ Made = {}
      /\ \A c \in Cameras : recon[c].pc = "none" /\ editor[c].card = Absent
  BY DEF DesktopInit, Made, NoRecon, NoFocus
<1>2. Owed(recon) = {} /\ Dirty(editor) = {}
  BY <1>1 DEF Owed, Dirty
<1>3. Cardinality(Made) + Owing(recon, editor) = 0
  BY <1>1, <1>2, FS_EmptySet DEF Owing
<1> QED
  BY <1>1, <1>2, <1>3, CamerasFinite DEF FewProviders, OrAbsent

LEMMA DesktopInvTyped == ASSUME DesktopInv, FewProviders PROVE DesktopTypeOK
<1>1. Made \subseteq Providers
  <2>1. /\ Made = 1 .. Cardinality(Made) /\ Cardinality(Made) \in Nat /\ Owing(recon, editor) \in Nat
        /\ edits \in 0 .. MaxEdits /\ Cardinality(Cameras) \in Nat
    BY ProvidersAre, OwingIs, CamerasFinite DEF DesktopInv, DesktopTypes, Made
  <2>2. Cardinality(Made) <= Cardinality(Cameras) + 2 * MaxEdits
    BY <2>1, DesktopAssumption DEF FewProviders
  <2> QED
    BY <2>1, <2>2, DesktopAssumption DEF Providers
<1>2. monitor.providers \in [Cameras -> Made \cup {Absent}]
  <2>1. \A c \in Cameras : monitor.providers[c] \in Made \cup {Absent}
    BY DEF DesktopInv, HandOver, IsFor, Made
  <2> QED
    BY <2>1 DEF DesktopInv, DesktopTypes, Monitors
<1>3. focus.person \in Made \cup {Absent} /\ focus.face \in Made \cup {Absent}
  BY DEF FewProviders, OrAbsent
<1> QED
  BY <1>1, <1>2, <1>3 DEF DesktopTypeOK, DesktopInv, DesktopTypes, Editors, OrAbsent

-----------------------------------------------------------------------------
(* The application.                                                        *)

AppInv ==
    /\ DesktopInv /\ FewProviders
    /\ InferenceInv /\ PipesBounded
    /\ StoreInv

LEMMA AppStarts == AppInit => AppInv
<1> SUFFICES ASSUME AppInit PROVE AppInv
  OBVIOUS
<1>1. DesktopInit /\ InferenceInit /\ StoreInit
  BY DEF AppInit
<1>2. DesktopInv /\ FewProviders
  BY <1>1, DesktopStarts, DesktopStartsFew
<1>3. InferenceInv /\ PipesBounded
  BY <1>1, InferenceStarts, InferenceStartsBounded
<1>4. StoreInv
  BY <1>1, StoreStarts
<1> QED
  BY <1>2, <1>3, <1>4 DEF AppInv

LEMMA AppNextKeeps == AppInv /\ [AppNext]_appVars => AppInv'
<1> SUFFICES ASSUME AppInv, [AppNext]_appVars PROVE AppInv'
  OBVIOUS
<1>1. [DesktopNext]_desktopVars /\ [InferenceNext]_infVars /\ [StoreNext]_storeVars
  BY DEF AppNext, appVars
<1>2. DesktopInv'
  BY <1>1, DesktopNextKeeps, DesktopStutters DEF AppInv
<1>3. FewProviders'
  <2>1. CASE DesktopNext
    BY <1>2, <2>1, DesktopNextFew DEF AppInv
  <2>2. CASE UNCHANGED desktopVars
    BY <2>2 DEF AppInv, FewProviders, Made, desktopVars
  <2> QED
    BY <1>1, <2>1, <2>2
<1>4. InferenceInv'
  BY <1>1, InferenceNextKeeps, InferenceStutters DEF AppInv
<1>5. PipesBounded'
  BY <1>1, InferenceNextBounded DEF AppInv
<1>6. StoreInv'
  BY <1>1, StoreNextKeeps DEF AppInv
<1> QED
  BY <1>2, <1>3, <1>4, <1>5, <1>6 DEF AppInv

\* The application keeps the invariants of its three parts.
THEOREM AppAgrees == AppSpec => []AppInv
BY AppStarts, AppNextKeeps, PTL DEF AppSpec

\* The variables of every part keep their types and bounds: an edit costs at
\* most two providers and a change of camera at most two pipelines.
THEOREM AppTyped == AppSpec => []AppTypeOK
<1>1. AppInv => AppTypeOK
  BY DesktopInvTyped, InferenceInvTyped, StoreInvTyped DEF AppInv, AppTypeOK
<1> QED
  BY <1>1, AppAgrees, PTL

=============================================================================
