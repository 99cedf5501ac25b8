----------------------------- MODULE CameraStore -----------------------------
(***************************************************************************)
(* CameraConfigRepository (app_windows/config/persistence.py) and the      *)
(* credential store beside it (credentials.py), with the validation of a   *)
(* camera draft (camera_config.py) that feeds them.                        *)
(*                                                                         *)
(* Two files: config.local.yaml, seeded from the tracked example the first *)
(* time, and the sidecar with the passwords.  Both are written to a        *)
(* temporary file that replaces the old one.  Every step can fail, and the *)
(* process can end between any two.  A section is a camera's mapping or    *)
(* another part of the document; its content is [rev, url, password], the  *)
(* save that wrote it, whether it has a stream address and the password    *)
(* that the address contains.                                              *)
(*                                                                         *)
(* The editor is the Qt panel, whose card of a camera remembers the        *)
(* password it was made with, or the bridge, which looks the password up   *)
(* for every draft, in the sidecar alone.  The slots that cards are made   *)
(* from have the addresses of the document.                                *)
(***************************************************************************)
EXTENDS Integers, FiniteSets

CONSTANTS
    StoreCameras,   \* camera ids
    Detection, FaceAnalysis, Gallery,   \* the sections of the detectors and of the gallery
    Passwords,
    Missing,        \* Python's None, and a file that is not there
    MaxSaves        \* bound: saves begun

ASSUME StoreAssumption == Missing \notin Passwords /\ MaxSaves \in Nat

VARIABLES
    local,    \* config.local.yaml, or Missing
    sidecar,  \* of each camera the stored password; the file is there if one is
    cards,    \* of each camera the password its card was made with; Missing: the bridge runs
    save,     \* the save that is running
    saves     \* number of saves begun

storeVars == <<local, sidecar, cards, save, saves>>

OtherSections == {Detection, FaceAnalysis, Gallery}
Sections == StoreCameras \cup OtherSections
Contents == [rev : 0 .. MaxSaves, url : BOOLEAN, password : Passwords \cup {Missing}]

\* None is no document, no set of cards and no save.
ASSUME MissingAssumption ==
    /\ Missing \notin [Sections -> Contents]
    /\ Missing \notin [StoreCameras -> Passwords \cup {Missing}]
    /\ Missing \notin [camera : StoreCameras, old : Passwords \cup {Missing}, changes : BOOLEAN]

\* config.example.yaml.
Example == [s \in Sections |-> [rev |-> 0, url |-> FALSE, password |-> Missing]]
Stored  == IF local = Missing THEN Example ELSE local

\* The stored password of a camera, else the one in its address.
Existing(c) == IF sidecar[c] /= Missing THEN sidecar[c] ELSE Stored[c].password

\* draft_from_slot makes the cards; the bridge has none.
CardSets == {Missing, [c \in StoreCameras |-> Existing(c)]}

\* given says that the user typed a password or cleared it, knows that the
\* editor had the camera's present one.
Idle == [pc |-> "idle", section |-> Missing, doc |-> Missing, put |-> FALSE,
         password |-> Missing, old |-> Missing, given |-> FALSE, knows |-> TRUE]

\* A hand-written document may have passwords in its addresses.
StoreInit ==
    /\ \/ local = Missing
       \/ \E p \in [StoreCameras -> Passwords \cup {Missing}] :
            local = [s \in Sections |-> [rev |-> 0, url |-> s \in StoreCameras,
                                         password |-> IF s \in StoreCameras THEN p[s] ELSE Missing]]
    /\ sidecar \in [StoreCameras -> Passwords \cup {Missing}]
    /\ cards \in CardSets
    /\ save = Idle
    /\ saves = 0

-----------------------------------------------------------------------------
(* Drafts.                                                                 *)

Drafts == [host : BOOLEAN, user : BOOLEAN, enabled : BOOLEAN, clear : BOOLEAN,
           typed : Passwords \cup {Missing}]

\* The password a draft comes with: the card's, or what _draft_from_data
\* reads.
EditorPassword(c) == IF cards = Missing THEN sidecar[c] ELSE cards[c]

\* The card is made when its camera is shown, and set anew when an edit has
\* been applied.
SetInitialDraft ==
    /\ save = Idle /\ cards /= Missing
    /\ \E c \in StoreCameras : cards' = [cards EXCEPT ![c] = Existing(c)]
    /\ UNCHANGED <<local, sidecar, save, saves>>

\* validate_camera_draft: the password that the draft leaves the camera
\* with, when it is valid.
DraftPassword(c, d) == IF d.clear \/ ~d.host THEN Missing
                       ELSE IF d.typed /= Missing THEN d.typed ELSE EditorPassword(c)

ValidDraft(c, d) == IF d.host THEN d.user \/ DraftPassword(c, d) = Missing ELSE ~d.enabled /\ ~d.user

BugUpdatesPassword(c, d) == d.clear \/ d.typed /= Missing

\* credential_update_required, which asks for the password the draft comes
\* with as well: it may be known from the address alone.
UpdatesPassword(c, d) == d.clear \/ DraftPassword(c, d) /= Missing

-----------------------------------------------------------------------------
(* save() and its siblings.                                                *)

\* Where the document is read: the target, which is config.local.yaml when
\* the caller still names the example, if it is there already.
Source(current) == Stored

\* save() of one camera: the document is read and its entry updated; the
\* address is written without a password.
SaveCameraDraft(c, d) ==
    /\ save = Idle /\ saves < MaxSaves
    /\ ValidDraft(c, d)
    /\ saves' = saves + 1
    /\ \E current \in {"example", "local"} :
         save' = [ pc       |-> IF UpdatesPassword(c, d) THEN "secrets" ELSE "yaml",
                   section  |-> c,
                   doc      |-> [Source(current) EXCEPT ![c] =
                                   [rev |-> saves + 1, url |-> d.host, password |-> Missing]],
                   put      |-> UpdatesPassword(c, d),
                   password |-> DraftPassword(c, d),
                   old      |-> sidecar[c],
                   given    |-> d.clear \/ d.typed /= Missing,
                   knows    |-> EditorPassword(c) = Existing(c) ]
    /\ UNCHANGED <<local, sidecar, cards>>

\* One section of the document, no password.
SaveSection(s) ==
    /\ save = Idle /\ saves < MaxSaves
    /\ saves' = saves + 1
    /\ \E current \in {"example", "local"} :
         save' = [Idle EXCEPT !.pc = "yaml", !.section = s,
                    !.doc = [Source(current) EXCEPT ![s] =
                               [rev |-> saves + 1, url |-> FALSE, password |-> Missing]]]
    /\ UNCHANGED <<local, sidecar, cards>>

SavePersonDetection == SaveSection(Detection)
SaveFaceAnalysis == SaveSection(FaceAnalysis)
SaveFaceGalleryRoot == SaveSection(Gallery)

\* At every start, while the file names no model or an ONNX one.
MigratePersonDetection == SaveSection(Detection)

\* _atomic_write_text of the sidecar: the temporary file, then the
\* replacement (or the removal of an empty sidecar); a failure raises before
\* anything changed.
WriteSecrets ==
    /\ save.pc = "secrets"
    /\ save' \in {[save EXCEPT !.pc = "replace_secrets"], Idle}
    /\ UNCHANGED <<local, sidecar, cards, saves>>

ReplaceSecrets ==
    /\ save.pc = "replace_secrets"
    /\ \/ /\ sidecar' = [sidecar EXCEPT ![save.section] = save.password]
          /\ save' = [save EXCEPT !.pc = "yaml"]
       \/ /\ save' = Idle
          /\ UNCHANGED sidecar
    /\ UNCHANGED <<local, cards, saves>>

\* _atomic_write_yaml; a failure rolls the password back.
Fail == IF save.put THEN [save EXCEPT !.pc = "rollback"] ELSE Idle

WriteYaml ==
    /\ save.pc = "yaml"
    /\ save' \in {[save EXCEPT !.pc = "replace_yaml"], Fail}
    /\ UNCHANGED <<local, sidecar, cards, saves>>

ReplaceYaml ==
    /\ save.pc = "replace_yaml"
    /\ \/ /\ local' = save.doc
          /\ save' = Idle
       \/ /\ save' = Fail
          /\ UNCHANGED local
    /\ UNCHANGED <<sidecar, cards, saves>>

\* The rollback may fail as well, and nobody is told.
Rollback ==
    /\ save.pc = "rollback"
    /\ \/ sidecar' = [sidecar EXCEPT ![save.section] = save.old]
       \/ UNCHANGED sidecar
    /\ save' = Idle
    /\ UNCHANGED <<local, cards, saves>>

\* The process ends, whatever it does, and the application is started again
\* with either front end; the files are what they are.
Interrupted ==
    /\ cards' \in CardSets
    /\ save' = Idle
    /\ UNCHANGED <<local, sidecar, saves>>

StoreNext ==
    \/ \E c \in StoreCameras, d \in Drafts : SaveCameraDraft(c, d)
    \/ SavePersonDetection \/ SaveFaceAnalysis \/ SaveFaceGalleryRoot \/ MigratePersonDetection
    \/ SetInitialDraft
    \/ WriteSecrets \/ ReplaceSecrets \/ WriteYaml \/ ReplaceYaml \/ Rollback
    \/ Interrupted

StoreSpec == StoreInit /\ [][StoreNext]_storeVars

-----------------------------------------------------------------------------
(* Properties.                                                             *)

\* Passwords, documents and cards, and the phases of a save: only one that
\* changed the sidecar writes it or takes it back.
StoreTypeOK ==
    /\ local \in [Sections -> Contents] \cup {Missing}
    /\ sidecar \in [StoreCameras -> Passwords \cup {Missing}]
    /\ cards \in [StoreCameras -> Passwords \cup {Missing}] \cup {Missing}
    /\ saves \in 0 .. MaxSaves
    /\ save.pc \in {"secrets", "replace_secrets", "rollback"} => save.put /\ save.section \in StoreCameras

\* The save may leave its camera with another password.
Changes == save.given \/ ~save.knows

\* The password is stored or known to change, and the document is not yet
\* replaced.
HalfWay == (save.put \/ Changes) /\ save.pc \in {"yaml", "replace_yaml", "rollback"}

Promise == INSTANCE StorePromise
             WITH doc      <- Stored,
                  secret   <- sidecar,
                  underway <- IF HalfWay THEN [camera |-> save.section, old |-> save.old, changes |-> Changes]
                              ELSE Missing

\* Failures and crashes included, the two files do what StorePromise says: a
\* save replaces one section and no other, the password goes first, and a
\* camera keeps its password on the way from an address to the sidecar
\* unless the user gave or cleared one or the editor did not know it
\* (CameraConfigRepository.save, DpapiCredentialStore.apply).
StoreKeepsPromise == Promise!PromiseSpec

\* "Il campo vuoto conserva la password esistente" (app_windows/README.md):
\* while the user gives no password and the address stays, no step of a save
\* changes what the camera's password is.  It does not hold: the bridge does
\* not see the password of an address (_draft_from_data), and a card that
\* is not yet set anew brings an older one back.
EmptyFieldKeepsPassword ==
    [][ \A c \in StoreCameras :
          save.section = c /\ ~save.given /\ save.doc[c].url => Existing(c)' = Existing(c) ]_storeVars

=============================================================================
