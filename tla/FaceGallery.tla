----------------------------- MODULE FaceGallery -----------------------------
(***************************************************************************)
(* The face gallery: PersonStore (app/face/storage.py) keeps each enrolled *)
(* person in a directory with two files, EnrollmentService and its batch   *)
(* import (enrollment.py) fill it, FaceMatcher (matcher.py) holds a        *)
(* snapshot of it, and FaceRecognitionController shows it.                 *)
(*                                                                         *)
(* The main thread enrols, imports, removes and refreshes; the face thread *)
(* builds a matcher and refreshes it once.  A file is written to a         *)
(* temporary one that replaces it; every write, unlink and rmdir can fail  *)
(* and the process can end between any two.  The store is the one of a     *)
(* single recognizer: another one has a directory of its own.              *)
(*                                                                         *)
(* A person's content is [name, emb], a display name ("id", or one the     *)
(* user typed) and a set of embeddings; metadata.json holds the name and   *)
(* the number of embeddings, embeddings.npz the embeddings.                *)
(***************************************************************************)
EXTENDS Integers, FiniteSets

CONSTANTS
    Persons,        \* person ids
    Faces,          \* embeddings, one for each usable picture
    Accepted,       \* the sets of embeddings that a folder's pictures can give
    Trees,          \* enrollment roots: of each person the state of its folder
    NoRoot,         \* an enrollment root that is not there
    NoFile,         \* Python's None, and a file that is not there
    MaxOperations,  \* bound: operations of the user
    MaxBuilds,      \* bound: face runtimes built
    MaxRestarts     \* bound: times the process is killed and started again

FolderStates == {"images", "empty", "unreadable", "absent"}

ASSUME GalleryAssumption == /\ Trees \subseteq [Persons -> FolderStates]
                            /\ Accepted \subseteq SUBSET Faces /\ IsFiniteSet(Faces)
                            /\ NoRoot \notin Trees /\ NoFile \notin Persons \cup Faces
                            /\ MaxOperations \in Nat /\ MaxBuilds \in Nat /\ MaxRestarts \in Nat

VARIABLES
    gallery,   \* of each person its directory and the two files
    matcher,   \* the matcher in use, [id, records], or NoFile
    shown,     \* FaceGalleryState
    root,      \* the enrollment root
    user,      \* what the main thread is doing
    builder,   \* what the face thread is doing
    counts,    \* operations, builds and restarts so far
    people,    \* history: the content of each person's last complete save
    stale      \* history: since the last complete refresh, one failed or was
               \* disturbed, or a save or a removal was cut short

galleryVars == <<gallery, matcher, shown, root, user, builder, counts, people, stale>>

Names    == {"id", "typed"}
Enrolments == [name : Names, emb : (SUBSET Faces) \ {{}}]
Metadata == [name : Names, count : 1 .. Cardinality(Faces)]

NoDirectory == [dir |-> FALSE, emb |-> NoFile, meta |-> NoFile]

\* A reader of the store: the directories left to load, the records loaded,
\* the matcher they are for, and whether nothing else happened meanwhile.
NoReader == [todo |-> {}, read |-> {}, matcher |-> 0, clean |-> FALSE]

IdleUser    == [pc |-> "idle", op |-> NoFile, person |-> NoFile, content |-> NoFile, folders |-> {},
                reader |-> NoReader]
IdleBuilder == [pc |-> "off", reader |-> NoReader]

NoGallery == [persons |-> {}, rows |-> [p \in Persons |-> NoFile]]

\* What is enrolled and what is shown of it is never None.
GalleryRows == [active : BOOLEAN, source : BOOLEAN, valid : BOOLEAN,
                status : {"missing", "unreadable", "empty", "active", "not_active"}]

ASSUME NoFileAssumption == NoFile \notin Enrolments \cup GalleryRows

StoredAs(content) ==
    IF content = NoFile THEN NoDirectory
    ELSE [dir  |-> TRUE, emb |-> content.emb,
          meta |-> [name |-> content.name, count |-> Cardinality(content.emb)]]

\* Nobody is enrolled, or everybody with one picture.
GalleryInit ==
    /\ \E first \in {NoFile} \cup {[name |-> "typed", emb |-> {f}] : f \in Faces} :
         people = [p \in Persons |-> first]
    /\ gallery = [p \in Persons |-> StoredAs(people[p])]
    /\ matcher = NoFile /\ shown = NoGallery
    /\ root \in Trees \cup {NoRoot}
    /\ user = IdleUser /\ builder = IdleBuilder
    /\ counts = [operations |-> 0, builds |-> 0, restarts |-> 0]
    /\ stale = FALSE

-----------------------------------------------------------------------------
(* Reading.                                                                *)

BugLoadable(p) == gallery[p].meta /= NoFile /\ gallery[p].emb /= NoFile

\* load(): both files, and as many embeddings as the metadata says.
Loadable(p) == /\ gallery[p].meta /= NoFile /\ gallery[p].emb /= NoFile
               /\ gallery[p].meta.count = Cardinality(gallery[p].emb)

OnDisk(p) == IF Loadable(p) THEN [name |-> gallery[p].meta.name, emb |-> gallery[p].emb] ELSE NoFile

RecordOf(p) == [person |-> p, content |-> OnDisk(p)]

\* The row of a person in scan_enrollment_people.
FolderOf(p) == IF root = NoRoot THEN "absent" ELSE root[p]
RowOf(p, persons) ==
    LET active == \E r \in persons : r.person = p
        folder == FolderOf(p)
    IN IF folder = "absent" /\ ~active THEN NoFile
       ELSE [active |-> active, source |-> folder /= "absent", valid |-> folder = "images",
             status |-> CASE folder = "absent"     -> "missing"
                          [] folder = "unreadable" -> "unreadable"
                          [] folder = "empty"      -> "empty"
                          [] OTHER                 -> IF active THEN "active" ELSE "not_active"]

GalleryOf(persons) == [persons |-> persons, rows |-> [p \in Persons |-> RowOf(p, persons)]]

Reading(pc) == pc \in {"construct", "load", "show"}
Writing     == user.pc \in {"npz", "meta", "unlink_meta", "unlink_npz", "rmdir"}

\* load_all(): the directories are listed.
StartReader(id, clean) == [todo  |-> {p \in Persons : gallery[p].dir}, read |-> {},
                           matcher |-> id, clean |-> clean]

\* One more of them is loaded.
LoadedOne(reader, p) == [reader EXCEPT !.todo = @ \ {p}, !.read = @ \cup {RecordOf(p)}]

\* What a thread does disturbs the other one's reading.
DisturbedBuilder == [builder EXCEPT !.reader.clean = FALSE]
DisturbedUser    == [user EXCEPT !.reader.clean = FALSE]

\* A reader ends: _records of its matcher, which may have been replaced.
Assign(reader) ==
    matcher' = IF matcher /= NoFile /\ matcher.id = reader.matcher
                 THEN [matcher EXCEPT !.records = reader.read] ELSE matcher

-----------------------------------------------------------------------------
(* refresh_gallery() of the main thread.                                   *)

\* It looks for the matcher; without one only the source folders are shown.
UserRefresh ==
    IF matcher = NoFile
      THEN /\ user' = IdleUser
           /\ shown' = GalleryOf({})
           /\ builder' = DisturbedBuilder
      ELSE /\ user' = [IdleUser EXCEPT !.pc = "load",
                                       !.reader = StartReader(matcher.id, ~Reading(builder.pc))]
           /\ builder' = DisturbedBuilder
           /\ UNCHANGED shown

Starts == user.pc = "idle" /\ counts.operations < MaxOperations
Counted == counts' = [counts EXCEPT !.operations = @ + 1]

Refresh ==
    /\ Starts /\ Counted
    /\ UserRefresh
    /\ UNCHANGED <<gallery, matcher, root, people, stale>>

\* set_face_gallery_root: a directory, saved first.
SetRoot ==
    /\ Starts /\ Counted
    /\ root' \in Trees
    /\ user' = [IdleUser EXCEPT !.pc = "refresh"]
    /\ UNCHANGED <<gallery, matcher, shown, builder, people, stale>>

\* The refresh at the end of an operation.
OperationRefresh ==
    /\ user.pc = "refresh"
    /\ UserRefresh
    /\ UNCHANGED <<gallery, matcher, root, counts, people, stale>>

UserLoad ==
    /\ user.pc = "load"
    /\ IF user.reader.todo = {}
         THEN /\ user' = [user EXCEPT !.pc = "show"]
              /\ Assign(user.reader)
              /\ UNCHANGED <<shown, stale>>
         ELSE \E p \in user.reader.todo :
                IF Loadable(p)
                  THEN /\ user' = [user EXCEPT !.reader = LoadedOne(@, p)]
                       /\ UNCHANGED <<matcher, shown, stale>>
                  ELSE /\ user' = IdleUser        \* the exception is caught
                       /\ shown' = GalleryOf({})
                       /\ stale' = TRUE
                       /\ UNCHANGED matcher
    /\ UNCHANGED <<gallery, root, builder, counts, people>>

UserShow ==
    /\ user.pc = "show"
    /\ user' = IdleUser
    /\ shown' = GalleryOf(user.reader.read)
    /\ stale' = ~user.reader.clean
    /\ UNCHANGED <<gallery, matcher, root, builder, counts, people>>

-----------------------------------------------------------------------------
(* PersonStore.save().                                                     *)

\* What follows a save: enroll() refreshes if it succeeded, the import goes
\* on to the next folder.
AfterSave(ok) == IF user.op = "import" THEN [user EXCEPT !.pc = "next", !.person = NoFile, !.content = NoFile]
                 ELSE IF ok THEN [IdleUser EXCEPT !.pc = "refresh"]
                 ELSE IdleUser

\* The directory is made.
BeginSave(p, content) ==
    /\ user' = [user EXCEPT !.pc = "npz", !.person = p, !.content = content]
    /\ gallery' = [gallery EXCEPT ![p].dir = TRUE]
    /\ builder' = DisturbedBuilder

WriteEmbeddings ==
    /\ user.pc = "npz"
    /\ \/ /\ gallery' = [gallery EXCEPT ![user.person].emb = user.content.emb]
          /\ user' = [user EXCEPT !.pc = "meta"]
       \/ /\ user' = AfterSave(FALSE)
          /\ UNCHANGED gallery
    /\ stale' = (stale \/ user'.pc /= "meta")
    /\ builder' = DisturbedBuilder
    /\ UNCHANGED <<matcher, shown, root, counts, people>>

WriteMetadata ==
    /\ user.pc = "meta"
    /\ \/ /\ gallery' = [gallery EXCEPT ![user.person].meta =
                        [name |-> user.content.name, count |-> Cardinality(user.content.emb)]]
          /\ people' = [people EXCEPT ![user.person] = user.content]
          /\ user' = AfterSave(TRUE)
          /\ UNCHANGED stale
       \/ /\ user' = AfterSave(FALSE)
          /\ stale' = TRUE
          /\ UNCHANGED <<gallery, people>>
    /\ builder' = DisturbedBuilder
    /\ UNCHANGED <<matcher, shown, root, counts>>

-----------------------------------------------------------------------------
(* Enrollment.                                                             *)

\* enroll_person: the pictures that pass _process_image are accepted; none
\* leaves the store alone, and somebody who is there is refused unless the
\* user asked to overwrite.
EnrollPerson(p, name, accepted, overwrite) ==
    /\ Starts /\ Counted
    /\ IF accepted = {}
         THEN /\ user' = [IdleUser EXCEPT !.pc = "refresh"]
              /\ UNCHANGED <<gallery, builder>>
       ELSE /\ ~gallery[p].dir \/ overwrite
            /\ BeginSave(p, [name |-> name, emb |-> accepted])
    /\ UNCHANGED <<matcher, shown, root, people, stale>>

\* import_enrollment: every folder of the root in turn.
ImportEnrollment ==
    /\ Starts /\ Counted
    /\ root /= NoRoot
    /\ user' = [IdleUser EXCEPT !.pc = "next", !.op = "import",
                                !.folders = {p \in Persons : root[p] = "images"}]
    /\ UNCHANGED <<gallery, matcher, shown, root, builder, people, stale>>

\* merge(): what is stored with what is new.
Merged(p, accepted) == OnDisk(p).emb \cup accepted

\* One folder; a record that cannot be loaded, or with nothing new, is left
\* as it is.
ImportFolder(p, accepted) ==
    /\ user.pc = "next" /\ p \in user.folders
    /\ LET rest == [user EXCEPT !.folders = @ \ {p}]
           save(emb) == /\ user' = [rest EXCEPT !.pc = "npz", !.person = p,
                                                !.content = [name |-> "id", emb |-> emb]]
                        /\ gallery' = [gallery EXCEPT ![p].dir = TRUE]
                        /\ builder' = DisturbedBuilder
       IN CASE accepted = {} -> user' = rest /\ UNCHANGED <<gallery, builder>>
            [] accepted /= {} /\ ~gallery[p].dir -> save(accepted)
            [] accepted /= {} /\ gallery[p].dir ->
                 IF Loadable(p) /\ ~(accepted \subseteq OnDisk(p).emb)
                   THEN save(Merged(p, accepted))
                   ELSE user' = rest /\ UNCHANGED <<gallery, builder>>
    /\ UNCHANGED <<matcher, shown, root, counts, people, stale>>

ImportEnds ==
    /\ user.pc = "next" /\ user.folders = {}
    /\ user' = [IdleUser EXCEPT !.pc = "refresh"]
    /\ UNCHANGED <<gallery, matcher, shown, root, builder, counts, people, stale>>

-----------------------------------------------------------------------------
(* Removal.                                                                *)

\* remove_person needs a matcher and a directory; delete() goes through the
\* files in reverse order.
RemovePerson(p) ==
    /\ Starts /\ Counted
    /\ matcher /= NoFile /\ gallery[p].dir
    /\ user' = [IdleUser EXCEPT !.pc = "unlink_meta", !.person = p]
    /\ UNCHANGED <<gallery, matcher, shown, root, builder, people, stale>>

AfterDelete == [IdleUser EXCEPT !.pc = "refresh"]

Delete ==
    /\ \/ /\ user.pc = "unlink_meta"
          /\ gallery' = [gallery EXCEPT ![user.person].meta = NoFile]
          /\ user' = [user EXCEPT !.pc = "unlink_npz"]
          /\ UNCHANGED <<people, stale>>
       \/ /\ user.pc = "unlink_npz"
          /\ gallery' = [gallery EXCEPT ![user.person].emb = NoFile]
          /\ user' = [user EXCEPT !.pc = "rmdir"]
          /\ UNCHANGED <<people, stale>>
       \/ /\ user.pc = "rmdir"
          /\ gallery' = [gallery EXCEPT ![user.person].dir = FALSE]
          /\ people' = [people EXCEPT ![user.person] = NoFile]
          /\ user' = AfterDelete
          /\ UNCHANGED stale
       \/ /\ user.pc \in {"unlink_meta", "unlink_npz", "rmdir"}     \* an OSError
          /\ user' = IdleUser
          /\ stale' = TRUE
          /\ UNCHANGED <<gallery, people>>
    /\ builder' = DisturbedBuilder
    /\ UNCHANGED <<matcher, shown, root, counts>>

-----------------------------------------------------------------------------
(* The face thread.                                                        *)

\* create_face_matcher: a matcher that reads the store as it is made.
BuildRuntime ==
    /\ builder.pc = "off" /\ counts.builds < MaxBuilds
    /\ counts' = [counts EXCEPT !.builds = @ + 1]
    /\ builder' = [builder EXCEPT !.pc = "construct", !.reader = StartReader(counts.builds + 1, FALSE)]
    /\ user' = DisturbedUser
    /\ UNCHANGED <<gallery, matcher, shown, root, people, stale>>

\* A record that cannot be loaded leaves the runtime without a matcher.
Construct ==
    /\ builder.pc = "construct"
    /\ IF builder.reader.todo = {}
         THEN /\ matcher' = [id |-> builder.reader.matcher, records |-> builder.reader.read]
              /\ builder' = [builder EXCEPT !.pc = "refresh"]
         ELSE /\ \E p \in builder.reader.todo :
                   builder' = IF Loadable(p) THEN [builder EXCEPT !.reader = LoadedOne(@, p)]
                              ELSE [builder EXCEPT !.pc = "refresh"]
              /\ UNCHANGED matcher
    /\ UNCHANGED <<gallery, shown, root, user, counts, people, stale>>

\* Its own refresh_gallery.
BuilderRefresh ==
    /\ builder.pc = "refresh"
    /\ user' = DisturbedUser
    /\ IF matcher = NoFile
         THEN /\ builder' = [IdleBuilder EXCEPT !.pc = "on"]
              /\ shown' = GalleryOf({})
         ELSE /\ builder' = [builder EXCEPT !.pc = "load",
                               !.reader = StartReader(matcher.id, ~Writing /\ ~Reading(user.pc))]
              /\ UNCHANGED shown
    /\ UNCHANGED <<gallery, matcher, root, counts, people, stale>>

BuilderLoad ==
    /\ builder.pc = "load"
    /\ IF builder.reader.todo = {}
         THEN /\ builder' = [builder EXCEPT !.pc = "show"]
              /\ Assign(builder.reader)
              /\ UNCHANGED <<shown, stale>>
         ELSE \E p \in builder.reader.todo :
                IF Loadable(p)
                  THEN /\ builder' = [builder EXCEPT !.reader = LoadedOne(@, p)]
                       /\ UNCHANGED <<matcher, shown, stale>>
                  ELSE /\ builder' = [IdleBuilder EXCEPT !.pc = "on"]
                       /\ shown' = GalleryOf({})
                       /\ stale' = TRUE
                       /\ UNCHANGED matcher
    /\ UNCHANGED <<gallery, root, user, counts, people>>

BuilderShow ==
    /\ builder.pc = "show"
    /\ builder' = [IdleBuilder EXCEPT !.pc = "on"]
    /\ shown' = GalleryOf(builder.reader.read)
    /\ stale' = ~builder.reader.clean
    /\ UNCHANGED <<gallery, matcher, root, user, counts, people>>

\* _close_runtime: the settings or the camera changed.
CloseRuntime ==
    /\ builder.pc = "on"
    /\ builder' = IdleBuilder
    /\ matcher' = NoFile
    /\ UNCHANGED <<gallery, shown, root, user, counts, people, stale>>

\* The process ends, at any point, and starts again.
Restart ==
    /\ counts.restarts < MaxRestarts
    /\ counts' = [counts EXCEPT !.restarts = @ + 1]
    /\ matcher' = NoFile /\ shown' = GalleryOf({})
    /\ user' = IdleUser /\ builder' = IdleBuilder
    /\ stale' = FALSE
    /\ UNCHANGED <<gallery, root, people>>

GalleryNext ==
    \/ Refresh \/ SetRoot \/ OperationRefresh \/ UserLoad \/ UserShow
    \/ WriteEmbeddings \/ WriteMetadata
    \/ \E p \in Persons, name \in Names, accepted \in Accepted, overwrite \in BOOLEAN :
         EnrollPerson(p, name, accepted, overwrite)
    \/ ImportEnrollment
    \/ \E p \in Persons, accepted \in Accepted : ImportFolder(p, accepted)
    \/ ImportEnds
    \/ \E p \in Persons : RemovePerson(p)
    \/ Delete
    \/ BuildRuntime \/ Construct \/ BuilderRefresh \/ BuilderLoad \/ BuilderShow \/ CloseRuntime
    \/ Restart

GallerySpec == GalleryInit /\ [][GalleryNext]_galleryVars

-----------------------------------------------------------------------------
GalleryTypeOK ==
    /\ \A p \in Persons : /\ gallery[p].dir \in BOOLEAN
                          /\ gallery[p].emb \in ((SUBSET Faces) \ {{}}) \cup {NoFile}
                          /\ gallery[p].meta \in Metadata \cup {NoFile}
                          /\ ~gallery[p].dir => gallery[p] = NoDirectory
                          /\ people[p] \in Enrolments \cup {NoFile}
    /\ root \in Trees \cup {NoRoot} /\ stale \in BOOLEAN
    /\ counts \in [operations : 0 .. MaxOperations, builds : 0 .. MaxBuilds, restarts : 0 .. MaxRestarts]

\* What the matcher knows of p.
Known(p) == LET rs == {r \in matcher.records : r.person = p}
            IN IF rs = {} THEN NoFile ELSE (CHOOSE r \in rs : TRUE).content

\* The gallery that recognises people is the one that was saved: when both
\* threads are done and the last refresh succeeded undisturbed, the matcher
\* knows of each person the content of the last complete save, or, where a
\* later save was cut short, the stored name with as many new embeddings;
\* and the gallery shows exactly these people, each in a row of its own.
GalleryFollowsStore ==
    user.pc = "idle" /\ builder.pc = "on" /\ matcher /= NoFile /\ ~stale
      => /\ \A p \in Persons : \/ Known(p) = people[p]
                               \/ /\ Known(p) /= NoFile /\ people[p] /= NoFile
                                  /\ Known(p).name = people[p].name
                                  /\ Cardinality(Known(p).emb) = Cardinality(people[p].emb)
                                  /\ Known(p) = OnDisk(p)
         /\ shown.persons = matcher.records
         /\ \A r \in matcher.records : shown.rows[r.person] /= NoFile /\ shown.rows[r.person].active

=============================================================================
