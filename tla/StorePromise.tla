---------------------------- MODULE StorePromise ----------------------------
(***************************************************************************)
(* What the desktop application's configuration store promises, whatever   *)
(* fails and wherever it is interrupted (app_windows/config): one document *)
(* with a content for every section, and one password for every camera.    *)
(*                                                                         *)
(* A save replaces one section and leaves the others; the password of a    *)
(* camera is stored before the section that needs it.  A camera's password *)
(* is the stored one or, without one, that of its address; only a save     *)
(* that may change it, by the user's will or because its editor does not   *)
(* know the present one, leaves the camera with another.                   *)
(***************************************************************************)
CONSTANTS Missing, Sections, StoreCameras, Passwords, Contents

VARIABLES doc, secret, underway

promiseVars == <<doc, secret, underway>>

PromiseInit == underway = Missing

PasswordOf(c) == IF secret[c] /= Missing THEN secret[c] ELSE doc[c].password

\* A save has stored its camera's password, the present one unless it
\* changes it, and may be followed by its section, taken back or given up.
PutPassword(c) ==
    /\ underway = Missing
    /\ \E p \in Passwords \cup {Missing}, changes \in BOOLEAN :
         /\ changes \/ p = PasswordOf(c)
         /\ secret' = [secret EXCEPT ![c] = p]
         /\ underway' = [camera |-> c, old |-> secret[c], changes |-> changes]
    /\ UNCHANGED doc

\* The section is replaced in one step.  Its camera's password is the same
\* without the old address, unless the address itself goes.
ReplaceSection(s) ==
    /\ \/ underway = Missing
       \/ underway /= Missing /\ underway.camera = s
    /\ \E content \in Contents :
         /\ content.password = Missing
         /\ content.url /\ s \in StoreCameras =>
              \/ PasswordOf(s) = secret[s]
              \/ underway /= Missing /\ underway.changes
         /\ doc' = [doc EXCEPT ![s] = content]
    /\ underway' = Missing
    /\ UNCHANGED secret

TakeBack ==
    /\ underway /= Missing
    /\ secret' = [secret EXCEPT ![underway.camera] = underway.old]
    /\ underway' = Missing
    /\ UNCHANGED doc

GiveUp ==
    /\ underway /= Missing
    /\ underway' = Missing
    /\ UNCHANGED <<doc, secret>>

PromiseNext ==
    \/ \E c \in StoreCameras : PutPassword(c)
    \/ \E s \in Sections : ReplaceSection(s)
    \/ TakeBack
    \/ GiveUp

PromiseSpec == PromiseInit /\ [][PromiseNext]_promiseVars

=============================================================================
