-------------------------- MODULE CameraWorkerProofs --------------------------
(***************************************************************************)
(* What holds of CameraWorker for any controllers, threads, retry limit,   *)
(* delay, buffer size and number of frames.                                *)
(***************************************************************************)
EXTENDS CameraWorker, TLAPS

RunPcs == LoopPcs \cup {"created", "raised", "finally", "shutdown", "exiting", "dead"}
RunRecords == [pc : RunPcs, connected : BOOLEAN, initial : BOOLEAN, awaiting : BOOLEAN,
               reconnecting : BOOLEAN, grace : BOOLEAN, attempts : Nat, delay : Nat]
CtlRecords == [pc : {"idle", "launch", "close", "join", "finish"}, thread : Runs \cup {None},
               outcome : {"none", "raised", "ignored", "started", "stopped"}]
Buffers == [items : Seq(Nat), closed : BOOLEAN, dropped : Nat]

Me == run[thread]
HasThread == thread /= None

-----------------------------------------------------------------------------
(* The invariant.                                                          *)

\* A thread that is not dead is the current one; the controllers in a call
\* hold the current thread, one of them launches it, and the others stop it.
ThreadsAgree ==
    /\ \A r \in Runs : run[r].pc /= "dead" => r = thread
    /\ \A c \in Controllers : ctl[c].pc /= "idle" => HasThread /\ ctl[c].thread = thread
    /\ \A c \in Controllers : ctl[c].pc = "launch" => Me.pc = "created"
    /\ \A c, d \in Controllers : ctl[c].pc = "launch" /\ ctl[d].pc = "launch" => c = d
    /\ HasThread /\ Me.pc = "created" => \E c \in Controllers : ctl[c].pc = "launch"
    /\ \A c \in Controllers : ctl[c].pc \in {"close", "join", "finish"} => stopEvent
    /\ \A c \in Controllers : ctl[c].pc = "finish" => Me.pc /= "created"

\* What the locals of _run say at each label.
LocalsAgree ==
    HasThread =>
      /\ Me.pc \in {"created", "opening", "open"} => Me.initial /\ ~Me.connected
      /\ Me.pc \in {"schedule", "backoff", "reconnect", "failing", "lost", "closing"}
           => ~Me.initial /\ ~Me.connected
      /\ Me.pc \in {"read", "frame", "count", "put", "announce", "noframe"} => Me.connected
      /\ Me.pc = "announce" => Me.awaiting

\* The attempts of the outage: the loop's own count, and the reconnects since
\* the last frame.
AttemptsAgree ==
    /\ limit > 0 => tries <= limit
    /\ state = "failed" => raised \/ (limit > 0 /\ tries = limit)
    /\ HasThread =>
         /\ Me.initial => Me.attempts = 0
         /\ Me.connected /\ (~Me.awaiting \/ ~Me.reconnecting) => Me.attempts = 0
         /\ Me.pc = "announce" => tries = 0
         /\ Me.pc \in (LoopPcs \cup {"created"}) \ {"announce"} => Me.attempts = tries
         /\ Me.pc \in {"schedule", "backoff"} /\ limit > 0 => Me.attempts < limit
         /\ Me.pc = "failing" => limit > 0 /\ tries = limit
         /\ Me.pc = "backoff" => Me.delay = ReconnectDelay(BaseDelay, tries + 1)

\* The state, the source and the buffer against the thread's label.
StateAgrees ==
    /\ state = "running" =>
         /\ HasThread /\ source /\ ~stopEvent
         /\ Me.pc \in {"loop", "read", "frame", "count", "put", "noframe", "lost", "raised"}
         /\ ~Me.awaiting /\ (Me.pc \notin {"lost", "raised"} => Me.connected)
    /\ state = "stopped" /\ HasThread => Me.pc \in {"exiting", "dead"}
    /\ state = "failed" => HasThread /\ Me.pc \in {"finally", "shutdown", "exiting", "dead"}
    /\ HasThread =>
         /\ Me.connected /\ Me.pc \in {"loop", "read", "frame", "count", "put", "announce", "noframe"}
              /\ ~stopEvent => source
         /\ Me.pc \in {"shutdown", "exiting", "dead"} => ~source
         /\ buffer.closed <=> Me.pc \in {"exiting", "dead"}

\* Every frame received is counted once, one of them perhaps in the hand.
InHand == HasThread /\ Me.pc = "put"
FramesAgree == counts.frames = taken + buffer.dropped + Len(buffer.items) + (IF InHand THEN 1 ELSE 0)

-----------------------------------------------------------------------------
(* Types, part by part, and what a step leaves alone.                      *)

ObjectType == /\ limit \in Limits /\ state \in States /\ stopEvent \in BOOLEAN
              /\ thread \in Runs \cup {None} /\ info \in BOOLEAN
              /\ counts \in [frames : Nat, reconnects : Nat]
BufferType == buffer \in Buffers /\ Len(buffer.items) <= MaxBuffer
RunType == run \in [Runs -> RunRecords]
CtlType == ctl \in [Controllers -> CtlRecords]
HistoryType == tries \in Nat /\ taken \in Nat /\ raised \in BOOLEAN

WorkerTypes == ObjectType /\ BufferType /\ RunType /\ source \in BOOLEAN /\ CtlType /\ HistoryType

WorkerInv == WorkerTypes /\ ThreadsAgree /\ LocalsAgree /\ AttemptsAgree /\ StateAgrees
             /\ FramesAgree

LEMMA TypeFrame ==
    /\ ObjectType /\ UNCHANGED <<limit, state, stopEvent, thread, info, counts>> => ObjectType'
    /\ ObjectType /\ UNCHANGED <<limit, stopEvent, thread, info, counts>> /\ state' \in States
         => ObjectType'
    /\ BufferType /\ UNCHANGED buffer => BufferType'
    /\ RunType /\ UNCHANGED run => RunType'
    /\ CtlType /\ UNCHANGED ctl => CtlType'
    /\ HistoryType /\ UNCHANGED <<tries, taken, raised>> => HistoryType'
BY DEF ObjectType, BufferType, RunType, CtlType, HistoryType

LEMMA MeType ==
    ASSUME WorkerInv
    PROVE  /\ limit \in Nat /\ tries \in Nat /\ (limit > 0 \/ limit = 0)
           /\ HasThread => Me \in RunRecords /\ thread \in Runs
<1>1. ObjectType /\ RunType /\ HistoryType
  BY DEF WorkerInv, WorkerTypes
<1> QED
  BY <1>1, LimitsAssumption DEF ObjectType, RunType, HistoryType, HasThread, Me

\* A running thread is the current one.
LEMMA RunIsMe ==
    ASSUME WorkerInv, NEW r \in Runs, run[r].pc /= "dead"
    PROVE  /\ r = thread /\ HasThread /\ Me = run[r] /\ Me \in RunRecords
           /\ \A c \in Controllers : ctl[c].pc = "launch" => run[r].pc = "created"
<1>1. r = thread /\ Me = run[r]
  BY DEF WorkerInv, ThreadsAgree, Me
<1>2. HasThread
  BY <1>1, NoneAssumption DEF HasThread
<1> QED
  BY <1>1, <1>2, MeType DEF WorkerInv, ThreadsAgree

\* A record that differs from a thread's locals in its label.
LEMMA PcField ==
    ASSUME NEW m \in RunRecords, NEW l \in RunPcs
    PROVE  /\ [m EXCEPT !.pc = l] \in RunRecords /\ [m EXCEPT !.pc = l].pc = l
           /\ [m EXCEPT !.pc = l].connected = m.connected
           /\ [m EXCEPT !.pc = l].initial = m.initial
           /\ [m EXCEPT !.pc = l].awaiting = m.awaiting
           /\ [m EXCEPT !.pc = l].reconnecting = m.reconnecting
           /\ [m EXCEPT !.pc = l].attempts = m.attempts
           /\ [m EXCEPT !.pc = l].delay = m.delay
BY DEF RunRecords

\* The current thread moves to a label, its locals now m.
Steps(r, m) == run' = [run EXCEPT ![r] = m]

LEMMA StepsFacts ==
    ASSUME WorkerInv, NEW r \in Runs, run[r].pc \notin {"dead", "created"},
           NEW m \in RunRecords, m.pc /= "created", Steps(r, m),
           UNCHANGED <<thread, ctl, stopEvent>>
    PROVE  RunType' /\ CtlType' /\ ThreadsAgree' /\ HasThread' /\ Me' = m
<1>1. r = thread /\ HasThread /\ Me = run[r]
      /\ \A c \in Controllers : ctl[c].pc /= "launch"
  BY RunIsMe
<1>2. RunType /\ CtlType
  BY DEF WorkerInv, WorkerTypes
<1>3. RunType' /\ run'[r] = m /\ \A q \in Runs : q /= r => run'[q] = run[q]
  BY <1>2 DEF RunType, Steps
<1>4. Me' = m /\ HasThread' /\ CtlType'
  BY <1>1, <1>2, <1>3 DEF Me, HasThread, CtlType
<1>5. ThreadsAgree'
  BY <1>1, <1>3, <1>4 DEF WorkerInv, ThreadsAgree, HasThread
<1> QED
  BY <1>3, <1>4, <1>5

\* The current thread is at label l, and its other locals are unchanged.
MovesTo(l) ==
    /\ HasThread /\ HasThread' /\ Me \in RunRecords /\ Me'.pc = l
    /\ Me'.connected = Me.connected /\ Me'.initial = Me.initial
    /\ Me'.awaiting = Me.awaiting /\ Me'.reconnecting = Me.reconnecting
    /\ Me'.attempts = Me.attempts /\ Me'.delay = Me.delay

LEMMA GotoFacts ==
    ASSUME WorkerInv, NEW r \in Runs, run[r].pc \notin {"dead", "created"},
           NEW l \in RunPcs, l /= "created", Goto(r, l), UNCHANGED <<thread, ctl, stopEvent>>
    PROVE  RunType' /\ CtlType' /\ ThreadsAgree' /\ Me.pc = run[r].pc /\ MovesTo(l)
<1>1. HasThread /\ Me = run[r] /\ Me \in RunRecords
  BY RunIsMe
<1> DEFINE m == [Me EXCEPT !.pc = l]
<1>2. Steps(r, m)
  BY <1>1 DEF Goto, Steps
<1>3. /\ m \in RunRecords /\ m.pc = l
      /\ m.connected = Me.connected /\ m.initial = Me.initial /\ m.awaiting = Me.awaiting
      /\ m.reconnecting = Me.reconnecting /\ m.attempts = Me.attempts /\ m.delay = Me.delay
  BY <1>1, PcField
<1> HIDE DEF m
<1>4. RunType' /\ CtlType' /\ ThreadsAgree' /\ HasThread' /\ Me' = m
  BY <1>2, <1>3, StepsFacts
<1> QED
  BY <1>1, <1>3, <1>4 DEF MovesTo

\* The state that the loop asks for is shown unless the worker failed or is
\* being stopped.
LEMMA SetStateFacts ==
    ASSUME ObjectType, NEW s \in States
    PROVE  /\ SetState(s) \in States
           /\ \/ SetState(s) = state /\ (state = "failed" \/ stopEvent)
              \/ SetState(s) = s /\ state /= "failed" /\ ~stopEvent
BY DEF SetState, ObjectType

LEMMA LoopLabels == \A l \in RunPcs : l \in LoopPcs \/ l \in {"created", "raised", "finally", "shutdown", "exiting", "dead"}
BY DEF RunPcs

-----------------------------------------------------------------------------
(* _run: one lemma per action.                                             *)

LEMMA LoopInv == ASSUME WorkerInv, NEW r \in Runs, Loop(r) PROVE WorkerInv'
<1> DEFINE l == IF stopEvent THEN "finally"
                ELSE IF run[r].connected THEN "read"
                ELSE IF run[r].initial THEN "opening"
                ELSE IF limit > 0 /\ run[r].attempts >= limit THEN "failing"
                ELSE "schedule"
<1>1. run[r].pc = "loop" /\ Goto(r, l) /\ UNCHANGED <<object, buffer, source, ctl, history>>
  BY DEF Loop
<1>2. l \in RunPcs /\ l /= "created"
  BY DEF RunPcs, LoopPcs
<1>3. Me = run[r]
  BY <1>1, RunIsMe
<1>4. /\ l \in {"finally", "read", "opening", "failing", "schedule"}
      /\ l = "finally" => stopEvent
      /\ l = "read" => ~stopEvent /\ Me.connected
      /\ l = "opening" => ~Me.connected /\ Me.initial
      /\ l = "failing" => ~Me.connected /\ ~Me.initial /\ limit > 0 /\ Me.attempts >= limit
      /\ l = "schedule" => ~Me.connected /\ ~Me.initial /\ ~(limit > 0 /\ Me.attempts >= limit)
  BY <1>3
<1> HIDE DEF l
<1>5. RunType' /\ CtlType' /\ ThreadsAgree' /\ Me.pc = "loop" /\ MovesTo(l)
  BY <1>1, <1>2, GotoFacts DEF object
<1>6. UNCHANGED <<limit, state, stopEvent, thread, info, counts, buffer, source, ctl, tries, taken, raised>>
  BY <1>1 DEF object, history
<1>7. WorkerTypes'
  BY <1>5, <1>6, TypeFrame DEF WorkerInv, WorkerTypes
<1>8. LocalsAgree'
  BY <1>4, <1>5 DEF WorkerInv, LocalsAgree, MovesTo
<1>9. AttemptsAgree'
  BY <1>4, <1>5, <1>6, MeType DEF WorkerInv, AttemptsAgree, MovesTo, RunRecords, LoopPcs
<1>10. StateAgrees'
  BY <1>4, <1>5, <1>6 DEF WorkerInv, StateAgrees, MovesTo
<1>11. FramesAgree'
  BY <1>4, <1>5, <1>6 DEF WorkerInv, FramesAgree, InHand, MovesTo
<1> QED
  BY <1>5, <1>7, <1>8, <1>9, <1>10, <1>11 DEF WorkerInv

LEMMA AnnounceStartingInv == ASSUME WorkerInv, NEW r \in Runs, AnnounceStarting(r) PROVE WorkerInv'
<1>1. run[r].pc = "opening" /\ Goto(r, "open") /\ "open" \in RunPcs
  BY DEF AnnounceStarting, RunPcs, LoopPcs
<1>2. UNCHANGED <<limit, stopEvent, thread, info, counts, buffer, source, ctl, tries, taken, raised>>
  BY DEF AnnounceStarting, object, history
<1>3. RunType' /\ CtlType' /\ ThreadsAgree' /\ Me.pc = "opening" /\ MovesTo("open")
  BY <1>1, <1>2, GotoFacts
<1>s. /\ state' \in States
      /\ \/ state' = state /\ (state = "failed" \/ stopEvent)
         \/ state' = "starting" /\ state /= "failed" /\ ~stopEvent
  BY SetStateFacts DEF AnnounceStarting, WorkerInv, WorkerTypes, States
<1>4. WorkerTypes'
  BY <1>2, <1>3, TypeFrame, <1>s DEF WorkerInv, WorkerTypes
<1>5. LocalsAgree'
  BY <1>3 DEF WorkerInv, LocalsAgree, MovesTo
<1>6. AttemptsAgree'
  BY <1>2, <1>3, <1>s, MeType DEF WorkerInv, AttemptsAgree, MovesTo, RunRecords, LoopPcs
<1>7. StateAgrees'
  BY <1>2, <1>3, <1>s DEF WorkerInv, StateAgrees, MovesTo
<1>8. FramesAgree'
  BY <1>2, <1>3 DEF WorkerInv, FramesAgree, InHand, MovesTo
<1> QED
  BY <1>3, <1>4, <1>5, <1>6, <1>7, <1>8 DEF WorkerInv

LEMMA MarkDisconnectedInv == ASSUME WorkerInv, NEW r \in Runs, MarkDisconnected(r) PROVE WorkerInv'
<1>1. run[r].pc = "lost" /\ Goto(r, "closing") /\ "closing" \in RunPcs
  BY DEF MarkDisconnected, RunPcs, LoopPcs
<1>2. UNCHANGED <<limit, stopEvent, thread, counts, buffer, source, ctl, tries, taken, raised>> /\ info' = FALSE
  BY DEF MarkDisconnected, object, history
<1>3. RunType' /\ CtlType' /\ ThreadsAgree' /\ Me.pc = "lost" /\ MovesTo("closing")
  BY <1>1, <1>2, GotoFacts
<1>s. /\ state' \in States
      /\ \/ state' = state /\ (state = "failed" \/ stopEvent)
         \/ state' = "reconnecting" /\ state /= "failed" /\ ~stopEvent
  BY SetStateFacts DEF MarkDisconnected, WorkerInv, WorkerTypes, States
<1>a. ObjectType'
  BY <1>2, <1>s DEF WorkerInv, WorkerTypes, ObjectType
<1>4. WorkerTypes'
  BY <1>2, <1>3, <1>a, TypeFrame DEF WorkerInv, WorkerTypes
<1>5. LocalsAgree'
  BY <1>3 DEF WorkerInv, LocalsAgree, MovesTo
<1>6. AttemptsAgree'
  BY <1>2, <1>3, <1>s, MeType DEF WorkerInv, AttemptsAgree, MovesTo, RunRecords, LoopPcs
<1>7. StateAgrees'
  BY <1>2, <1>3, <1>s DEF WorkerInv, StateAgrees, MovesTo
<1>8. FramesAgree'
  BY <1>2, <1>3 DEF WorkerInv, FramesAgree, InHand, MovesTo
<1> QED
  BY <1>3, <1>4, <1>5, <1>6, <1>7, <1>8 DEF WorkerInv

LEMMA CloseForReconnectInv == ASSUME WorkerInv, NEW r \in Runs, CloseForReconnect(r) PROVE WorkerInv'
<1>1. run[r].pc = "closing" /\ Goto(r, "loop") /\ "loop" \in RunPcs
  BY DEF CloseForReconnect, RunPcs, LoopPcs
<1>2. UNCHANGED <<limit, state, stopEvent, thread, info, counts, buffer, ctl, tries, taken, raised>> /\ source' = FALSE
  BY DEF CloseForReconnect, object, history
<1>3. RunType' /\ CtlType' /\ ThreadsAgree' /\ Me.pc = "closing" /\ MovesTo("loop")
  BY <1>1, <1>2, GotoFacts
<1>4. WorkerTypes'
  BY <1>2, <1>3, TypeFrame DEF WorkerInv, WorkerTypes
<1>5. LocalsAgree'
  BY <1>3 DEF WorkerInv, LocalsAgree, MovesTo
<1>6. AttemptsAgree'
  BY <1>2, <1>3, MeType DEF WorkerInv, AttemptsAgree, MovesTo, RunRecords, LoopPcs
<1>7. StateAgrees'
  BY <1>2, <1>3 DEF WorkerInv, StateAgrees, LocalsAgree, MovesTo
<1>8. FramesAgree'
  BY <1>2, <1>3 DEF WorkerInv, FramesAgree, InHand, MovesTo
<1> QED
  BY <1>3, <1>4, <1>5, <1>6, <1>7, <1>8 DEF WorkerInv

LEMMA FinallyCloseInv == ASSUME WorkerInv, NEW r \in Runs, FinallyClose(r) PROVE WorkerInv'
<1>1. run[r].pc = "finally" /\ Goto(r, "shutdown") /\ "shutdown" \in RunPcs
  BY DEF FinallyClose, RunPcs, LoopPcs
<1>2. UNCHANGED <<limit, state, stopEvent, thread, info, counts, buffer, ctl, tries, taken, raised>> /\ source' = FALSE
  BY DEF FinallyClose, object, history
<1>3. RunType' /\ CtlType' /\ ThreadsAgree' /\ Me.pc = "finally" /\ MovesTo("shutdown")
  BY <1>1, <1>2, GotoFacts
<1>4. WorkerTypes'
  BY <1>2, <1>3, TypeFrame DEF WorkerInv, WorkerTypes
<1>5. LocalsAgree'
  BY <1>3 DEF WorkerInv, LocalsAgree, MovesTo
<1>6. AttemptsAgree'
  BY <1>2, <1>3, MeType DEF WorkerInv, AttemptsAgree, MovesTo, RunRecords, LoopPcs
<1>7. StateAgrees'
  BY <1>2, <1>3 DEF WorkerInv, StateAgrees, MovesTo
<1>8. FramesAgree'
  BY <1>2, <1>3 DEF WorkerInv, FramesAgree, InHand, MovesTo
<1> QED
  BY <1>3, <1>4, <1>5, <1>6, <1>7, <1>8 DEF WorkerInv

LEMMA FailInv == ASSUME WorkerInv, NEW r \in Runs, Fail(r) PROVE WorkerInv'
<1>1. run[r].pc = "failing" /\ Goto(r, "finally") /\ "finally" \in RunPcs
  BY DEF Fail, RunPcs, LoopPcs
<1>2. UNCHANGED <<limit, stopEvent, thread, info, counts, buffer, source, ctl, tries, taken, raised>> /\ state' = "failed" /\ state' \in States
  BY DEF Fail, object, history, States
<1>3. RunType' /\ CtlType' /\ ThreadsAgree' /\ Me.pc = "failing" /\ MovesTo("finally")
  BY <1>1, <1>2, GotoFacts
<1>4. WorkerTypes'
  BY <1>2, <1>3, TypeFrame DEF WorkerInv, WorkerTypes
<1>5. LocalsAgree'
  BY <1>3 DEF WorkerInv, LocalsAgree, MovesTo
<1>6. AttemptsAgree'
  BY <1>2, <1>3, MeType DEF WorkerInv, AttemptsAgree, MovesTo, RunRecords, LoopPcs
<1>7. StateAgrees'
  BY <1>2, <1>3 DEF WorkerInv, StateAgrees, MovesTo
<1>8. FramesAgree'
  BY <1>2, <1>3 DEF WorkerInv, FramesAgree, InHand, MovesTo
<1> QED
  BY <1>3, <1>4, <1>5, <1>6, <1>7, <1>8 DEF WorkerInv

LEMMA ReadInv == ASSUME WorkerInv, NEW r \in Runs, Read(r) PROVE WorkerInv'
<1>1. PICK l \in {"frame", "noframe"} : run[r].pc = "read" /\ Goto(r, l) /\ (l = "frame" => source)
  BY DEF Read
<1>2. UNCHANGED <<limit, state, stopEvent, thread, info, counts, buffer, source, ctl, tries, taken, raised>>
  BY DEF Read, object, history
<1>3. RunType' /\ CtlType' /\ ThreadsAgree' /\ Me.pc = "read" /\ MovesTo(l)
  BY <1>1, <1>2, GotoFacts DEF RunPcs, LoopPcs
<1>4. WorkerTypes'
  BY <1>2, <1>3, TypeFrame DEF WorkerInv, WorkerTypes
<1>5. LocalsAgree'
  BY <1>3 DEF WorkerInv, LocalsAgree, MovesTo
<1>6. AttemptsAgree'
  BY <1>2, <1>3, MeType DEF WorkerInv, AttemptsAgree, MovesTo, RunRecords, LoopPcs
<1>7. StateAgrees'
  BY <1>2, <1>3 DEF WorkerInv, StateAgrees, MovesTo
<1>8. FramesAgree'
  BY <1>1, <1>2, <1>3 DEF WorkerInv, FramesAgree, InHand, MovesTo
<1> QED
  BY <1>3, <1>4, <1>5, <1>6, <1>7, <1>8 DEF WorkerInv

\* The source is connected: the thread's locals as _run sets them.
Session(isInitial, attempts) ==
    [Me EXCEPT !.pc = "loop", !.connected = TRUE, !.awaiting = TRUE, !.grace = TRUE,
               !.reconnecting = ~isInitial, !.attempts = attempts]

LEMMA ConnectedInv ==
    ASSUME WorkerInv, NEW r \in Runs, run[r].pc \in {"open", "reconnect"},
           Connected(r, run[r].pc = "open", run[r].attempts),
           UNCHANGED <<limit, state, stopEvent, thread, counts, buffer, ctl, tries, taken, raised>>
    PROVE  WorkerInv'
<1> DEFINE first == run[r].pc = "open"
           m == Session(first, Me.attempts)
<1>1. HasThread /\ Me = run[r] /\ Me \in RunRecords
  BY RunIsMe
<1>2. source' = TRUE /\ info' = TRUE /\ Steps(r, m)
  BY <1>1 DEF Connected, Steps, Session
<1>3. /\ m \in RunRecords /\ m.pc = "loop" /\ m.connected /\ m.awaiting
      /\ m.initial = Me.initial /\ m.attempts = Me.attempts /\ m.reconnecting = ~first
  <2>1. (~first) \in BOOLEAN /\ Me.attempts \in Nat
    BY <1>1 DEF RunRecords
  <2> HIDE DEF first
  <2> QED
    BY <1>1, <2>1 DEF Session, RunRecords, RunPcs, LoopPcs
<1> HIDE DEF m
<1>4. RunType' /\ CtlType' /\ ThreadsAgree' /\ HasThread' /\ Me' = m
  BY <1>2, <1>3, StepsFacts
<1>5. ObjectType'
  BY <1>2 DEF WorkerInv, WorkerTypes, ObjectType
<1>6. WorkerTypes'
  BY <1>2, <1>4, <1>5, TypeFrame DEF WorkerInv, WorkerTypes
<1>7. LocalsAgree'
  BY <1>3, <1>4 DEF LocalsAgree
<1>8. Me.attempts = tries /\ (first => Me.attempts = 0)
  BY <1>1 DEF WorkerInv, LocalsAgree, AttemptsAgree, LoopPcs
<1>9. AttemptsAgree'
  BY <1>1, <1>3, <1>4, <1>8, MeType DEF WorkerInv, AttemptsAgree, RunRecords
<1>10. StateAgrees'
  BY <1>1, <1>2, <1>3, <1>4 DEF WorkerInv, StateAgrees
<1>11. FramesAgree'
  BY <1>1, <1>3, <1>4 DEF WorkerInv, FramesAgree, InHand
<1> QED
  BY <1>4, <1>6, <1>7, <1>9, <1>10, <1>11 DEF WorkerInv

\* An open or a reconnect attempt that raises.
LEMMA RaisedInv ==
    ASSUME WorkerInv, NEW r \in Runs, run[r].pc \in {"open", "reconnect"},
           run' = [run EXCEPT ![r].pc = "lost", ![r].initial = FALSE], source' = FALSE,
           UNCHANGED <<limit, state, stopEvent, thread, info, counts, buffer, ctl, tries, taken, raised>>
    PROVE  WorkerInv'
<1> DEFINE m == [Me EXCEPT !.pc = "lost", !.initial = FALSE]
<1>1. HasThread /\ Me = run[r] /\ Me \in RunRecords
  BY RunIsMe
<1>2. Steps(r, m)
  BY <1>1 DEF Steps
<1>3. /\ m \in RunRecords /\ m.pc = "lost" /\ ~m.initial /\ m.connected = Me.connected
      /\ m.attempts = Me.attempts
  BY <1>1 DEF RunRecords, RunPcs, LoopPcs
<1> HIDE DEF m
<1>4. RunType' /\ CtlType' /\ ThreadsAgree' /\ HasThread' /\ Me' = m
  BY <1>2, <1>3, StepsFacts
<1>5. WorkerTypes'
  BY <1>4, TypeFrame DEF WorkerInv, WorkerTypes
<1>6. ~Me.connected
  BY <1>1 DEF WorkerInv, LocalsAgree
<1>7. LocalsAgree'
  BY <1>3, <1>4, <1>6 DEF LocalsAgree
<1>8. Me.attempts = tries
  BY <1>1 DEF WorkerInv, AttemptsAgree, LoopPcs
<1>9. AttemptsAgree'
  BY <1>1, <1>3, <1>4, <1>6, <1>8, MeType DEF WorkerInv, AttemptsAgree, RunRecords
<1>10. StateAgrees'
  BY <1>1, <1>3, <1>4 DEF WorkerInv, StateAgrees
<1>11. FramesAgree'
  BY <1>1, <1>3, <1>4 DEF WorkerInv, FramesAgree, InHand
<1> QED
  BY <1>4, <1>5, <1>7, <1>9, <1>10, <1>11 DEF WorkerInv

LEMMA OpenInv == ASSUME WorkerInv, NEW r \in Runs, Open(r) PROVE WorkerInv'
<1>1. run[r].pc = "open" /\ Me = run[r] /\ HasThread
  BY RunIsMe DEF Open
<1>2. UNCHANGED <<limit, state, stopEvent, thread, counts, buffer, ctl, tries, taken, raised>>
  BY DEF Open, history
<1>3. run[r].attempts = 0
  BY <1>1 DEF WorkerInv, LocalsAgree, AttemptsAgree
<1>4. CASE Connected(r, TRUE, 0)
  <2>1. (run[r].pc = "open") = TRUE
    BY <1>1
  <2>2. Connected(r, run[r].pc = "open", run[r].attempts)
    BY <1>3, <1>4, <2>1, Zenon
  <2> QED
    BY <1>1, <1>2, <2>2, ConnectedInv
<1>5. CASE /\ run' = [run EXCEPT ![r].pc = "lost", ![r].initial = FALSE]
           /\ source' = FALSE
           /\ UNCHANGED info
  BY <1>1, <1>2, <1>5, RaisedInv
<1> QED
  BY <1>4, <1>5 DEF Open

LEMMA ReconnectInv == ASSUME WorkerInv, NEW r \in Runs, Reconnect(r) PROVE WorkerInv'
<1>1. run[r].pc = "reconnect" /\ Me = run[r] /\ HasThread /\ Me \in RunRecords
  BY RunIsMe DEF Reconnect
<1>2. UNCHANGED <<limit, state, stopEvent, thread, counts, buffer, ctl, tries, taken, raised>>
  BY DEF Reconnect, history
<1>4. CASE Connected(r, FALSE, run[r].attempts)
  <2>1. (run[r].pc = "open") = FALSE
    BY <1>1
  <2>2. Connected(r, run[r].pc = "open", run[r].attempts)
    BY <1>4, <2>1, Zenon
  <2> QED
    BY <1>1, <1>2, <2>2, ConnectedInv
<1>5. CASE Goto(r, "lost") /\ source' = FALSE /\ UNCHANGED info
  <2>1. RunType' /\ CtlType' /\ ThreadsAgree' /\ Me.pc = "reconnect" /\ MovesTo("lost")
    BY <1>1, <1>2, <1>5, GotoFacts DEF RunPcs, LoopPcs
  <2>2. WorkerTypes'
    BY <1>2, <1>5, <2>1, TypeFrame DEF WorkerInv, WorkerTypes
  <2>3. LocalsAgree'
    BY <2>1 DEF WorkerInv, LocalsAgree, MovesTo
  <2>4. AttemptsAgree'
    BY <1>2, <2>1, MeType DEF WorkerInv, AttemptsAgree, MovesTo, RunRecords, LoopPcs
  <2>5. StateAgrees'
    BY <1>2, <1>5, <2>1 DEF WorkerInv, StateAgrees, MovesTo
  <2>6. FramesAgree'
    BY <1>2, <2>1 DEF WorkerInv, FramesAgree, InHand, MovesTo
  <2> QED
    BY <2>1, <2>2, <2>3, <2>4, <2>5, <2>6 DEF WorkerInv
<1> QED
  BY <1>4, <1>5 DEF Reconnect

\* The delay of every attempt is a number, whatever the configured delay.
LEMMA DelayType ==
    ASSUME NEW base \in Nat, NEW n \in Nat \ {0}
    PROVE  ReconnectDelay(base, n) \in Nat
<1> DEFINE factor == BackoffFactors[IF n < 5 THEN n ELSE 5]
           least  == IF base < MinDelay THEN MinDelay ELSE base
<1>1. factor \in {1, 2, 3, 5}
  <2>1. (IF n < 5 THEN n ELSE 5) \in {1, 2, 3, 4, 5}
    OBVIOUS
  <2> QED
    BY <2>1 DEF BackoffFactors
<1>2. least \in Nat /\ MinDelay \in Nat /\ MaxDelay \in Nat
  BY DEF MinDelay, MaxDelay
<1> HIDE DEF factor, least
<1>3. least * factor \in Nat
  BY <1>1, <1>2
<1>4. ReconnectDelay(base, n) = IF base = 0 THEN MinDelay
                                ELSE IF least * factor > MaxDelay THEN MaxDelay ELSE least * factor
  BY DEF ReconnectDelay, factor, least
<1> QED
  BY <1>2, <1>3, <1>4

LEMMA ScheduleInv == ASSUME WorkerInv, NEW r \in Runs, Schedule(r) PROVE WorkerInv'
<1> DEFINE d == ReconnectDelay(BaseDelay, Me.attempts + 1)
           m == [Me EXCEPT !.pc = "backoff", !.delay = d]
<1>1. run[r].pc = "schedule" /\ HasThread /\ Me = run[r] /\ Me \in RunRecords
  BY RunIsMe DEF Schedule
<1>2. /\ Steps(r, m)
      /\ UNCHANGED <<limit, stopEvent, thread, info, counts, buffer, source, ctl, tries, taken, raised>>
  BY <1>1 DEF Schedule, Steps, history
<1>3. d \in Nat
  <2>1. Me.attempts \in Nat
    BY <1>1 DEF RunRecords
  <2>2. Me.attempts + 1 \in Nat \ {0}
    BY <2>1
  <2> QED
    BY <2>2, DelayType, BoundsAssumption
<1>4. Me.attempts = tries
  BY <1>1 DEF WorkerInv, AttemptsAgree, LoopPcs
<1>5. d = ReconnectDelay(BaseDelay, tries + 1)
  BY <1>4
<1> HIDE DEF d
<1>6. /\ m \in RunRecords /\ m.pc = "backoff" /\ m.delay = d
      /\ m.connected = Me.connected /\ m.initial = Me.initial /\ m.awaiting = Me.awaiting
      /\ m.reconnecting = Me.reconnecting /\ m.attempts = Me.attempts
  BY <1>1, <1>3 DEF RunRecords, RunPcs, LoopPcs
<1> HIDE DEF m
<1>7. RunType' /\ CtlType' /\ ThreadsAgree' /\ HasThread' /\ Me' = m
  BY <1>1, <1>2, <1>6, StepsFacts
<1>s. /\ state' \in States
      /\ \/ state' = state /\ (state = "failed" \/ stopEvent)
         \/ state' = "reconnecting" /\ state /= "failed" /\ ~stopEvent
  BY SetStateFacts DEF Schedule, WorkerInv, WorkerTypes, States
<1>8. WorkerTypes'
  BY <1>2, <1>7, <1>s, TypeFrame DEF WorkerInv, WorkerTypes
<1>9. LocalsAgree'
  BY <1>1, <1>6, <1>7 DEF WorkerInv, LocalsAgree
<1>10. AttemptsAgree'
  <2>1. Me'.pc = "backoff" => Me'.delay = ReconnectDelay(BaseDelay, tries' + 1)
    BY <1>2, <1>5, <1>6, <1>7
  <2>2. state' = "failed" => state = "failed"
    BY <1>s
  <2> QED
    BY <1>1, <1>2, <1>4, <1>6, <1>7, <2>1, <2>2, MeType DEF WorkerInv, AttemptsAgree, LoopPcs
<1>11. StateAgrees'
  BY <1>1, <1>2, <1>6, <1>7, <1>s DEF WorkerInv, StateAgrees
<1>12. FramesAgree'
  BY <1>1, <1>2, <1>6, <1>7 DEF WorkerInv, FramesAgree, InHand
<1> QED
  BY <1>7, <1>8, <1>9, <1>10, <1>11, <1>12 DEF WorkerInv

\* A stopped loop goes to its finally clause.
LEMMA LeaveInv ==
    ASSUME WorkerInv, NEW r \in Runs, run[r].pc \in {"backoff", "frame", "noframe"}, stopEvent,
           Goto(r, "finally"),
           UNCHANGED <<limit, state, stopEvent, thread, info, counts, buffer, source, ctl, tries, taken, raised>>
    PROVE  WorkerInv'
<1>1. RunType' /\ CtlType' /\ ThreadsAgree' /\ Me.pc = run[r].pc /\ MovesTo("finally")
  BY GotoFacts DEF RunPcs
<1>2. WorkerTypes'
  BY <1>1, TypeFrame DEF WorkerInv, WorkerTypes
<1>3. LocalsAgree'
  BY <1>1 DEF LocalsAgree, MovesTo
<1>4. AttemptsAgree'
  BY <1>1, MeType DEF WorkerInv, AttemptsAgree, MovesTo, RunRecords, LoopPcs
<1>5. StateAgrees'
  BY <1>1 DEF WorkerInv, StateAgrees, MovesTo
<1>6. FramesAgree'
  BY <1>1 DEF WorkerInv, FramesAgree, InHand, MovesTo
<1> QED
  BY <1>1, <1>2, <1>3, <1>4, <1>5, <1>6 DEF WorkerInv

LEMMA BackoffInv == ASSUME WorkerInv, NEW r \in Runs, Backoff(r) PROVE WorkerInv'
<1>1. run[r].pc = "backoff" /\ HasThread /\ Me = run[r] /\ Me \in RunRecords
  BY RunIsMe DEF Backoff
<1>2. UNCHANGED <<limit, state, stopEvent, thread, info, buffer, source, ctl, taken, raised>>
  BY DEF Backoff
<1>3. CASE stopEvent /\ Goto(r, "finally") /\ UNCHANGED <<counts, tries>>
  BY <1>1, <1>2, <1>3, LeaveInv
<1>4. CASE /\ ~stopEvent
           /\ run' = [run EXCEPT ![r].pc = "reconnect", ![r].attempts = @ + 1, ![r].delay = 0]
           /\ counts' = [counts EXCEPT !.reconnects = @ + 1]
           /\ tries' = tries + 1
  <2> DEFINE m == [Me EXCEPT !.pc = "reconnect", !.attempts = Me.attempts + 1, !.delay = 0]
  <2>1. Steps(r, m)
    BY <1>1, <1>4 DEF Steps
  <2>2. Me.attempts \in Nat /\ Me.attempts + 1 \in Nat
    BY <1>1 DEF RunRecords
  <2>3. /\ m \in RunRecords /\ m.pc = "reconnect" /\ m.attempts = Me.attempts + 1
        /\ m.connected = Me.connected /\ m.initial = Me.initial
    BY <1>1, <2>2 DEF RunRecords, RunPcs, LoopPcs
  <2> HIDE DEF m
  <2>4. RunType' /\ CtlType' /\ ThreadsAgree' /\ HasThread' /\ Me' = m
    BY <1>1, <1>2, <2>1, <2>3, StepsFacts
  <2>5. ObjectType' /\ HistoryType' /\ counts'.frames = counts.frames
    BY <1>2, <1>4 DEF WorkerInv, WorkerTypes, ObjectType, HistoryType
  <2>6. WorkerTypes'
    BY <1>2, <2>4, <2>5, TypeFrame DEF WorkerInv, WorkerTypes
  <2>7. LocalsAgree'
    BY <1>1, <2>3, <2>4 DEF WorkerInv, LocalsAgree
  <2>8. Me.attempts = tries /\ (limit > 0 => Me.attempts < limit) /\ ~Me.connected /\ ~Me.initial
    BY <1>1 DEF WorkerInv, LocalsAgree, AttemptsAgree, LoopPcs
  <2>9. state' /= "failed"
    BY <1>1, <1>2 DEF WorkerInv, StateAgrees
  <2>10. AttemptsAgree'
    BY <1>1, <1>2, <1>4, <2>2, <2>3, <2>4, <2>8, <2>9, MeType DEF AttemptsAgree
  <2>11. StateAgrees'
    BY <1>1, <1>2, <2>3, <2>4 DEF WorkerInv, StateAgrees
  <2>12. FramesAgree'
    BY <1>1, <1>2, <2>3, <2>4, <2>5 DEF WorkerInv, FramesAgree, InHand
  <2> QED
    BY <2>4, <2>6, <2>7, <2>10, <2>11, <2>12 DEF WorkerInv
<1> QED
  BY <1>3, <1>4 DEF Backoff

\* The consumer's frame and the dropped ones were all of the buffer's.
LEMMA FramesOut ==
    ASSUME NEW f \in Nat, NEW t \in Nat, NEW d \in Nat, NEW k \in Nat \ {0}, NEW h \in Nat,
           f = t + d + k + h
    PROVE  d + k - 1 \in Nat /\ f = (t + 1) + (d + k - 1) + 0 + h
OBVIOUS

\* LatestFrameBuffer.put: every frame stays in the buffer or is dropped.
LEMMA PutFacts ==
    ASSUME NEW b \in Buffers, Len(b.items) <= MaxBuffer, NEW f \in Nat
    PROVE  /\ Put(b, f) \in Buffers /\ Len(Put(b, f).items) <= MaxBuffer
           /\ Put(b, f).closed = b.closed
           /\ ~b.closed => Put(b, f).dropped + Len(Put(b, f).items) = b.dropped + Len(b.items) + 1
<1>1. b.items \in Seq(Nat) /\ b.dropped \in Nat /\ b.closed \in BOOLEAN /\ Len(b.items) \in Nat
  BY DEF Buffers
<1> DEFINE full  == Len(b.items) >= MaxBuffer
           items == Append(IF full THEN Tail(b.items) ELSE b.items, f)
           drop  == IF full THEN b.dropped + 1 ELSE b.dropped
<1>2. /\ items \in Seq(Nat) /\ drop \in Nat
      /\ Len(items) <= MaxBuffer /\ drop + Len(items) = b.dropped + Len(b.items) + 1
  <2>1. CASE full
    <3>1. b.items /= <<>> /\ Len(b.items) = MaxBuffer
      BY <1>1, <2>1, BoundsAssumption
    <3>2. Tail(b.items) \in Seq(Nat) /\ Len(Tail(b.items)) = Len(b.items) - 1
      BY <1>1, <3>1
    <3> QED
      BY <1>1, <2>1, <3>1, <3>2
  <2>2. CASE ~full
    BY <1>1, <2>2, BoundsAssumption
  <2> QED
    BY <2>1, <2>2
<1>3. ~b.closed => Put(b, f) = [b EXCEPT !.items = items, !.dropped = drop]
  BY DEF Put
<1> HIDE DEF items, drop, full
<1>4. CASE ~b.closed
  <2>1. /\ Put(b, f) \in Buffers /\ Put(b, f).items = items /\ Put(b, f).dropped = drop
        /\ Put(b, f).closed = b.closed
    BY <1>2, <1>3, <1>4 DEF Buffers
  <2> QED
    BY <1>2, <2>1
<1>5. CASE b.closed
  BY <1>5 DEF Put
<1> QED
  BY <1>4, <1>5

LEMMA FrameInv == ASSUME WorkerInv, NEW r \in Runs, Frame(r) PROVE WorkerInv'
<1>1. /\ run[r].pc = "frame" /\ HasThread /\ Me = run[r]
      /\ UNCHANGED <<limit, state, stopEvent, thread, info, counts, buffer, source, ctl, tries, taken, raised>>
  BY RunIsMe DEF Frame, object, history
<1>2. CASE stopEvent /\ Goto(r, "finally")
  BY <1>1, <1>2, LeaveInv
<1>3. CASE Goto(r, "count")
  <2>1. RunType' /\ CtlType' /\ ThreadsAgree' /\ Me.pc = "frame" /\ MovesTo("count")
    BY <1>1, <1>3, GotoFacts DEF RunPcs, LoopPcs
  <2>2. WorkerTypes'
    BY <1>1, <2>1, TypeFrame DEF WorkerInv, WorkerTypes
  <2>3. LocalsAgree'
    BY <2>1 DEF WorkerInv, LocalsAgree, MovesTo
  <2>4. AttemptsAgree'
    BY <1>1, <2>1, MeType DEF WorkerInv, AttemptsAgree, MovesTo, RunRecords, LoopPcs
  <2>5. StateAgrees'
    BY <1>1, <2>1 DEF WorkerInv, StateAgrees, MovesTo
  <2>6. FramesAgree'
    BY <1>1, <2>1 DEF WorkerInv, FramesAgree, InHand, MovesTo
  <2> QED
    BY <2>1, <2>2, <2>3, <2>4, <2>5, <2>6 DEF WorkerInv
<1> QED
  BY <1>1, <1>2, <1>3 DEF Frame

LEMMA CountFrameInv == ASSUME WorkerInv, NEW r \in Runs, CountFrame(r) PROVE WorkerInv'
<1>1. /\ run[r].pc = "count" /\ Goto(r, "put") /\ counts' = [counts EXCEPT !.frames = @ + 1]
      /\ UNCHANGED <<limit, state, stopEvent, thread, info, buffer, source, ctl, tries, taken, raised>>
  BY DEF CountFrame, history
<1>2. RunType' /\ CtlType' /\ ThreadsAgree' /\ Me.pc = "count" /\ MovesTo("put")
  BY <1>1, GotoFacts DEF RunPcs, LoopPcs
<1>3. ObjectType' /\ counts'.frames = counts.frames + 1 /\ counts.frames \in Nat
  BY <1>1 DEF WorkerInv, WorkerTypes, ObjectType
<1>4. WorkerTypes'
  BY <1>1, <1>2, <1>3, TypeFrame DEF WorkerInv, WorkerTypes
<1>5. LocalsAgree'
  BY <1>2 DEF WorkerInv, LocalsAgree, MovesTo
<1>6. AttemptsAgree'
  BY <1>1, <1>2, MeType DEF WorkerInv, AttemptsAgree, MovesTo, RunRecords, LoopPcs
<1>7. StateAgrees'
  BY <1>1, <1>2 DEF WorkerInv, StateAgrees, MovesTo
<1>8. FramesAgree'
  <2>1. ~InHand /\ InHand'
    BY <1>2 DEF InHand, MovesTo
  <2>2. counts.frames = taken + buffer.dropped + Len(buffer.items) + 0
    BY <2>1 DEF WorkerInv, FramesAgree
  <2>3. taken \in Nat /\ buffer.dropped \in Nat /\ Len(buffer.items) \in Nat
    BY DEF WorkerInv, WorkerTypes, HistoryType, BufferType, Buffers
  <2> DEFINE k == Len(buffer.items)
  <2>4. k \in Nat /\ counts.frames = taken + buffer.dropped + k + 0
    BY <2>2, <2>3
  <2> HIDE DEF k
  <2>5. counts.frames + 1 = taken + buffer.dropped + k + 1
    BY <2>3, <2>4
  <2> QED
    BY <1>1, <1>3, <2>1, <2>5 DEF FramesAgree, k
<1> QED
  BY <1>2, <1>4, <1>5, <1>6, <1>7, <1>8 DEF WorkerInv

LEMMA PutFrameInv == ASSUME WorkerInv, NEW r \in Runs, PutFrame(r) PROVE WorkerInv'
<1>1. run[r].pc = "put" /\ HasThread /\ Me = run[r] /\ Me \in RunRecords
  BY RunIsMe DEF PutFrame
<1>2. /\ UNCHANGED <<limit, state, stopEvent, thread, info, counts, source, ctl, taken, raised>>
      /\ buffer' = Put(buffer, counts.frames) /\ tries' = 0
  BY DEF PutFrame, object
<1>3. PICK l \in {"announce", "loop"} : Goto(r, l) /\ (l = "announce" <=> Me.awaiting)
  BY <1>1 DEF PutFrame
<1>4. RunType' /\ CtlType' /\ ThreadsAgree' /\ Me.pc = "put" /\ MovesTo(l)
  BY <1>1, <1>2, <1>3, GotoFacts DEF RunPcs, LoopPcs
<1>5. ObjectType' /\ HistoryType' /\ counts.frames \in Nat /\ taken \in Nat
  BY <1>2 DEF WorkerInv, WorkerTypes, ObjectType, HistoryType
<1>6. BufferType
  BY DEF WorkerInv, WorkerTypes
<1>7. /\ BufferType' /\ buffer'.closed = buffer.closed
      /\ ~buffer.closed => buffer'.dropped + Len(buffer'.items) = buffer.dropped + Len(buffer.items) + 1
  BY <1>2, <1>5, <1>6, PutFacts DEF BufferType
<1>8. ~buffer.closed
  BY <1>1 DEF WorkerInv, StateAgrees
<1>9. WorkerTypes'
  BY <1>2, <1>4, <1>5, <1>7 DEF WorkerInv, WorkerTypes
<1>10. LocalsAgree'
  BY <1>3, <1>4 DEF WorkerInv, LocalsAgree, MovesTo
<1>11. AttemptsAgree'
  <2>1. state' /= "failed"
    BY <1>1, <1>2 DEF WorkerInv, StateAgrees
  <2> QED
    BY <1>2, <1>3, <1>4, <2>1, MeType
       DEF WorkerInv, AttemptsAgree, LocalsAgree, MovesTo, RunRecords, LoopPcs
<1>12. StateAgrees'
  BY <1>2, <1>3, <1>4, <1>7 DEF WorkerInv, StateAgrees, MovesTo
<1>13. FramesAgree'
  <2>1. InHand /\ ~InHand'
    BY <1>3, <1>4 DEF InHand, MovesTo
  <2> DEFINE k  == Len(buffer.items)
             k2 == Len(buffer'.items)
             d2 == buffer'.dropped
  <2>2. k \in Nat /\ k2 \in Nat /\ d2 \in Nat /\ buffer.dropped \in Nat
    BY <1>6, <1>7 DEF BufferType, Buffers
  <2>3. counts.frames = taken + buffer.dropped + k + 1 /\ d2 + k2 = buffer.dropped + k + 1
    BY <1>7, <1>8, <2>1 DEF WorkerInv, FramesAgree
  <2> HIDE DEF k, k2, d2
  <2>4. counts.frames = taken + d2 + k2 + 0
    BY <1>5, <2>2, <2>3
  <2> QED
    BY <1>2, <2>1, <2>4 DEF FramesAgree, k2, d2
<1> QED
  BY <1>4, <1>9, <1>10, <1>11, <1>12, <1>13 DEF WorkerInv

\* An exception ends the loop wherever it was but for the inner try statements.
LEMMA LoopRaisesInv == ASSUME WorkerInv, NEW r \in Runs, LoopRaises(r) PROVE WorkerInv'
<1>1. PICK l \in {"finally", "raised"} : Goto(r, l) /\ (l = "finally" => stopEvent)
  BY DEF LoopRaises
<1>2. /\ run[r].pc \in LoopPcs \ {"open", "reconnect", "read", "put"}
      /\ UNCHANGED <<limit, state, stopEvent, thread, info, counts, buffer, source, ctl, tries, taken, raised>>
  BY DEF LoopRaises, object, history
<1>3. RunType' /\ CtlType' /\ ThreadsAgree' /\ Me.pc = run[r].pc /\ MovesTo(l)
  BY <1>1, <1>2, GotoFacts DEF RunPcs, LoopPcs
<1>4. WorkerTypes'
  BY <1>2, <1>3, TypeFrame DEF WorkerInv, WorkerTypes
<1>5. LocalsAgree'
  BY <1>3 DEF LocalsAgree, MovesTo
<1>6. AttemptsAgree'
  BY <1>2, <1>3, MeType DEF WorkerInv, AttemptsAgree, MovesTo, RunRecords, LoopPcs
<1>7. StateAgrees'
  BY <1>1, <1>2, <1>3 DEF WorkerInv, StateAgrees, MovesTo, LoopPcs
<1>8. FramesAgree'
  BY <1>2, <1>3 DEF WorkerInv, FramesAgree, InHand, MovesTo
<1> QED
  BY <1>3, <1>4, <1>5, <1>6, <1>7, <1>8 DEF WorkerInv

LEMMA GuardFailsInv == ASSUME WorkerInv, NEW r \in Runs, GuardFails(r) PROVE WorkerInv'
<1>1. /\ run[r].pc = "raised" /\ Goto(r, "finally") /\ state' = "failed" /\ state' \in States /\ raised' = TRUE
      /\ UNCHANGED <<limit, stopEvent, thread, info, counts, buffer, source, ctl, tries, taken>>
  BY DEF GuardFails, States
<1>2. RunType' /\ CtlType' /\ ThreadsAgree' /\ Me.pc = "raised" /\ MovesTo("finally")
  BY <1>1, GotoFacts DEF RunPcs
<1>3. HistoryType'
  BY <1>1 DEF WorkerInv, WorkerTypes, HistoryType
<1>4. WorkerTypes'
  BY <1>1, <1>2, <1>3, TypeFrame DEF WorkerInv, WorkerTypes
<1>5. LocalsAgree'
  BY <1>2 DEF LocalsAgree, MovesTo
<1>6. AttemptsAgree'
  BY <1>1, <1>2, MeType DEF WorkerInv, AttemptsAgree, MovesTo, RunRecords, LoopPcs
<1>7. StateAgrees'
  BY <1>1, <1>2 DEF WorkerInv, StateAgrees, MovesTo
<1>8. FramesAgree'
  BY <1>1, <1>2 DEF WorkerInv, FramesAgree, InHand, MovesTo
<1> QED
  BY <1>2, <1>4, <1>5, <1>6, <1>7, <1>8 DEF WorkerInv

LEMMA AnnounceInv == ASSUME WorkerInv, NEW r \in Runs, Announce(r) PROVE WorkerInv'
<1>1. run[r].pc = "announce" /\ HasThread /\ Me = run[r] /\ Me \in RunRecords
  BY RunIsMe DEF Announce
<1> DEFINE n == IF Me.reconnecting THEN 0 ELSE Me.attempts
           m == [Me EXCEPT !.pc = "loop", !.awaiting = FALSE, !.attempts = n]
<1>2. /\ Steps(r, m)
      /\ UNCHANGED <<limit, stopEvent, thread, info, counts, buffer, source, ctl, tries, taken, raised>>
  BY <1>1 DEF Announce, Steps, history
<1>3. n = 0 /\ tries = 0 /\ Me.connected
  BY <1>1 DEF WorkerInv, LocalsAgree, AttemptsAgree
<1> HIDE DEF n
<1>4. /\ m \in RunRecords /\ m.pc = "loop" /\ m.attempts = 0 /\ ~m.awaiting
      /\ m.connected = Me.connected /\ m.initial = Me.initial
  BY <1>1, <1>3 DEF RunRecords, RunPcs, LoopPcs
<1> HIDE DEF m
<1>5. RunType' /\ CtlType' /\ ThreadsAgree' /\ HasThread' /\ Me' = m
  BY <1>1, <1>2, <1>4, StepsFacts
<1>s. /\ state' \in States
      /\ \/ state' = state /\ (state = "failed" \/ stopEvent)
         \/ state' = "running" /\ state /= "failed" /\ ~stopEvent
  BY SetStateFacts DEF Announce, WorkerInv, WorkerTypes, States
<1>6. WorkerTypes'
  BY <1>2, <1>5, <1>s, TypeFrame DEF WorkerInv, WorkerTypes
<1>7. LocalsAgree'
  BY <1>4, <1>5 DEF LocalsAgree
<1>8. AttemptsAgree'
  <2>1. state' /= "failed"
    BY <1>1, <1>s DEF WorkerInv, StateAgrees
  <2> QED
    BY <1>2, <1>3, <1>4, <1>5, <2>1, MeType DEF AttemptsAgree
<1>9. StateAgrees'
  BY <1>1, <1>2, <1>3, <1>4, <1>5, <1>s DEF WorkerInv, StateAgrees
<1>10. FramesAgree'
  BY <1>1, <1>2, <1>4, <1>5 DEF WorkerInv, FramesAgree, InHand
<1> QED
  BY <1>5, <1>6, <1>7, <1>8, <1>9, <1>10 DEF WorkerInv

LEMMA NoFrameInv == ASSUME WorkerInv, NEW r \in Runs, NoFrame(r) PROVE WorkerInv'
<1>1. run[r].pc = "noframe" /\ HasThread /\ Me = run[r] /\ Me \in RunRecords
  BY RunIsMe DEF NoFrame
<1>2. UNCHANGED <<limit, state, stopEvent, thread, info, counts, buffer, source, ctl, tries, taken, raised>>
  BY DEF NoFrame, object, history
<1>3. CASE stopEvent /\ Goto(r, "finally")
  BY <1>1, <1>2, <1>3, LeaveInv
<1>4. CASE Goto(r, "loop")
  <2>1. RunType' /\ CtlType' /\ ThreadsAgree' /\ Me.pc = "noframe" /\ MovesTo("loop")
    BY <1>1, <1>2, <1>4, GotoFacts DEF RunPcs, LoopPcs
  <2>2. WorkerTypes'
    BY <1>2, <2>1, TypeFrame DEF WorkerInv, WorkerTypes
  <2>3. LocalsAgree'
    BY <2>1 DEF WorkerInv, LocalsAgree, MovesTo
  <2>4. AttemptsAgree'
    BY <1>2, <2>1, MeType DEF WorkerInv, AttemptsAgree, MovesTo, RunRecords, LoopPcs
  <2>5. StateAgrees'
    BY <1>2, <2>1 DEF WorkerInv, StateAgrees, MovesTo
  <2>6. FramesAgree'
    BY <1>2, <2>1 DEF WorkerInv, FramesAgree, InHand, MovesTo
  <2> QED
    BY <2>1, <2>2, <2>3, <2>4, <2>5, <2>6 DEF WorkerInv
<1>5. CASE run' = [run EXCEPT ![r].pc = "lost", ![r].connected = FALSE, ![r].initial = FALSE]
  <2> DEFINE m == [Me EXCEPT !.pc = "lost", !.connected = FALSE, !.initial = FALSE]
  <2>1. Steps(r, m)
    BY <1>1, <1>5 DEF Steps
  <2>2. /\ m \in RunRecords /\ m.pc = "lost" /\ m.attempts = Me.attempts
        /\ ~m.connected /\ ~m.initial /\ m.awaiting = Me.awaiting
    BY <1>1 DEF RunRecords, RunPcs, LoopPcs
  <2> HIDE DEF m
  <2>3. RunType' /\ CtlType' /\ ThreadsAgree' /\ HasThread' /\ Me' = m
    BY <1>1, <1>2, <2>1, <2>2, StepsFacts
  <2>4. WorkerTypes'
    BY <1>2, <2>3, TypeFrame DEF WorkerInv, WorkerTypes
  <2>5. LocalsAgree'
    BY <2>2, <2>3 DEF LocalsAgree
  <2>6. Me.attempts = tries
    BY <1>1 DEF WorkerInv, AttemptsAgree, LoopPcs
  <2>7. AttemptsAgree'
    BY <1>2, <2>2, <2>3, <2>6 DEF WorkerInv, AttemptsAgree
  <2>8. StateAgrees'
    BY <1>1, <1>2, <2>2, <2>3 DEF WorkerInv, StateAgrees
  <2>9. FramesAgree'
    BY <1>1, <1>2, <2>2, <2>3 DEF WorkerInv, FramesAgree, InHand
  <2> QED
    BY <2>3, <2>4, <2>5, <2>7, <2>8, <2>9 DEF WorkerInv
<1> QED
  BY <1>3, <1>4, <1>5 DEF NoFrame

\* Time passes for a thread: no label moves.
LEMMA GraceExpiresInv == ASSUME WorkerInv, NEW r \in Runs, GraceExpires(r) PROVE WorkerInv'
<1>1. /\ run' = [run EXCEPT ![r].grace = FALSE]
      /\ UNCHANGED <<limit, state, stopEvent, thread, info, counts, buffer, source, ctl, tries, taken, raised>>
  BY DEF GraceExpires, object, history
<1>2. RunType
  BY DEF WorkerInv, WorkerTypes
<1>3. \A m \in RunRecords : /\ [m EXCEPT !.grace = FALSE] \in RunRecords
                             /\ [m EXCEPT !.grace = FALSE].pc = m.pc
  BY DEF RunRecords
<1>4. RunType' /\ \A q \in Runs : run'[q].pc = run[q].pc
  BY <1>1, <1>2, <1>3 DEF RunType
<1>5. HasThread => /\ Me \in RunRecords /\ Me'.pc = Me.pc
                   /\ Me'.connected = Me.connected /\ Me'.initial = Me.initial
                   /\ Me'.awaiting = Me.awaiting /\ Me'.reconnecting = Me.reconnecting
                   /\ Me'.attempts = Me.attempts /\ Me'.delay = Me.delay
  <2> SUFFICES ASSUME HasThread
               PROVE  /\ Me \in RunRecords /\ Me'.pc = Me.pc
                      /\ Me'.connected = Me.connected /\ Me'.initial = Me.initial
                      /\ Me'.awaiting = Me.awaiting /\ Me'.reconnecting = Me.reconnecting
                      /\ Me'.attempts = Me.attempts /\ Me'.delay = Me.delay
    OBVIOUS
  <2>1. Me \in RunRecords /\ thread \in Runs
    BY MeType
  <2>2. CASE thread = r
    <3>1. Me' = [Me EXCEPT !.grace = FALSE]
      BY <1>1, <1>2, <2>1, <2>2 DEF RunType, Me
    <3> QED
      BY <2>1, <3>1 DEF RunRecords
  <2>3. CASE thread /= r
    <3>1. Me' = Me
      BY <1>1, <1>2, <2>1, <2>3 DEF RunType, Me
    <3> QED
      BY <2>1, <3>1
  <2> QED
    BY <2>2, <2>3
<1>6. HasThread' <=> HasThread
  BY <1>1 DEF HasThread
<1>7. WorkerTypes'
  BY <1>1, <1>4, TypeFrame DEF WorkerInv, WorkerTypes
<1>8. ThreadsAgree'
  <2>1. \A c \in Controllers : ctl[c].pc \in {"launch", "finish"} => Me'.pc = Me.pc
    BY <1>5 DEF WorkerInv, ThreadsAgree
  <2> QED
    BY <1>1, <1>4, <1>5, <1>6, <2>1 DEF WorkerInv, ThreadsAgree
<1>9. LocalsAgree'
  BY <1>5, <1>6 DEF WorkerInv, LocalsAgree
<1>10. AttemptsAgree'
  BY <1>1, <1>5, <1>6 DEF WorkerInv, AttemptsAgree
<1>11. StateAgrees'
  BY <1>1, <1>5, <1>6 DEF WorkerInv, StateAgrees
<1>12. FramesAgree'
  BY <1>1, <1>5, <1>6 DEF WorkerInv, FramesAgree, InHand
<1> QED
  BY <1>7, <1>8, <1>9, <1>10, <1>11, <1>12 DEF WorkerInv

LEMMA ShutdownInv == ASSUME WorkerInv, NEW r \in Runs, Shutdown(r) PROVE WorkerInv'
<1>1. run[r].pc = "shutdown" /\ Goto(r, "exiting")
  BY DEF Shutdown
<1>2. /\ UNCHANGED <<limit, stopEvent, thread, info, counts, source, ctl, tries, taken, raised>>
      /\ buffer' = [buffer EXCEPT !.closed = TRUE]
  BY DEF Shutdown, history
<1>3. RunType' /\ CtlType' /\ ThreadsAgree' /\ Me.pc = "shutdown" /\ MovesTo("exiting")
  BY <1>1, <1>2, GotoFacts DEF RunPcs
<1>4. state' \in {"failed", "stopped"} /\ state' \in States /\ (state' = "failed" => state = "failed")
  BY DEF Shutdown, States
<1>5. BufferType' /\ buffer'.closed /\ buffer'.items = buffer.items /\ buffer'.dropped = buffer.dropped
  BY <1>2 DEF WorkerInv, WorkerTypes, BufferType, Buffers
<1>6. WorkerTypes'
  BY <1>2, <1>3, <1>4, <1>5, TypeFrame DEF WorkerInv, WorkerTypes
<1>7. LocalsAgree'
  BY <1>3 DEF LocalsAgree, MovesTo
<1>8. AttemptsAgree'
  BY <1>2, <1>3, <1>4, MeType DEF WorkerInv, AttemptsAgree, MovesTo, RunRecords, LoopPcs
<1>9. StateAgrees'
  BY <1>2, <1>3, <1>4, <1>5 DEF WorkerInv, StateAgrees, MovesTo
<1>10. FramesAgree'
  BY <1>2, <1>3, <1>5 DEF WorkerInv, FramesAgree, InHand, MovesTo
<1> QED
  BY <1>3, <1>6, <1>7, <1>8, <1>9, <1>10 DEF WorkerInv

LEMMA FreshType ==
    ASSUME NEW l \in RunPcs
    PROVE  /\ FreshRun(l) \in RunRecords /\ FreshRun(l).pc = l /\ FreshRun(l).initial
           /\ ~FreshRun(l).connected /\ FreshRun(l).attempts = 0
BY DEF FreshRun, RunRecords

LEMMA ExitInv == ASSUME WorkerInv, NEW r \in Runs, Exit(r) PROVE WorkerInv'
<1> DEFINE m == FreshRun("dead")
<1>1. run[r].pc = "exiting" /\ HasThread /\ Me = run[r]
  BY RunIsMe DEF Exit
<1>2. /\ Steps(r, m)
      /\ UNCHANGED <<limit, state, stopEvent, thread, info, counts, buffer, source, ctl, tries, taken, raised>>
  BY DEF Exit, Steps, object, history
<1>3. m \in RunRecords /\ m.pc = "dead" /\ m.initial /\ ~m.connected /\ m.attempts = 0
  BY FreshType DEF RunPcs
<1> HIDE DEF m
<1>4. RunType' /\ CtlType' /\ ThreadsAgree' /\ HasThread' /\ Me' = m
  BY <1>1, <1>2, <1>3, StepsFacts
<1>5. WorkerTypes'
  BY <1>2, <1>4, TypeFrame DEF WorkerInv, WorkerTypes
<1>6. LocalsAgree'
  BY <1>3, <1>4 DEF LocalsAgree
<1>7. AttemptsAgree'
  BY <1>2, <1>3, <1>4 DEF WorkerInv, AttemptsAgree, LoopPcs
<1>8. StateAgrees'
  BY <1>1, <1>2, <1>3, <1>4 DEF WorkerInv, StateAgrees
<1>9. FramesAgree'
  BY <1>1, <1>2, <1>3, <1>4 DEF WorkerInv, FramesAgree, InHand
<1> QED
  BY <1>4, <1>5, <1>6, <1>7, <1>8, <1>9 DEF WorkerInv

\* The consumer takes the newest frame and drops the others.
LEMMA GetLatestInv == ASSUME WorkerInv, GetLatest PROVE WorkerInv'
<1>1. /\ buffer.items /= <<>> /\ taken' = taken + 1 /\ buffer' = TakeLatest(buffer)
      /\ UNCHANGED <<limit, state, stopEvent, thread, info, counts, run, source, ctl, tries, raised>>
  BY DEF GetLatest, object
<1>2. BufferType /\ HistoryType /\ ObjectType
  BY DEF WorkerInv, WorkerTypes
<1>3. /\ buffer.items \in Seq(Nat) /\ Len(buffer.items) \in Nat /\ Len(buffer.items) >= 1
      /\ buffer.dropped \in Nat /\ taken \in Nat /\ counts.frames \in Nat
  BY <1>1, <1>2 DEF BufferType, Buffers, HistoryType, ObjectType
<1> DEFINE d == buffer.dropped + Len(buffer.items) - 1
<1>4. <<>> \in Seq(Nat) /\ Len(<<>>) = 0
  OBVIOUS
<1>5. buffer' = [buffer EXCEPT !.items = <<>>, !.dropped = d]
  BY <1>1 DEF TakeLatest
<1> DEFINE h == IF InHand THEN 1 ELSE 0
<1>6. d \in Nat /\ counts.frames = (taken + 1) + d + 0 + h
  <2>1. counts.frames = taken + buffer.dropped + Len(buffer.items) + h /\ h \in Nat
    BY DEF WorkerInv, FramesAgree
  <2>2. Len(buffer.items) \in Nat \ {0}
    BY <1>3
  <2> DEFINE k == Len(buffer.items)
             b == buffer.dropped
  <2>3. k \in Nat \ {0} /\ b \in Nat /\ counts.frames = taken + b + k + h
    BY <1>3, <2>1, <2>2
  <2> HIDE DEF h, k, b
  <2>4. b + k - 1 \in Nat /\ counts.frames = (taken + 1) + (b + k - 1) + 0 + h
    BY <1>3, <2>1, <2>3, FramesOut
  <2> QED
    BY <2>4 DEF k, b
<1> HIDE DEF d
<1>7. BufferType' /\ buffer'.items = <<>> /\ buffer'.dropped = d /\ buffer'.closed = buffer.closed
  <2>1. buffer' \in Buffers /\ buffer'.items = <<>> /\ buffer'.dropped = d /\ buffer'.closed = buffer.closed
    BY <1>2, <1>4, <1>5, <1>6 DEF BufferType, Buffers
  <2>2. Len(buffer'.items) <= MaxBuffer
    BY <1>4, <2>1, BoundsAssumption
  <2> QED
    BY <2>1, <2>2 DEF BufferType
<1>8. HistoryType'
  BY <1>1, <1>2 DEF HistoryType
<1>9. HasThread' = HasThread /\ Me' = Me
  BY <1>1 DEF HasThread, Me
<1>10. WorkerTypes'
  BY <1>1, <1>7, <1>8, TypeFrame DEF WorkerInv, WorkerTypes
<1>11. ThreadsAgree' /\ LocalsAgree' /\ AttemptsAgree'
  BY <1>1, <1>9 DEF WorkerInv, ThreadsAgree, LocalsAgree, AttemptsAgree
<1>12. StateAgrees'
  BY <1>1, <1>7, <1>9 DEF WorkerInv, StateAgrees
<1>13. FramesAgree'
  <2>1. counts'.frames = taken' + buffer'.dropped + Len(buffer'.items) + h
    BY <1>1, <1>4, <1>6, <1>7
  <2>2. InHand' = InHand
    BY <1>9 DEF InHand
  <2> QED
    BY <2>1, <2>2 DEF FramesAgree
<1> QED
  BY <1>10, <1>11, <1>12, <1>13 DEF WorkerInv

-----------------------------------------------------------------------------
(* start() and stop(), and the conclusion.                                 *)

LEMMA StartersControl == Starters \subseteq Controllers
BY DEF Controllers

\* A step that only moves a controller, and what it may set with it, leaves
\* the thread's part of the invariant alone.
LEMMA MeUnchanged ==
    ASSUME UNCHANGED <<run, thread>>
    PROVE  HasThread' = HasThread /\ Me' = Me
BY DEF HasThread, Me

LEMMA ReturnFacts ==
    ASSUME CtlType, NEW c \in Controllers, NEW o \in {"none", "raised", "ignored", "started", "stopped"},
           Return(c, o)
    PROVE  CtlType' /\ ctl'[c].pc = "idle" /\ \A d \in Controllers : d /= c => ctl'[d] = ctl[d]
BY DEF CtlType, CtlRecords, Return

LEMMA CtlGotoFacts ==
    ASSUME CtlType, NEW c \in Controllers, NEW l \in {"idle", "launch", "close", "join", "finish"},
           CtlGoto(c, l)
    PROVE  /\ CtlType' /\ ctl'[c].pc = l /\ ctl'[c].thread = ctl[c].thread
           /\ \A d \in Controllers : d /= c => ctl'[d] = ctl[d]
BY DEF CtlType, CtlRecords, CtlGoto

\* A controller returns from its call, or its stop() goes on, and no thread moves.
LEMMA ReturnInv ==
    ASSUME WorkerInv, NEW c \in Controllers, ctl[c].pc /= "launch",
           NEW o \in {"none", "raised", "ignored", "started", "stopped"}, Return(c, o),
           UNCHANGED <<limit, state, stopEvent, thread, info, counts, buffer, run, source, tries, taken, raised>>
    PROVE  WorkerInv'
<1>1. HasThread' = HasThread /\ Me' = Me
  BY MeUnchanged
<1>2. CtlType' /\ ctl'[c].pc = "idle" /\ \A d \in Controllers : d /= c => ctl'[d] = ctl[d]
  BY ReturnFacts DEF WorkerInv, WorkerTypes
<1>3. WorkerTypes'
  BY <1>2, TypeFrame DEF WorkerInv, WorkerTypes
<1>4. ThreadsAgree'
  BY <1>1, <1>2 DEF WorkerInv, ThreadsAgree
<1>5. LocalsAgree' /\ AttemptsAgree' /\ StateAgrees' /\ FramesAgree'
  BY <1>1 DEF WorkerInv, LocalsAgree, AttemptsAgree, StateAgrees, FramesAgree, InHand
<1> QED
  BY <1>3, <1>4, <1>5 DEF WorkerInv

LEMMA StartRefusedInv == ASSUME WorkerInv, NEW c \in Controllers, StartRefused(c) PROVE WorkerInv'
<1>1. PICK o \in {"ignored", "raised"} : Return(c, o)
  BY DEF StartRefused
<1>2. /\ ctl[c].pc = "idle"
      /\ UNCHANGED <<limit, state, stopEvent, thread, info, counts, buffer, run, source, tries, taken, raised>>
  BY DEF StartRefused, StartAllowed, object, history
<1> QED
  BY <1>1, <1>2, ReturnInv

\* A new thread: no other is alive, since no call is in progress.
LEMMA StartLockedInv == ASSUME WorkerInv, NEW c \in Controllers, StartLocked(c) PROVE WorkerInv'
<1>1. /\ \A d \in Controllers : ctl[d].pc = "idle"
      /\ state \notin {"failed", "stopping"} /\ ~(thread /= None /\ Alive(thread))
      /\ buffer' = EmptyBuffer /\ stopEvent' = FALSE /\ info' = FALSE /\ counts' = ZeroCounts
      /\ state' = "starting" /\ tries' = 0 /\ taken' = 0 /\ raised' = FALSE /\ UNCHANGED <<limit, source>>
  BY DEF StartLocked, StartAllowed, StartProceeds
<1>2. PICK r \in Runs :
        /\ run[r].pc = "dead" /\ r /= thread /\ thread' = r
        /\ run' = [run EXCEPT ![r] = FreshRun("created")]
        /\ ctl' = [ctl EXCEPT ![c] = [pc |-> "launch", thread |-> r, outcome |-> "none"]]
  BY DEF StartLocked
<1> DEFINE m == FreshRun("created")
<1>3. m \in RunRecords /\ m.pc = "created" /\ m.initial /\ ~m.connected /\ m.attempts = 0
  BY FreshType DEF RunPcs
<1> HIDE DEF m
<1>4. \A q \in Runs : run[q].pc = "dead"
  <2> SUFFICES ASSUME NEW q \in Runs, run[q].pc /= "dead" PROVE FALSE
    OBVIOUS
  <2>1. q = thread /\ HasThread /\ Me = run[q]
    BY RunIsMe
  <2>2. run[thread].pc = "created"
    BY <1>1, <2>1 DEF Alive, HasThread
  <2>3. \E d \in Controllers : ctl[d].pc = "launch"
    BY <2>1, <2>2 DEF WorkerInv, ThreadsAgree, Me
  <2> QED
    BY <1>1, <2>3
<1>5. RunType /\ CtlType /\ ObjectType
  BY DEF WorkerInv, WorkerTypes
<1>6. RunType' /\ run'[r] = m /\ \A q \in Runs : q /= r => run'[q] = run[q]
  BY <1>2, <1>3, <1>5 DEF RunType, m
<1>7. /\ CtlType' /\ ctl'[c].pc = "launch" /\ ctl'[c].thread = r
      /\ \A d \in Controllers : d /= c => ctl'[d] = ctl[d]
  BY <1>2, <1>5 DEF CtlType, CtlRecords
<1>8. Me' = m /\ HasThread' /\ thread' = r
  BY <1>2, <1>6, NoneAssumption DEF Me, HasThread
<1>9. /\ BufferType' /\ buffer'.closed = FALSE /\ buffer'.items = <<>> /\ buffer'.dropped = 0
      /\ Len(buffer'.items) = 0
  BY <1>1, BoundsAssumption DEF EmptyBuffer, BufferType, Buffers
<1>10. ObjectType' /\ counts'.frames = 0 /\ HistoryType'
  BY <1>1, <1>2, <1>5 DEF ObjectType, HistoryType, ZeroCounts, States
<1>11. WorkerTypes'
  BY <1>1, <1>6, <1>7, <1>9, <1>10 DEF WorkerInv, WorkerTypes
<1>12. ThreadsAgree'
  BY <1>1, <1>3, <1>4, <1>6, <1>7, <1>8 DEF ThreadsAgree
<1>13. LocalsAgree'
  BY <1>3, <1>8 DEF LocalsAgree
<1>14. limit' \in Nat
  BY <1>10, LimitsAssumption DEF ObjectType
<1>15. AttemptsAgree'
  BY <1>1, <1>3, <1>8, <1>14 DEF AttemptsAgree
<1>16. StateAgrees'
  BY <1>1, <1>3, <1>8, <1>9 DEF StateAgrees
<1>17. FramesAgree'
  BY <1>1, <1>3, <1>8, <1>9, <1>10 DEF FramesAgree, InHand
<1> QED
  BY <1>11, <1>12, <1>13, <1>15, <1>16, <1>17 DEF WorkerInv

LEMMA StartLaunchInv == ASSUME WorkerInv, NEW c \in Controllers, StartLaunch(c) PROVE WorkerInv'
<1>1. /\ ctl[c].pc = "launch" /\ run' = [run EXCEPT ![ctl[c].thread].pc = "loop"]
      /\ Return(c, "started")
      /\ UNCHANGED <<limit, state, stopEvent, thread, info, counts, buffer, source, tries, taken, raised>>
  BY DEF StartLaunch, Goto, object, history
<1>2. /\ HasThread /\ ctl[c].thread = thread /\ Me.pc = "created" /\ Me \in RunRecords /\ thread \in Runs
      /\ \A d \in Controllers : d /= c => ctl[d].pc /= "launch"
  BY <1>1, MeType DEF WorkerInv, ThreadsAgree
<1> DEFINE m == [Me EXCEPT !.pc = "loop"]
<1>3. /\ m \in RunRecords /\ m.pc = "loop"
      /\ m.connected = Me.connected /\ m.initial = Me.initial /\ m.awaiting = Me.awaiting
      /\ m.reconnecting = Me.reconnecting /\ m.attempts = Me.attempts /\ m.delay = Me.delay
  BY <1>2, PcField DEF RunPcs, LoopPcs
<1>4. run' = [run EXCEPT ![thread] = m]
  BY <1>1, <1>2 DEF Me
<1> HIDE DEF m
<1>5. RunType' /\ HasThread' /\ Me' = m /\ \A q \in Runs : q /= thread => run'[q] = run[q]
  BY <1>1, <1>2, <1>3, <1>4 DEF WorkerInv, WorkerTypes, RunType, Me, HasThread
<1>6. CtlType' /\ ctl'[c].pc = "idle" /\ \A d \in Controllers : d /= c => ctl'[d] = ctl[d]
  BY <1>1, ReturnFacts DEF WorkerInv, WorkerTypes
<1>7. WorkerTypes'
  BY <1>1, <1>5, <1>6, TypeFrame DEF WorkerInv, WorkerTypes
<1>8. ThreadsAgree'
  BY <1>1, <1>2, <1>3, <1>5, <1>6 DEF WorkerInv, ThreadsAgree
<1>9. LocalsAgree'
  BY <1>3, <1>5 DEF LocalsAgree
<1>10. Me.attempts = tries /\ Me.initial /\ ~Me.connected
  BY <1>2 DEF WorkerInv, AttemptsAgree, LocalsAgree
<1>11. AttemptsAgree'
  BY <1>1, <1>2, <1>3, <1>5, <1>10 DEF WorkerInv, AttemptsAgree
<1>12. StateAgrees'
  BY <1>1, <1>2, <1>3, <1>5, <1>10 DEF WorkerInv, StateAgrees
<1>13. FramesAgree'
  BY <1>1, <1>2, <1>3, <1>5 DEF WorkerInv, FramesAgree, InHand
<1> QED
  BY <1>7, <1>8, <1>9, <1>11, <1>12, <1>13 DEF WorkerInv

LEMMA StopLockedInv == ASSUME WorkerInv, NEW c \in Controllers, StopLocked(c) PROVE WorkerInv'
<1>1. /\ ctl[c].pc = "idle"
      /\ UNCHANGED <<limit, thread, info, counts, run, source, tries, taken, raised>>
  BY DEF StopLocked, history
<1>2. HasThread' = HasThread /\ Me' = Me
  BY <1>1, MeUnchanged
<1>3. CASE /\ ~HasThread /\ buffer' = [buffer EXCEPT !.closed = TRUE]
           /\ state' = IF state = "failed" THEN state ELSE "stopped"
           /\ Return(c, "stopped") /\ UNCHANGED stopEvent
  <2>1. BufferType' /\ buffer'.items = buffer.items /\ buffer'.dropped = buffer.dropped
    BY <1>3 DEF WorkerInv, WorkerTypes, BufferType, Buffers
  <2>2. CtlType' /\ ctl'[c].pc = "idle" /\ \A d \in Controllers : d /= c => ctl'[d] = ctl[d]
    BY <1>3, ReturnFacts DEF WorkerInv, WorkerTypes
  <2>3. state' = "stopped" /\ state' \in States
    BY <1>3 DEF WorkerInv, StateAgrees, States
  <2>4. WorkerTypes'
    BY <1>1, <1>3, <2>1, <2>2, <2>3, TypeFrame DEF WorkerInv, WorkerTypes
  <2>5. ThreadsAgree'
    BY <1>1, <1>2, <1>3, <2>2 DEF WorkerInv, ThreadsAgree
  <2>6. LocalsAgree' /\ AttemptsAgree' /\ StateAgrees'
    BY <1>1, <1>2, <1>3, <2>3 DEF WorkerInv, LocalsAgree, AttemptsAgree, StateAgrees
  <2>7. FramesAgree'
    BY <1>1, <1>2, <2>1 DEF WorkerInv, FramesAgree, InHand
  <2> QED
    BY <2>4, <2>5, <2>6, <2>7 DEF WorkerInv
<1>4. CASE /\ HasThread /\ state' = IF state = "failed" THEN state ELSE "stopping"
           /\ stopEvent' = TRUE /\ UNCHANGED buffer
           /\ ctl' = [ctl EXCEPT ![c] = [pc |-> "close", thread |-> thread, outcome |-> "none"]]
  <2>1. /\ CtlType' /\ ctl'[c].pc = "close" /\ ctl'[c].thread = thread
        /\ \A d \in Controllers : d /= c => ctl'[d] = ctl[d]
    BY <1>4 DEF WorkerInv, WorkerTypes, CtlType, CtlRecords, ObjectType
  <2>2. state' \in {"failed", "stopping"} /\ (state' = "failed" => state = "failed")
    BY <1>4
  <2>3. ObjectType'
    BY <1>1, <1>4, <2>2 DEF WorkerInv, WorkerTypes, ObjectType, States
  <2>4. WorkerTypes'
    BY <1>1, <1>4, <2>1, <2>3, TypeFrame DEF WorkerInv, WorkerTypes
  <2>5. ThreadsAgree'
    BY <1>1, <1>2, <1>4, <2>1 DEF WorkerInv, ThreadsAgree
  <2>6. LocalsAgree' /\ AttemptsAgree' /\ StateAgrees'
    BY <1>1, <1>2, <1>4, <2>2 DEF WorkerInv, LocalsAgree, AttemptsAgree, StateAgrees
  <2>7. FramesAgree'
    BY <1>1, <1>2, <1>4 DEF WorkerInv, FramesAgree, InHand
  <2> QED
    BY <2>4, <2>5, <2>6, <2>7 DEF WorkerInv
<1> QED
  BY <1>3, <1>4 DEF StopLocked, HasThread

LEMMA StopClosesSourceInv == ASSUME WorkerInv, NEW c \in Controllers, StopClosesSource(c) PROVE WorkerInv'
<1>1. /\ ctl[c].pc = "close" /\ source' = FALSE /\ CtlGoto(c, "join")
      /\ UNCHANGED <<limit, state, stopEvent, thread, info, counts, buffer, run, tries, taken, raised>>
  BY DEF StopClosesSource, object, history
<1>2. HasThread' = HasThread /\ Me' = Me
  BY <1>1, MeUnchanged
<1>3. stopEvent /\ state /= "running"
  BY <1>1 DEF WorkerInv, ThreadsAgree, StateAgrees
<1>4. /\ CtlType' /\ ctl'[c].pc = "join" /\ ctl'[c].thread = ctl[c].thread
      /\ \A d \in Controllers : d /= c => ctl'[d] = ctl[d]
  BY <1>1, CtlGotoFacts DEF WorkerInv, WorkerTypes
<1>5. WorkerTypes'
  BY <1>1, <1>4, TypeFrame DEF WorkerInv, WorkerTypes
<1>6. ThreadsAgree'
  BY <1>1, <1>2, <1>4 DEF WorkerInv, ThreadsAgree
<1>7. LocalsAgree' /\ AttemptsAgree' /\ FramesAgree'
  BY <1>1, <1>2 DEF WorkerInv, LocalsAgree, AttemptsAgree, FramesAgree, InHand
<1>8. StateAgrees'
  BY <1>1, <1>2, <1>3 DEF WorkerInv, StateAgrees
<1> QED
  BY <1>5, <1>6, <1>7, <1>8 DEF WorkerInv

LEMMA StopJoinInv == ASSUME WorkerInv, NEW c \in Controllers, StopJoin(c) PROVE WorkerInv'
<1>1. /\ ctl[c].pc = "join"
      /\ UNCHANGED <<limit, state, stopEvent, thread, info, counts, buffer, run, source, tries, taken, raised>>
  BY DEF StopJoin, object, history
<1>2. CASE Return(c, "raised")
  BY <1>1, <1>2, ReturnInv
<1>3. CASE run[ctl[c].thread].pc /= "created" /\ CtlGoto(c, "finish")
  <2>1. Me.pc /= "created"
    BY <1>1, <1>3 DEF WorkerInv, ThreadsAgree, Me
  <2>2. HasThread' = HasThread /\ Me' = Me
    BY <1>1, MeUnchanged
  <2>3. /\ CtlType' /\ ctl'[c].pc = "finish" /\ ctl'[c].thread = ctl[c].thread
        /\ \A d \in Controllers : d /= c => ctl'[d] = ctl[d]
    BY <1>3, CtlGotoFacts DEF WorkerInv, WorkerTypes
  <2>4. WorkerTypes'
    BY <1>1, <2>3, TypeFrame DEF WorkerInv, WorkerTypes
  <2>5. ThreadsAgree'
    BY <1>1, <2>1, <2>2, <2>3 DEF WorkerInv, ThreadsAgree
  <2>6. LocalsAgree' /\ AttemptsAgree' /\ StateAgrees' /\ FramesAgree'
    BY <1>1, <2>2 DEF WorkerInv, LocalsAgree, AttemptsAgree, StateAgrees, FramesAgree, InHand
  <2> QED
    BY <2>4, <2>5, <2>6 DEF WorkerInv
<1> QED
  BY <1>2, <1>3 DEF StopJoin

\* STOPPED after the join only for a thread that the join found dead.
LEMMA StopFinishInv == ASSUME WorkerInv, NEW c \in Controllers, StopFinish(c) PROVE WorkerInv'
<1>1. /\ ctl[c].pc = "finish" /\ Return(c, "stopped")
      /\ state' = IF ~Alive(ctl[c].thread) /\ state /= "failed" THEN "stopped" ELSE state
      /\ UNCHANGED <<limit, stopEvent, thread, info, counts, buffer, run, source, tries, taken, raised>>
  BY DEF StopFinish, history
<1>2. HasThread' = HasThread /\ Me' = Me
  BY <1>1, MeUnchanged
<1>3. HasThread /\ ctl[c].thread = thread /\ Me.pc /= "created"
  BY <1>1 DEF WorkerInv, ThreadsAgree
<1>4. state' = state \/ (state' = "stopped" /\ Me.pc = "dead" /\ state /= "failed")
  BY <1>1, <1>3 DEF Alive, Me
<1>5. CtlType' /\ ctl'[c].pc = "idle" /\ \A d \in Controllers : d /= c => ctl'[d] = ctl[d]
  BY <1>1, ReturnFacts DEF WorkerInv, WorkerTypes
<1>6. state' \in States
  BY <1>4 DEF WorkerInv, WorkerTypes, ObjectType, States
<1>7. WorkerTypes'
  BY <1>1, <1>5, <1>6, TypeFrame DEF WorkerInv, WorkerTypes
<1>8. ThreadsAgree'
  BY <1>1, <1>2, <1>5 DEF WorkerInv, ThreadsAgree
<1>9. LocalsAgree' /\ FramesAgree'
  BY <1>1, <1>2 DEF WorkerInv, LocalsAgree, FramesAgree, InHand
<1>10. AttemptsAgree'
  BY <1>1, <1>2, <1>4 DEF WorkerInv, AttemptsAgree
<1>11. StateAgrees'
  BY <1>1, <1>2, <1>3, <1>4 DEF WorkerInv, StateAgrees
<1> QED
  BY <1>7, <1>8, <1>9, <1>10, <1>11 DEF WorkerInv

LEMMA WorkerInit == Init => WorkerInv
<1> SUFFICES ASSUME Init PROVE WorkerInv
  OBVIOUS
<1>1. ~HasThread
  BY DEF Init, HasThread
<1>2. \A r \in Runs : run[r] = FreshRun("dead") /\ run[r].pc = "dead"
  BY DEF Init, FreshRun
<1>3. RunType
  BY FreshType DEF Init, RunType, RunPcs
<1>4. CtlType /\ \A c \in Controllers : ctl[c].pc = "idle"
  BY DEF Init, CtlType, CtlRecords
<1>5. BufferType /\ buffer.items = <<>> /\ buffer.dropped = 0 /\ Len(buffer.items) = 0
  BY BoundsAssumption DEF Init, EmptyBuffer, BufferType, Buffers
<1>6. ObjectType /\ HistoryType /\ source \in BOOLEAN /\ counts.frames = 0
  BY DEF Init, ObjectType, HistoryType, ZeroCounts, States
<1>7. ThreadsAgree
  BY <1>1, <1>2, <1>4 DEF ThreadsAgree
<1>8. LocalsAgree
  BY <1>1 DEF LocalsAgree
<1>9. AttemptsAgree /\ StateAgrees
  <2>1. limit \in Nat
    BY <1>6, LimitsAssumption DEF ObjectType
  <2> QED
    BY <1>1, <2>1 DEF Init, AttemptsAgree, StateAgrees
<1>10. FramesAgree
  BY <1>1, <1>5, <1>6 DEF Init, FramesAgree, InHand
<1> QED
  BY <1>3, <1>4, <1>5, <1>6, <1>7, <1>8, <1>9, <1>10 DEF WorkerInv, WorkerTypes

LEMMA WorkerNext == WorkerInv /\ [Next]_vars => WorkerInv'
<1> SUFFICES ASSUME WorkerInv, [Next]_vars PROVE WorkerInv'
  OBVIOUS
<1>1. ASSUME NEW c \in Starters, Start(c) \/ StartLaunch(c) PROVE WorkerInv'
  BY <1>1, StartersControl, StartRefusedInv, StartLockedInv, StartLaunchInv DEF Start
<1>2. ASSUME NEW c \in Controllers, StopLocked(c) \/ StopStep(c) PROVE WorkerInv'
  BY <1>2, StopLockedInv, StopClosesSourceInv, StopJoinInv, StopFinishInv DEF StopStep
<1>3. ASSUME NEW r \in Runs, RunStep(r) \/ GraceExpires(r) PROVE WorkerInv'
  BY <1>3, LoopInv, AnnounceStartingInv, OpenInv, ScheduleInv, BackoffInv, ReconnectInv, FailInv,
     ReadInv, FrameInv, CountFrameInv, PutFrameInv, LoopRaisesInv, GuardFailsInv, AnnounceInv, NoFrameInv, MarkDisconnectedInv, CloseForReconnectInv,
     FinallyCloseInv, ShutdownInv, ExitInv, GraceExpiresInv DEF RunStep
<1>4. CASE GetLatest
  BY <1>4, GetLatestInv
<1>5. CASE UNCHANGED vars
  <2>1. UNCHANGED <<limit, state, stopEvent, thread, info, counts, buffer, run, source, ctl, tries, taken, raised>>
    BY <1>5 DEF vars, object, history
  <2>2. HasThread' = HasThread /\ Me' = Me
    BY <2>1, MeUnchanged
  <2>3. WorkerTypes'
    BY <2>1, TypeFrame DEF WorkerInv, WorkerTypes
  <2>4. ThreadsAgree' /\ LocalsAgree' /\ AttemptsAgree' /\ StateAgrees' /\ FramesAgree'
    BY <2>1, <2>2 DEF WorkerInv, ThreadsAgree, LocalsAgree, AttemptsAgree, StateAgrees, FramesAgree, InHand
  <2> QED
    BY <2>3, <2>4 DEF WorkerInv
<1> QED
  BY <1>1, <1>2, <1>3, <1>4, <1>5 DEF Next

\* The threads, the locals of _run, the counts, the state, the source and the
\* buffer of a worker always agree.
THEOREM WorkerAgrees == Spec => []WorkerInv
<1> QED
  BY WorkerInit, WorkerNext, PTL DEF Spec

\* Every variable of the worker keeps its type, and the frame buffer its
\* bound max_buffer_frames, for any number of controllers and threads.
THEOREM WorkerTyped == Spec => []TypeOK
<1>1. WorkerInv => TypeOK
  BY DEF WorkerInv, WorkerTypes, ObjectType, BufferType, RunType, CtlType, HistoryType, TypeOK,
     Buffers, RunRecords, RunPcs, CtlRecords
<1> QED
  BY <1>1, WorkerAgrees, PTL

\* However many controllers start and stop a worker and however its joins
\* time out, no two threads are in CameraWorker._run at once.
THEOREM WorkerOneThread == Spec => []OneThread
<1>1. WorkerInv => OneThread
  BY DEF WorkerInv, ThreadsAgree, OneThread, Alive
<1> QED
  BY <1>1, WorkerAgrees, PTL

\* RUNNING is never shown over a closed source, and STOPPED only when the
\* thread is out of its loop, the source closed and the buffer with it.
THEOREM WorkerStateIsTrue == Spec => []StateIsTrue
<1>1. WorkerInv => StateIsTrue
  BY DEF WorkerInv, StateAgrees, StateIsTrue, Me, HasThread
<1> QED
  BY <1>1, WorkerAgrees, PTL

\* The reconnects of an outage never exceed max_reconnect_attempts, a worker
\* that no exception has failed fails only when it has used them all, every wait is the delay of its rank,
\* and every frame counted is taken, dropped or buffered, for any limit,
\* delay and buffer size.
THEOREM WorkerCounts == Spec => []CountersAreTrue
<1>1. WorkerInv => CountersAreTrue
  <2> SUFFICES ASSUME WorkerInv PROVE CountersAreTrue
    OBVIOUS
  <2>1. ASSUME NEW r \in Runs, run[r].pc = "backoff"
        PROVE  run[r].delay = ReconnectDelay(BaseDelay, tries + 1)
    <3>1. HasThread /\ Me = run[r]
      BY <2>1, RunIsMe
    <3> QED
      BY <2>1, <3>1 DEF WorkerInv, AttemptsAgree
  <2>2. InHand <=> \E r \in Runs : run[r].pc = "put"
    BY RunIsMe, MeType DEF InHand, Me
  <2> QED
    BY <2>1, <2>2 DEF WorkerInv, AttemptsAgree, FramesAgree, CountersAreTrue, RetryBudget, FramesAccounted
<1> QED
  BY <1>1, WorkerAgrees, PTL

\* No step of any thread or controller takes a worker out of FAILED.
THEOREM WorkerFailedIsFinal == Spec => FailedIsFinal
<1>1. [Next]_vars => [state = "failed" => state' = "failed"]_vars
  <2> SUFFICES ASSUME [Next]_vars, state = "failed" PROVE state' = "failed"
    OBVIOUS
  <2>1. ASSUME NEW c \in Controllers, Start(c) \/ StartLaunch(c) PROVE state' = "failed"
    BY <2>1 DEF Start, StartRefused, StartLocked, StartProceeds, StartLaunch, object
  <2>2. ASSUME NEW c \in Controllers, StopLocked(c) \/ StopStep(c) PROVE state' = "failed"
    BY <2>2 DEF StopLocked, StopStep, StopClosesSource, StopJoin, StopFinish, object
  <2>3. ASSUME NEW r \in Runs, RunStep(r) \/ GraceExpires(r) PROVE state' = "failed"
    BY <2>3 DEF RunStep, GraceExpires, Loop, AnnounceStarting, Open, Schedule, Backoff, Reconnect,
       Fail, Read, Frame, CountFrame, PutFrame, LoopRaises, GuardFails, Announce, NoFrame, MarkDisconnected, CloseForReconnect, FinallyClose,
       Shutdown, Exit, SetState, object
  <2>4. CASE GetLatest \/ UNCHANGED vars
    BY <2>4 DEF GetLatest, vars, object
  <2> QED
    BY <2>1, <2>2, <2>3, <2>4, StartersControl DEF Next
<1> QED
  BY <1>1, PTL DEF Spec, FailedIsFinal

===============================================================================
