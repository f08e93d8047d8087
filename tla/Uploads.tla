------------------------------ MODULE Uploads ------------------------------
(***************************************************************************)
(* The queue of uploads of jquery.fileupload.js: the limit on concurrent   *)
(* uploads, sequential uploads, upload by chunks, abort, and the global    *)
(* progress.  An upload is one submission (data.submit) of a file.         *)
(***************************************************************************)
EXTENDS Integers, Sequences, FiniteSets

CONSTANTS
    Upload,   \* submissions
    Vetoed,   \* those the "send" callback of the page refuses
    Setting,  \* values of [limit, sequential]: limitConcurrentUploads, sequentialUploads
    Size,     \* bytes of every file
    Chunk     \* maxChunkSize

UploadsAssumption ==
    /\ \A s \in Setting : s.sequential \in BOOLEAN /\ s.limit \in Nat
    /\ Size \in Nat \ {0} /\ Chunk \in Nat \ {0}

VARIABLES
    setting,  \* the widget's options
    upload,   \* per submission: its state, bytes shown as loaded, bytes the server has
    slots,    \* _slots: submissions that wait for a free one
    chain,    \* _sequence: the submission it waits for, then those piped after it
    sending,  \* _sending
    running,  \* _active
    global,   \* _progress of the widget
    batch     \* history: submissions since no upload was active

uploadVars == <<setting, upload, slots, chain, sending, running, global, batch>>

Fresh == [st |-> "new", loaded |-> 0, ub |-> 0]
In(state) == {u \in Upload : upload[u].st = state}

Init ==
    /\ setting \in Setting
    /\ upload = [u \in Upload |-> Fresh]
    /\ slots = <<>> /\ chain = <<>> /\ sending = 0 /\ running = 0
    /\ global = [loaded |-> 0, total |-> 0] /\ batch = {}

Room(u) == IF Chunk < Size - upload[u].ub THEN Chunk ELSE Size - upload[u].ub

S == [upload |-> upload, slots |-> slots, chain |-> chain, sending |-> sending,
      running |-> running, global |-> global]

Become(state) == \E s \in {state} :
    /\ upload' = s.upload /\ slots' = s.slots /\ chain' = s.chain /\ sending' = s.sending
    /\ running' = s.running /\ global' = s.global /\ UNCHANGED setting

\* _onProgress: what one upload gained is added to the global counter.
Progress(s, u, bytes) ==
    [s EXCEPT !.global.loaded = @ + bytes - s.upload[u].loaded, !.upload[u].loaded = bytes]

\* _onFail takes the upload out of the global counters (recalculateProgress).
Forget(s, u) == [s EXCEPT !.global.loaded = @ - s.upload[u].loaded, !.global.total = @ - Size]

\* The always callback frees a slot when fewer than the limit are being sent.
FreesNever(s) == FALSE  \* mutant
Frees(s) == 0 < setting.limit /\ s.sending < setting.limit

\* Of those that wait in q the first that is neither aborted nor refused is
\* sent; the refused before it fail at once, without a byte.
FirstToGo(s, q) ==
    LET goes == {k \in DOMAIN q : s.upload[q[k]].st = "queued" /\ q[k] \notin Vetoed}
    IN  CHOOSE k \in goes \cup {Len(q) + 1} : \A j \in goes : k <= j

Refuse(s, refused) ==
    [s EXCEPT !.upload = [u \in Upload |-> IF u \in refused THEN [@[u] EXCEPT !.st = "failed"]
                                           ELSE @[u]],
              !.global.total = @ - Size * Cardinality(refused),
              !.running = @ - Cardinality(refused)]

Dispatch(s, q) ==
    LET k == FirstToGo(s, q)
        r == Refuse(s, {u \in {q[j] : j \in 1..k - 1} : s.upload[u].st = "queued"})
    IN  IF k > Len(q) THEN r
        ELSE [r EXCEPT !.sending = @ + 1, !.upload[q[k]].st = "sending"]

\* Slots of submissions that were aborted meanwhile are dropped.
NextSlot(s) ==
    [Dispatch(s, s.slots) EXCEPT !.slots = SubSeq(s.slots, FirstToGo(s, s.slots) + 1, Len(s.slots))]

\* _sequence settles: the next piped send runs, and the sequence waits for it.
\* One that was aborted while it waited has ended already and is only counted,
\* never to be counted out.
Follow(s) ==
    LET q == Tail(s.chain)
        k == FirstToGo(s, q)
        aborted == {j \in 1..k - 1 : s.upload[q[j]].st = "failed"}
    IN  [Dispatch(s, q) EXCEPT !.chain = SubSeq(q, k, Len(q)),
                               !.sending = @ + Cardinality(aborted)]

\* done or fail, then always, then what is piped after this upload.
Filled(s) == IF Frees(s) THEN NextSlot(s) ELSE s
Followed(s, u) == IF s.chain # <<>> /\ Head(s.chain) = u THEN Follow(s) ELSE s
Ended(s, u, how) ==
    \E kept \in {IF how = "failed" THEN Forget(s, u) ELSE Progress(s, u, Size)} :
    \E filled \in {Filled([kept EXCEPT !.upload[u].st = how, !.sending = @ - 1, !.running = @ - 1])} :
        Become(Followed(filled, u))

\* send
Send(s, u) ==
    \E t \in {[s EXCEPT !.sending = @ + 1]} :
        \/ u \in Vetoed /\ Ended(t, u, "failed")
        \/ u \notin Vetoed /\ Become([t EXCEPT !.upload[u].st = "sending"])

-----------------------------------------------------------------------------

\* _beforeSend: the global counters start anew when nothing is active.
StartsAnew(s) ==
    IF s.running = 0 THEN [s EXCEPT !.global = [loaded |-> 0, total |-> 0]] ELSE s
BeforeSend(s) ==
    LET t == StartsAnew(s) IN [t EXCEPT !.running = @ + 1, !.global.total = @ + Size]

WaitsNever == FALSE  \* mutant
Waits == setting.sequential \/ (0 < setting.limit /\ setting.limit <= sending)

\* _onSend
Submit(u) ==
    /\ upload[u].st = "new"
    /\ batch' = IF running = 0 THEN {u} ELSE batch \cup {u}
    /\ \E s \in {[BeforeSend(S) EXCEPT !.upload[u].st = "queued"]} :
           CASE ~Waits -> Send(s, u)
             [] Waits /\ setting.limit > 1 -> Become([s EXCEPT !.slots = Append(@, u)])
             [] Waits /\ setting.limit <= 1 /\ chain = <<>> -> Send([s EXCEPT !.chain = <<u>>], u)
             [] OTHER -> Become([s EXCEPT !.chain = Append(@, u)])

Uploading(u) ==
    /\ upload[u].st = "sending"
    /\ \E bytes \in 0..Room(u) :
           upload[u].loaded < upload[u].ub + bytes /\ Become(Progress(S, u, upload[u].ub + bytes))
    /\ UNCHANGED batch

\* A chunk is answered; the server may have kept less of it (Range header).
ChunkDone(u) ==
    /\ upload[u].st = "sending"
    /\ \E ub \in upload[u].ub + 1 .. upload[u].ub + Room(u) :
           \E s \in {[Progress(S, u, upload[u].ub + Room(u)) EXCEPT !.upload[u].ub = ub]} :
               \/ ub < Size /\ Become(s)
               \/ ub >= Size /\ Ended(s, u, "done")
    /\ UNCHANGED batch

\* An error of the transport, or abort of an upload on its way.
Fails(u) ==
    /\ upload[u].st = "sending"
    /\ Ended(S, u, "failed")
    /\ UNCHANGED batch

\* abort of a submission that still waits: its slot is rejected and send runs.
Aborts(s, u) == [s EXCEPT !.sending = @ + 1]
Abort(u) ==
    /\ upload[u].st = "queued"
    /\ Ended(Aborts(S, u), u, "failed")
    /\ UNCHANGED batch

Next == \E u \in Upload : Submit(u) \/ Uploading(u) \/ ChunkDone(u) \/ Fails(u) \/ Abort(u)

\* Every request is answered in the end.
Spec == Init /\ [][Next]_uploadVars /\ WF_uploadVars(\E u \in Upload : ChunkDone(u))

-----------------------------------------------------------------------------
\* No more uploads are on their way than the options allow ("issue all file
\* upload requests in a sequential order", "limit the number of concurrent
\* uploads"), and none waits while one more could be sent.  A limit of one is
\* not kept: see LimitKept.  With both options uploads wait in slots that
\* nothing will free.
Throttled ==
    LET allowed == IF setting.sequential THEN 1 ELSE setting.limit
    IN  setting.sequential # (setting.limit > 1) =>
            /\ Cardinality(In("sending")) <= allowed
            /\ In("queued") # {} => Cardinality(In("sending")) = allowed

Bytes(us) == {b \in us \X (1..Size) : b[2] <= upload[b[1]].loaded}

\* The global progress is that of the uploads since the widget was idle,
\* without those that failed, whatever was aborted, refused or sent again.
ProgressAdds ==
    LET counted == {u \in batch : upload[u].st # "failed"}
    IN  running > 0 =>
            /\ global.total = Size * Cardinality(counted)
            /\ global.loaded = Cardinality(Bytes(counted))

\* What waits is sent, or aborted, until nothing waits.
WaitingIsSent == In("queued") # {} ~> In("queued") = {}

\* "To limit the number of concurrent uploads, set the following option to an
\* integer greater than 0" (jquery.fileupload.js): not for a limit of one,
\* where the second upload is piped after a sequence that has settled.
LimitKept == 0 < setting.limit => Cardinality(In("sending")) <= setting.limit
=============================================================================
