-------------------------------- MODULE Logs ---------------------------------
(***************************************************************************)
(* Logs that the apps upload: student/api/v1/log.py appends them to one    *)
(* file and renames it, student/api/v2/logs.py stores each in a file of    *)
(* its own in a directory made on the first upload of the day.             *)
(*                                                                         *)
(* Workers share the file system alone.  A file is its data; a name leads  *)
(* to a file, and a file that is open is written whatever its name has     *)
(* become.  Two renames do not fall into one microsecond, of which the     *)
(* new name is made.  What Log.post cannot do is logged, and answered as   *)
(* if it was done.                                                         *)
(***************************************************************************)
EXTENDS Integers, Sequences

CONSTANTS
    Upload, Worker,
    MaxFiles,   \* bound on the files ever made
    NULL

LogsAssumption == NULL \notin Nat \cup Upload

VARIABLES
    files,    \* files[i] is what the i-th file made holds
    named,    \* the files that have a name of their own
    current,  \* the file named android, or NULL
    today,    \* the directory of the day exists
    job,      \* what each worker does, and with which file
    left,     \* uploads to come
    stored    \* history: uploads written, and answered with success

logVars == <<files, named, current, today, job, left, stored>>

Idle == [pc |-> "idle", what |-> NULL, file |-> NULL]

TypeOK ==
    /\ files \in Seq(SUBSET Upload)
    /\ named \subseteq DOMAIN files /\ current \in DOMAIN files \cup {NULL} /\ today \in BOOLEAN
    /\ job \in [Worker -> [pc : {"idle", "write", "rename", "make", "store"},
                           what : Upload \cup {NULL}, file : DOMAIN files \cup {NULL}]]
    /\ left \subseteq Upload /\ stored \subseteq Upload

Init ==
    /\ files = <<>> /\ named = {} /\ current = NULL /\ today = FALSE
    /\ job = [p \in Worker |-> Idle] /\ left = Upload /\ stored = {}

At(p, label) == job[p].pc = label
Become(p, j) == job' = [job EXCEPT ![p] = j]
Done(p) == Become(p, Idle)

-----------------------------------------------------------------------------
(* Log.post                                                                *)

\* mutant: open(filename, 'w')
OpenAnew(p, x) ==
    /\ At(p, "idle") /\ x \in left /\ left' = left \ {x}
    /\ Len(files) < MaxFiles
    /\ LET i == IF current = NULL THEN Len(files) + 1 ELSE current
       IN  /\ files' = [j \in DOMAIN files \cup {i} |-> IF j = i THEN {} ELSE files[j]]
           /\ current' = i /\ Become(p, [pc |-> "write", what |-> x, file |-> i])
    /\ UNCHANGED <<named, today, stored>>

\* open(filename, 'a')
Open(p, x) ==
    /\ At(p, "idle") /\ x \in left /\ left' = left \ {x}
    /\ \/ /\ current # NULL
          /\ Become(p, [pc |-> "write", what |-> x, file |-> current])
          /\ UNCHANGED <<files, current>>
       \/ /\ current = NULL /\ Len(files) < MaxFiles
          /\ LET i == Len(files) + 1
             IN  /\ files' = Append(files, {}) /\ current' = i
                 /\ Become(p, [pc |-> "write", what |-> x, file |-> i])
    /\ UNCHANGED <<named, today, stored>>

\* There is no such file and none can be made: the exception is logged, and
\* the answer is that of success.
OpenFails(p, x) ==
    /\ At(p, "idle") /\ x \in left /\ left' = left \ {x}
    /\ UNCHANGED <<files, named, current, today, job, stored>>

\* fh.write(content), and the file is closed
Write(p) ==
    /\ At(p, "write") /\ Become(p, [job[p] EXCEPT !.pc = "rename"])
    /\ files' = [files EXCEPT ![job[p].file] = @ \cup {job[p].what}]
    /\ UNCHANGED <<named, current, today, left, stored>>

\* Nothing, or less than the log, is written; this is answered too.
WriteFails(p) ==
    /\ At(p, "write") /\ Done(p)
    /\ UNCHANGED <<files, named, current, today, left, stored>>

\* os.rename(filename, destname); it fails when another request has renamed the
\* file, or for a reason of its own, and the answer is the same
Rename(p) ==
    /\ At(p, "rename") /\ Done(p)
    /\ \/ named' = named \cup ({current} \ {NULL}) /\ current' = NULL
       \/ UNCHANGED <<named, current>>
    /\ stored' = stored \cup {job[p].what}
    /\ UNCHANGED <<files, today, left>>

-----------------------------------------------------------------------------
(* LogsView.post                                                           *)

\* os.path.exists(log_root)
LookForDirectory(p, x) ==
    /\ At(p, "idle") /\ x \in left /\ left' = left \ {x}
    /\ Become(p, [pc |-> IF today THEN "store" ELSE "make", what |-> x, file |-> NULL])
    /\ UNCHANGED <<files, named, current, today, stored>>

\* os.mkdir(log_root), which raises if another request was faster; the app
\* may upload the log again
MakeDirectory(p) ==
    /\ At(p, "make") /\ today' = TRUE
    /\ IF today THEN Done(p) /\ left' = left \cup {job[p].what}
       ELSE Become(p, [job[p] EXCEPT !.pc = "store"]) /\ UNCHANGED left
    /\ UNCHANGED <<files, named, current, stored>>

\* The file is written under a name that nothing else has.
Store(p) ==
    /\ At(p, "store") /\ Done(p) /\ Len(files) < MaxFiles
    /\ files' = Append(files, {job[p].what}) /\ named' = named \cup {Len(files) + 1}
    /\ stored' = stored \cup {job[p].what}
    /\ UNCHANGED <<current, today, left>>

\* A worker dies: what it has written stays.
Crash(p) == ~At(p, "idle") /\ Done(p) /\ UNCHANGED <<files, named, current, today, left, stored>>

Next ==
    \E p \in Worker :
        \/ \E x \in Upload : Open(p, x) \/ OpenFails(p, x) \/ LookForDirectory(p, x)
        \/ Write(p) \/ WriteFails(p) \/ Rename(p) \/ MakeDirectory(p) \/ Store(p) \/ Crash(p)

Spec == Init /\ [][Next]_logVars

-----------------------------------------------------------------------------
\* What a request wrote before it was answered stands in a file with a name,
\* its own or that to which requests append: nothing written while others
\* open, append to and rename that file is lost.
StoredIsKept == \A x \in stored : \E i \in named \cup ({current} \ {NULL}) : x \in files[i]
=============================================================================
