----------------------------- MODULE StateFile -----------------------------
(***************************************************************************)
(* How the bot plugin keeps the state file of one bot (CheckpointStore:    *)
(* checkpoints.json; SessionManager writes sessions.json in the same way)  *)
(* through the life of its process: start() loads the file and merges what *)
(* the bootstrap says into the map in memory, update() follows every       *)
(* message, stop() saves the map once more.  Every save takes a snapshot   *)
(* of the map and writes it with writeJsonFile: mkdir, writeFile to        *)
(* <file>.tmp, rename to <file>.  Each of these is awaited, and nothing    *)
(* orders the saves: each dialog has its queue, the signal handlers call   *)
(* stop() when they like.                                                  *)
(*                                                                         *)
(* The process runs several bots and starts them one after the other; the  *)
(* module is about one of them, the others only delay its start, make the  *)
(* start fail, or keep a stop() waiting.                                   *)
(*                                                                         *)
(* The file system: a name refers to an inode, opening for writing empties *)
(* the inode the name has or makes a new one, a rename moves the inode,    *)
(* and who holds an inode open goes on writing it under its new name.      *)
(***************************************************************************)
EXTENDS Naturals, FiniteSets

CONSTANTS Dialogs,
          Inodes,        \* numbers; enough for the two names and the open handles
          None,
          MaxVersion,    \* bound: versions of checkpoints
          MaxStarts      \* bound: processes

\* Who calls runtime.stop(): each signal has one handler, registered with
\* once(); "failure" is the start of a later bot that failed.
Stops == {"SIGINT", "SIGTERM", "failure"}

\* Who saves the map: the queues, start() (merge), and the calls of stop().
Savers == Dialogs \cup {"start"} \cup Stops

ASSUME StateFileAssumption ==
  /\ Inodes \subseteq Nat /\ IsFiniteSet(Inodes) /\ IsFiniteSet(Dialogs)
  /\ Cardinality(Inodes) >= Cardinality(Savers) + 2
  /\ None \notin Inodes
  /\ Dialogs \cap ({"start"} \cup Stops) = {}
  /\ MaxVersion \in Nat /\ MaxStarts \in Nat

VARIABLES process,      \* "off", or how far start() is: "waiting" for other
                        \* bots, "loading", "bootstrapping", "running"
          stopped,      \* the flag of the runtime
          called,       \* the calls of stop() made
          checkpoints,  \* the map in memory: dialog -> version of its checkpoint
          saving,       \* where each saver is
          snapshot,     \* what it is writing
          handle,       \* the inode it has open
          data,         \* inode -> what it contains
          tmp, file,    \* the two names
          saved,        \* dialog -> version whose update() has returned
          overlapped,   \* a save began while another one was being written
          forgotten,    \* stop() saved the map before it was loaded
          latest,       \* the highest version so far
          starts

runtime == <<process, stopped, called, starts>>
history == <<saved, overlapped, forgotten, latest>>
vars == <<runtime, checkpoints, saving, snapshot, handle, data, tmp, file,
          history>>

-----------------------------------------------------------------------------
Maps == [Dialogs -> 0 .. MaxVersion]
Empty == [d \in Dialogs |-> 0]

\* An inode holds the JSON text of one map, {map}, or nothing that parses.
Torn == {}

\* readState: a file that is missing or does not parse is an empty state.
Loaded ==
  IF file # None /\ data[file] # Torn THEN CHOOSE m \in data[file] : TRUE
  ELSE Empty

Unused == Inodes \ ({tmp, file} \cup {handle[s] : s \in Savers})
NewInode == CHOOSE i \in Unused : \A j \in Unused : i <= j

Idle == [s \in Savers |-> "no"]

\* An inode without a name and a handle is gone.
Kept(names, handles) ==
  [i \in Inodes |-> IF i \in names \cup {handles[s] : s \in Savers}
                    THEN data[i] ELSE Torn]

-----------------------------------------------------------------------------
(* Saves *)

\* flush(): the map is copied at once.
Flush(s, map) ==
  /\ snapshot' = [snapshot EXCEPT ![s] = map]
  /\ saving' = [saving EXCEPT ![s] = "mkdir"]
  /\ overlapped' = (overlapped \/ saving # Idle)

\* update() of a message of dialog d: the map changes and is saved.
Update(d) ==
  /\ process = "running" /\ saving["start"] = "no"
  /\ saving[d] = "no"
  /\ latest < MaxVersion
  /\ latest' = latest + 1
  /\ checkpoints' = [checkpoints EXCEPT ![d] = latest + 1]
  /\ Flush(d, checkpoints')
  /\ UNCHANGED <<runtime, handle, data, tmp, file, saved, forgotten>>

\* Faulty: the file itself is opened and truncated.
FaultyOpenTmp(s) ==
  /\ saving[s] = "mkdir"
  /\ tmp' = IF file = None THEN NewInode ELSE file
  /\ handle' = [handle EXCEPT ![s] = tmp']
  /\ data' = [data EXCEPT ![tmp'] = Torn]
  /\ saving' = [saving EXCEPT ![s] = "writing"]
  /\ UNCHANGED <<runtime, checkpoints, snapshot, file, history>>

\* writeFile opens the temporary file and truncates it.
OpenTmp(s) ==
  /\ saving[s] = "mkdir"
  /\ tmp' = IF tmp = None THEN NewInode ELSE tmp
  /\ handle' = [handle EXCEPT ![s] = tmp']
  /\ data' = [data EXCEPT ![tmp'] = Torn]
  /\ saving' = [saving EXCEPT ![s] = "writing"]
  /\ UNCHANGED <<runtime, checkpoints, snapshot, file, history>>

\* Faulty: only the dialogs with a checkpoint are written, without the others.
FaultyWrite(s) ==
  /\ saving[s] = "writing"
  /\ data' = [data EXCEPT ![handle[s]] =
                {[e \in {d \in Dialogs : snapshot[s][d] > 0} |-> snapshot[s][e]]}]
  /\ handle' = [handle EXCEPT ![s] = None]
  /\ saving' = [saving EXCEPT ![s] = "renaming"]
  /\ UNCHANGED <<runtime, checkpoints, snapshot, tmp, file, history>>

\* The text is written.  Over another text of the same inode it may leave the
\* tail of a longer one.
Write(s) ==
  LET i == handle[s] IN
  /\ saving[s] = "writing"
  /\ \E text \in IF data[i] = Torn THEN {{snapshot[s]}}
                 ELSE {{snapshot[s]}, Torn} :
       data' = [data EXCEPT ![i] = text]
  /\ handle' = [handle EXCEPT ![s] = None]
  /\ saving' = [saving EXCEPT ![s] = "renaming"]
  /\ UNCHANGED <<runtime, checkpoints, snapshot, tmp, file, history>>

-----------------------------------------------------------------------------
(* The process *)

\* The process ends; its files stay as they are.
Off ==
  /\ process' = "off" /\ stopped' = FALSE /\ called' = {}
  /\ checkpoints' = Empty
  /\ saving' = Idle
  /\ snapshot' = [s \in Savers |-> Empty]
  /\ handle' = [s \in Savers |-> None]
  /\ data' = Kept({tmp, file}, handle')
  /\ UNCHANGED <<tmp, file, overlapped, forgotten, latest, starts>>

\* rename, after which the save returns.  Without a temporary file, which
\* another save has already renamed, it throws: an update or a start() that
\* rejects ends the process, stop() is awaited with allSettled.
Rename(s) ==
  /\ saving[s] = "renaming"
  /\ \/ /\ tmp # None
        /\ file' = tmp
        /\ tmp' = None
        /\ saved' = IF s \in Dialogs
                    THEN [saved EXCEPT ![s] = snapshot[s][s]] ELSE saved
        /\ saving' = [saving EXCEPT ![s] = "no"]
        /\ snapshot' = [snapshot EXCEPT ![s] = Empty]
        /\ data' = Kept({tmp}, handle)
        /\ UNCHANGED <<runtime, checkpoints, handle, overlapped, forgotten,
                       latest>>
     \/ /\ tmp = None /\ s \notin Stops
        /\ Off
        /\ UNCHANGED saved
     \/ /\ tmp = None /\ s \in Stops
        /\ saving' = [saving EXCEPT ![s] = "no"]
        /\ snapshot' = [snapshot EXCEPT ![s] = Empty]
        /\ UNCHANGED <<runtime, checkpoints, handle, data, tmp, file, history>>

\* main(): the handlers are registered, the bots are started one by one.
Launch ==
  /\ process = "off"
  /\ starts < MaxStarts
  /\ starts' = starts + 1
  /\ process' = "waiting"
  /\ UNCHANGED <<stopped, called, checkpoints, saving, snapshot, handle, data,
                 tmp, file, history>>

\* It is the turn of this bot, whether it has been stopped or not.
Start ==
  /\ process = "waiting"
  /\ process' = "loading"
  /\ stopped' = FALSE
  /\ UNCHANGED <<called, starts, checkpoints, saving, snapshot, handle, data,
                 tmp, file, history>>

\* Faulty: start() goes on without load().
FaultyLoad ==
  /\ process = "loading"
  /\ process' = "bootstrapping"
  /\ UNCHANGED <<stopped, called, starts, checkpoints, saving, snapshot, handle,
                 data, tmp, file, history>>

Load ==
  /\ process = "loading"
  /\ process' = "bootstrapping"
  /\ checkpoints' = Loaded
  /\ UNCHANGED <<stopped, called, starts, saving, snapshot, handle, data, tmp,
                 file, history>>

\* merge() of what the bootstrap says of the conversations: a checkpoint that
\* is not older replaces the one of the file.  0 is a dialog it does not name.
Newer(bootstrap) ==
  {d \in Dialogs : bootstrap[d] > 0 /\ bootstrap[d] >= checkpoints[d]}

Merge ==
  /\ process = "bootstrapping"
  /\ process' = "running"
  /\ \E top \in latest .. MaxVersion : \E bootstrap \in [Dialogs -> 0 .. top] :
       LET newer == Newer(bootstrap) IN
       /\ top <= latest + 1
       /\ latest' = top
       /\ checkpoints' = [d \in Dialogs |-> IF d \in newer THEN bootstrap[d]
                                            ELSE checkpoints[d]]
       /\ IF newer # {} THEN Flush("start", checkpoints')
          ELSE UNCHANGED <<snapshot, saving, overlapped>>
  /\ UNCHANGED <<stopped, called, starts, handle, data, tmp, file, saved,
                 forgotten>>

\* A signal reaches every bot, whatever start() is doing.  When the start of a
\* later bot fails, those that have been started before it are stopped.
Called(s) ==
  /\ process # "off"
  /\ s \notin called
  /\ s = "failure" => process = "running" /\ saving["start"] = "no"

\* stop() of this bot: a second call returns at once.
Stop(s) ==
  /\ Called(s)
  /\ called' = called \cup {s}
  /\ stopped' = TRUE
  /\ IF stopped THEN UNCHANGED <<snapshot, saving, overlapped, forgotten>>
     ELSE /\ Flush(s, checkpoints)
          /\ forgotten' = (forgotten \/ process \in {"waiting", "loading"})
  /\ UNCHANGED <<process, starts, checkpoints, handle, data, tmp, file, saved,
                 latest>>

\* process.exit() when a call of stop() has returned, whatever other calls and
\* updates are doing.
Exit(s) ==
  /\ s \in called
  /\ saving[s] = "no"
  /\ Off
  /\ UNCHANGED saved

\* The process is killed or crashes, or its start fails.
Death ==
  /\ process # "off"
  /\ Off
  /\ UNCHANGED saved

-----------------------------------------------------------------------------
Init ==
  /\ process = "off" /\ stopped = FALSE /\ called = {} /\ starts = 0
  /\ checkpoints = Empty
  /\ saving = Idle
  /\ snapshot = [s \in Savers |-> Empty]
  /\ handle = [s \in Savers |-> None]
  /\ data = [i \in Inodes |-> Torn]
  /\ tmp = None
  /\ file = None
  /\ saved = Empty
  /\ overlapped = FALSE /\ forgotten = FALSE
  /\ latest = 0

Next ==
  \/ Launch \/ Start \/ Load \/ Merge \/ Death
  \/ \E d \in Dialogs : Update(d)
  \/ \E s \in Savers : OpenTmp(s) \/ Write(s) \/ Rename(s)
  \/ \E s \in Stops : Stop(s) \/ Exit(s)

Spec == Init /\ [][Next]_vars

-----------------------------------------------------------------------------
(* Properties *)

\* Every variable has its type.
TypeOK ==
  /\ process \in {"off", "waiting", "loading", "bootstrapping", "running"}
  /\ {stopped, overlapped, forgotten} \subseteq BOOLEAN
  /\ called \subseteq Stops
  /\ checkpoints \in Maps /\ saved \in Maps
  /\ saving \in [Savers -> {"no", "mkdir", "writing", "renaming"}]
  /\ snapshot \in [Savers -> Maps]
  /\ handle \in [Savers -> Inodes \cup {None}]
  /\ data \in [Inodes -> SUBSET Maps]
  /\ tmp \in Inodes \cup {None} /\ file \in Inodes \cup {None}
  /\ latest \in 0 .. MaxVersion /\ starts \in 0 .. MaxStarts

\* As long as no two saves overlap, a checkpoint whose update() has returned is
\* found again by load(), whenever the process is killed, stopped or started
\* again, unless stop() came before the file had been loaded.  Nothing in the
\* code prevents either: overlapping saves may tear the file, and an early
\* stop() replaces it by an empty map.
SerialDurable ==
  ~ overlapped /\ ~ forgotten => \A d \in Dialogs : Loaded[d] >= saved[d]

\* What a dead process has left in the temporary file never becomes the state:
\* the file holds nothing newer than the map of the process that has loaded it.
NeverAhead ==
  process \in {"bootstrapping", "running"} =>
    \A d \in Dialogs : Loaded[d] <= checkpoints[d]
=============================================================================
