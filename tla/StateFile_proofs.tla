-------------------------- MODULE StateFile_proofs --------------------------
(***************************************************************************)
(* Proofs about StateFile, for any number of dialogs, versions and starts: *)
(* TypeOK, NeverAhead and SerialDurable.                                   *)
(*                                                                         *)
(* The argument: a text in the temporary file that a running save may      *)
(* rename is one this process has written since it opened that file, hence *)
(* a snapshot of its map, and the map only grows once it is loaded.  While *)
(* saves do not overlap, the one that runs finds its own text there, and   *)
(* its snapshot was taken from a map that had all that was saved before.   *)
(***************************************************************************)
EXTENDS StateFile, FiniteSetTheorems, WellFoundedInduction, TLAPS

-----------------------------------------------------------------------------
(* The inductive invariant *)

Below(m) == \A d \in Dialogs : m[d] <= checkpoints[d]

\* The two names differ, an inode has at most one text, and only who writes has
\* an inode open.
Disk ==
  /\ tmp # None => tmp # file
  /\ \A i \in Inodes : \A m, n \in data[i] : m = n
  /\ \A s \in Savers : IF saving[s] = "writing" THEN handle[s] \in Inodes
                       ELSE handle[s] = None

\* Who has not begun to save is idle.
Once ==
  /\ \A s \in Stops : s \notin called => saving[s] = "no"
  /\ process # "running" => saving["start"] = "no"

\* No version is above the latest, and there is no map before load().
Bounded ==
  /\ process \in {"off", "waiting", "loading"} => checkpoints = Empty
  /\ \A d \in Dialogs : checkpoints[d] <= latest
  /\ \A i \in Inodes : \A m \in data[i] : \A d \in Dialogs : m[d] <= latest

\* What this process writes, what it may rename and what it has loaded is not
\* ahead of its map.
Behind ==
  /\ \A s \in Savers : Below(snapshot[s])
  /\ \A s \in Savers : saving[s] \in {"writing", "renaming"} /\ tmp # None =>
       \A m \in data[tmp] : Below(m)
  /\ process \in {"bootstrapping", "running"} /\ file # None =>
       \A m \in data[file] : Below(m)

\* Without overlaps there is one save at a time, and its text is its own.
Serial ==
  ~ overlapped =>
    /\ \A s, t \in Savers : saving[s] # "no" /\ saving[t] # "no" => s = t
    /\ \A s \in Savers : saving[s] = "writing" =>
         tmp # None /\ handle[s] = tmp /\ data[tmp] = Torn
    /\ \A s \in Savers : saving[s] = "renaming" =>
         tmp # None /\ data[tmp] = {snapshot[s]}

\* What update() has promised is in the file and in the snapshot that is about
\* to replace it.
Held ==
  ~ overlapped /\ ~ forgotten =>
    /\ file = None \/ data[file] = Torn => \A d \in Dialogs : saved[d] = 0
    /\ file # None => \A m \in data[file] : \A d \in Dialogs : saved[d] <= m[d]
    /\ \A s \in Savers : saving[s] # "no" =>
         \A d \in Dialogs : saved[d] <= snapshot[s][d]

IInv == TypeOK /\ Disk /\ Once /\ Bounded /\ Behind /\ Serial /\ Held

-----------------------------------------------------------------------------
(* Operators *)

LEMMA ChooseIn ==
  ASSUME NEW S, S # {}
  PROVE  (CHOOSE m \in S : TRUE) \in S
OBVIOUS

\* What load() finds is a text of the file, or nothing.
LEMMA LoadedIs ==
  ASSUME TypeOK
  PROVE  /\ Loaded \in Maps
         /\ IF file # None /\ data[file] # Torn THEN Loaded \in data[file]
            ELSE Loaded = Empty
<1>1. Empty \in Maps
  BY StateFileAssumption DEF Empty, Maps
<1>2. file # None => data[file] \subseteq Maps
  BY DEF TypeOK
<1>3. CASE file # None /\ data[file] # Torn
  <2>1. Loaded \in data[file]
    BY <1>3, ChooseIn DEF Loaded, Torn
  <2> QED
    BY <1>2, <1>3, <2>1
<1>4. CASE ~ (file # None /\ data[file] # Torn)
  BY <1>1, <1>4 DEF Loaded
<1> QED
  BY <1>3, <1>4

\* There is always an inode to make: two names and one handle for each saver.
LEMMA NewInodeIs ==
  ASSUME TypeOK, tmp = None
  PROVE  /\ NewInode \in Inodes
         /\ NewInode # file
         /\ \A s \in Savers : NewInode # handle[s]
<1> DEFINE handles == {handle[s] : s \in Savers}
           used == {file} \cup handles
<1>1. IsFiniteSet(Savers)
  <2>1. IsFiniteSet({"start"} \cup Stops)
    <3>1. {"start"} \cup Stops = {"start", "SIGINT", "SIGTERM", "failure"}
      BY DEF Stops
    <3>2. IsFiniteSet({}) 
      BY FS_EmptySet
    <3>3. IsFiniteSet({} \cup {"start"})
      BY <3>2, FS_AddElement
    <3>4. IsFiniteSet({} \cup {"start"} \cup {"SIGINT"})
      BY <3>3, FS_AddElement
    <3>5. IsFiniteSet({} \cup {"start"} \cup {"SIGINT"} \cup {"SIGTERM"})
      BY <3>4, FS_AddElement
    <3>6. IsFiniteSet({} \cup {"start"} \cup {"SIGINT"} \cup {"SIGTERM"} \cup {"failure"})
      BY <3>5, FS_AddElement
    <3>7. {} \cup {"start"} \cup {"SIGINT"} \cup {"SIGTERM"} \cup {"failure"} =
            {"start"} \cup Stops
      BY <3>1
    <3> QED
      BY <3>6, <3>7
  <2> QED
    BY <2>1, StateFileAssumption, FS_Union DEF Savers
<1>2. IsFiniteSet(handles) /\ Cardinality(handles) <= Cardinality(Savers)
  <2> DEFINE f == [s \in Savers |-> handle[s]]
  <2>1. f \in Surjection(Savers, handles)
    BY DEF Surjection
  <2> QED
    BY <1>1, <2>1, FS_Surjection
<1>3. IsFiniteSet(used) /\ Cardinality(used) <= Cardinality(Savers) + 1
  <2>1. used = handles \cup {file}
    OBVIOUS
  <2> HIDE DEF handles, used
  <2>2. Cardinality(handles) \in Nat /\ Cardinality(Savers) \in Nat
    BY <1>1, <1>2, FS_CardinalityType
  <2>3. /\ IsFiniteSet(handles \cup {file})
        /\ Cardinality(handles \cup {file}) \in
             {Cardinality(handles), Cardinality(handles) + 1}
    BY <1>2, FS_AddElement
  <2> QED
    BY <1>2, <2>1, <2>2, <2>3
<1>4. \E i \in Inodes : i \notin used
  <2>1. SUFFICES ASSUME Inodes \subseteq used PROVE FALSE
    OBVIOUS
  <2> HIDE DEF used
  <2>2. Cardinality(Inodes) <= Cardinality(used)
    BY <1>3, <2>1, FS_Subset
  <2> QED
    BY <1>1, <1>3, <2>2, StateFileAssumption, FS_CardinalityType
<1>5. Unused # {} /\ Unused \subseteq Nat
  BY <1>4, StateFileAssumption DEF Unused
<1>6. \E i \in Unused : \A j \in Unused : i <= j
  <2>1. \E i \in Unused : \A j \in Unused : ~ (<<j, i>> \in OpToRel(<, Nat))
    BY <1>5, WFMin, NatLessThanWellFounded
  <2>2. \A i, j \in Nat : ~ (<<j, i>> \in OpToRel(<, Nat)) => i <= j
    BY DEF OpToRel
  <2> QED
    BY <1>5, <2>1, <2>2
<1>7. NewInode \in Unused
  BY <1>6 DEF NewInode
<1> QED
  BY <1>7 DEF Unused

LEMMA KeptIs ==
  ASSUME TypeOK, NEW names, NEW handles
  PROVE  /\ Kept(names, handles) \in [Inodes -> SUBSET Maps]
         /\ \A i \in Inodes : Kept(names, handles)[i] \in {data[i], Torn}
         /\ \A i \in Inodes : i \in names => Kept(names, handles)[i] = data[i]
BY DEF TypeOK, Kept, Torn

\* The end of the process loses the map, not the file.
LEMMA OffStep ==
  ASSUME IInv, Off, saved' = saved
  PROVE  IInv'
<1>1. TypeOK'
  <2>1. data' \in [Inodes -> SUBSET Maps]
    BY KeptIs DEF IInv, Off
  <2>2. Empty \in Maps
    BY StateFileAssumption DEF Empty, Maps
  <2>3. saving' \in [Savers -> {"no", "mkdir", "writing", "renaming"}]
    BY DEF Off, Idle
  <2>4. /\ snapshot' \in [Savers -> Maps]
        /\ handle' \in [Savers -> Inodes \cup {None}]
    BY <2>2 DEF Off
  <2> QED
    BY <2>1, <2>2, <2>3, <2>4 DEF IInv, TypeOK, Off
<1>2. \A i \in Inodes : data'[i] \in {data[i], Torn}
  BY KeptIs DEF IInv, Off
<1>3. Disk'
  <2>1. \A i \in Inodes : \A m, n \in data'[i] : m = n
    BY <1>2 DEF IInv, Disk, Torn
  <2> QED
    BY <2>1 DEF IInv, Disk, Off, Idle
<1>4. Once'
  BY DEF Once, Off, Idle, Savers, Stops
<1>5. Bounded'
  <2>1. latest \in Nat /\ latest' = latest
    BY StateFileAssumption DEF IInv, TypeOK, Off
  <2>2. \A d \in Dialogs : checkpoints'[d] <= latest'
    BY <2>1 DEF Off, Empty
  <2>3. \A i \in Inodes : \A m \in data'[i] : m \in data[i]
    BY <1>2 DEF Torn
  <2> QED
    BY <2>1, <2>2, <2>3 DEF IInv, Bounded, Off
<1>6. Behind'
  BY DEF Behind, Below, Off, Empty, Idle
<1>7. Serial'
  BY DEF Serial, Off, Idle
<1>8. Held'
  <2>1. file # None => data'[file] = data[file]
    BY KeptIs DEF IInv, TypeOK, Off
  <2> QED
    BY <2>1 DEF IInv, Held, Off, Idle
<1> QED
  BY <1>1, <1>3, <1>4, <1>5, <1>6, <1>7, <1>8 DEF IInv

-----------------------------------------------------------------------------
(* Steps *)

\* The map may grow, the process may go on: nothing is written or saved.
LEMMA QuietStep ==
  ASSUME IInv, TypeOK', Once',
         UNCHANGED <<saving, snapshot, handle, data, tmp, file, saved,
                     overlapped, forgotten>>,
         latest <= latest',
         \A d \in Dialogs : /\ checkpoints[d] <= checkpoints'[d]
                            /\ checkpoints'[d] <= latest',
         process' \in {"off", "waiting", "loading"} => checkpoints' = Empty,
         process' \in {"bootstrapping", "running"} /\ file # None =>
           \A m \in data[file] : \A d \in Dialogs : m[d] <= checkpoints'[d]
  PROVE  IInv'
<1>1. /\ latest \in Nat /\ latest' \in Nat
      /\ \A d \in Dialogs : checkpoints[d] \in Nat /\ checkpoints'[d] \in Nat
      /\ \A i \in Inodes : \A m \in data[i] : \A d \in Dialogs : m[d] \in Nat
      /\ \A s \in Savers : \A d \in Dialogs : snapshot[s][d] \in Nat
  BY StateFileAssumption DEF IInv, TypeOK, Maps
<1>2. tmp # None => tmp \in Inodes
  BY DEF IInv, TypeOK
<1>3. Disk'
  BY DEF IInv, Disk
<1>4. Bounded'
  BY <1>1 DEF IInv, Bounded
<1>5. Behind'
  <2>1. \A s \in Savers : Below(snapshot[s])'
    BY <1>1 DEF IInv, Behind, Below
  <2>2. \A s \in Savers : saving[s] \in {"writing", "renaming"} /\ tmp # None =>
          \A m \in data[tmp] : Below(m)'
    BY <1>1, <1>2 DEF IInv, Behind, Below
  <2> QED
    BY <2>1, <2>2 DEF Behind, Below
<1>6. Serial' /\ Held'
  BY DEF IInv, Serial, Held
<1> QED
  BY <1>3, <1>4, <1>5, <1>6 DEF IInv

\* A save begins, with the map as it is after the step.
LEMMA FlushStep ==
  ASSUME IInv, Once', NEW s \in Savers, saving[s] = "no",
         Flush(s, checkpoints'),
         UNCHANGED <<starts, handle, data, tmp, file, saved>>,
         process' \in {"off", "waiting", "loading", "bootstrapping", "running"},
         stopped' \in BOOLEAN, forgotten' \in BOOLEAN, called' \subseteq Stops,
         checkpoints' \in Maps, latest' \in latest .. MaxVersion,
         \A d \in Dialogs : /\ checkpoints[d] <= checkpoints'[d]
                            /\ checkpoints'[d] <= latest',
         process' \in {"off", "waiting", "loading"} => checkpoints' = Empty,
         process' \in {"bootstrapping", "running"} =>
           process \in {"bootstrapping", "running"},
         ~ forgotten' =>
           ~ forgotten /\ process \in {"bootstrapping", "running"}
  PROVE  IInv'
<1>1. /\ latest \in Nat /\ latest' \in Nat
      /\ \A d \in Dialogs : /\ checkpoints[d] \in Nat /\ checkpoints'[d] \in Nat
                             /\ saved[d] \in Nat
      /\ \A i \in Inodes : \A m \in data[i] : \A d \in Dialogs : m[d] \in Nat
      /\ \A t \in Savers : \A d \in Dialogs : snapshot[t][d] \in Nat
  BY StateFileAssumption DEF IInv, TypeOK, Maps
<1>2. (tmp # None => tmp \in Inodes) /\ (file # None => file \in Inodes)
  BY DEF IInv, TypeOK
<1>3. /\ saving' = [saving EXCEPT ![s] = "mkdir"]
      /\ snapshot' = [snapshot EXCEPT ![s] = checkpoints']
      /\ overlapped' = (overlapped \/ saving # Idle)
  BY DEF Flush
<1>4. /\ \A t \in Savers : t # s => saving'[t] = saving[t] /\ snapshot'[t] = snapshot[t]
      /\ saving'[s] = "mkdir" /\ snapshot'[s] = checkpoints'
  BY <1>3 DEF IInv, TypeOK
<1>5. ~ overlapped' => ~ overlapped /\ \A t \in Savers : saving[t] = "no"
  BY <1>3 DEF Idle
<1>6. TypeOK'
  <2>1. /\ saving' \in [Savers -> {"no", "mkdir", "writing", "renaming"}]
        /\ snapshot' \in [Savers -> Maps]
    BY <1>3 DEF IInv, TypeOK
  <2>2. overlapped' \in BOOLEAN
    BY <1>3 DEF IInv, TypeOK
  <2>3. latest' \in 0 .. MaxVersion
    BY StateFileAssumption DEF IInv, TypeOK
  <2> QED
    BY <2>1, <2>2, <2>3 DEF IInv, TypeOK
<1>7. Disk'
  BY <1>4 DEF IInv, Disk
<1>8. Bounded'
  BY <1>1 DEF IInv, Bounded
<1>9. Behind'
  <2>1. \A t \in Savers : Below(snapshot[t])'
    BY <1>1, <1>4 DEF IInv, Behind, Below
  <2>2. \A t \in Savers : saving'[t] \in {"writing", "renaming"} /\ tmp # None =>
          \A m \in data[tmp] : Below(m)'
    BY <1>1, <1>2, <1>4 DEF IInv, Behind, Below
  <2>3. process' \in {"bootstrapping", "running"} /\ file # None =>
          \A m \in data[file] : Below(m)'
    BY <1>1, <1>2 DEF IInv, Behind, Below
  <2> QED
    BY <2>1, <2>2, <2>3 DEF Behind, Below
<1>10. Serial'
  BY <1>4, <1>5 DEF Serial
<1>11. Held'
  <2> SUFFICES ASSUME ~ overlapped', ~ forgotten' PROVE Held'
    BY DEF Held
  <2>1. \A d \in Dialogs : saved[d] <= checkpoints[d]
    <3>1. CASE file = None \/ data[file] = Torn
      BY <1>1, <1>5, <3>1 DEF IInv, Held
    <3>2. CASE ~ (file = None \/ data[file] = Torn)
      <4>1. PICK m \in data[file] : TRUE
        BY <3>2 DEF Torn
      <4> QED
        BY <1>1, <1>2, <1>5, <3>2, <4>1 DEF IInv, Held, Behind, Below
    <3> QED
      BY <3>1, <3>2
  <2>2. \A t \in Savers : saving'[t] # "no" =>
          \A d \in Dialogs : saved[d] <= snapshot'[t][d]
    BY <1>1, <1>4, <1>5, <2>1
  <2> QED
    BY <1>5, <2>2 DEF IInv, Held
<1> QED
  BY <1>6, <1>7, <1>8, <1>9, <1>10, <1>11 DEF IInv

LEMMA UpdateStep ==
  ASSUME IInv, NEW d \in Dialogs, Update(d)
  PROVE  IInv'
<1>1. /\ latest \in Nat /\ latest + 1 <= MaxVersion /\ latest' = latest + 1
      /\ MaxVersion \in Nat
  BY StateFileAssumption DEF IInv, TypeOK, Update
<1>2. /\ d \in Savers /\ d \notin {"start"} \cup Stops
      /\ checkpoints' = [checkpoints EXCEPT ![d] = latest + 1]
      /\ process = "running" /\ saving[d] = "no"
      /\ UNCHANGED <<runtime, handle, data, tmp, file, saved, forgotten>>
  BY StateFileAssumption DEF Update, Savers
<1>3. \A e \in Dialogs : /\ checkpoints[e] \in Nat /\ checkpoints[e] <= latest
                         /\ checkpoints'[e] = IF e = d THEN latest + 1 ELSE checkpoints[e]
  BY <1>2 DEF IInv, TypeOK, Maps, Bounded
<1>4. \A e \in Dialogs : /\ checkpoints[e] <= checkpoints'[e]
                         /\ checkpoints'[e] <= latest'
  BY <1>1, <1>3
<1>5. checkpoints' \in Maps
  BY <1>1, <1>2 DEF IInv, TypeOK, Maps
<1>6. Flush(d, checkpoints')
  BY DEF Update
<1>7. Once'
  BY <1>2, <1>6 DEF IInv, TypeOK, Once, Flush, runtime
<1>8. latest' \in latest .. MaxVersion
  BY <1>1
<1> QED
  BY <1>2, <1>4, <1>5, <1>6, <1>7, <1>8, FlushStep DEF IInv, TypeOK, runtime

LEMMA MergeStep ==
  ASSUME IInv, Merge
  PROVE  IInv'
<1>0. PICK top \in latest .. MaxVersion : \E bootstrap \in [Dialogs -> 0 .. top] :
        /\ latest' = top
        /\ checkpoints' = [d \in Dialogs |-> IF d \in Newer(bootstrap)
                                             THEN bootstrap[d] ELSE checkpoints[d]]
        /\ IF Newer(bootstrap) # {} THEN Flush("start", checkpoints')
           ELSE UNCHANGED <<snapshot, saving, overlapped>>
  BY DEF Merge
<1>1. PICK bootstrap \in [Dialogs -> 0 .. top] :
        /\ latest' = top
        /\ checkpoints' = [d \in Dialogs |-> IF d \in Newer(bootstrap)
                                             THEN bootstrap[d] ELSE checkpoints[d]]
        /\ IF Newer(bootstrap) # {} THEN Flush("start", checkpoints')
           ELSE UNCHANGED <<snapshot, saving, overlapped>>
  BY <1>0
<1>2. /\ latest \in Nat /\ top \in Nat /\ latest <= top /\ top <= MaxVersion
      /\ MaxVersion \in Nat
  BY StateFileAssumption DEF IInv, TypeOK
<1>3. \A d \in Dialogs :
        /\ checkpoints[d] \in Nat /\ checkpoints[d] <= latest
        /\ bootstrap[d] \in 0 .. top
        /\ d \in Newer(bootstrap) => bootstrap[d] >= checkpoints[d]
  BY DEF IInv, TypeOK, Maps, Bounded, Newer
<1>4. \A d \in Dialogs : /\ checkpoints[d] <= checkpoints'[d]
                         /\ checkpoints'[d] <= latest'
  BY <1>1, <1>2, <1>3
<1>5. checkpoints' \in Maps
  BY <1>1, <1>2, <1>3 DEF Maps
<1>6. /\ process = "bootstrapping" /\ process' = "running"
      /\ UNCHANGED <<stopped, called, starts, handle, data, tmp, file, saved,
                     forgotten>>
  BY DEF Merge
<1>7. latest' \in latest .. MaxVersion
  BY <1>1
<1>8. "start" \in Savers /\ "start" \notin Stops /\ saving["start"] = "no"
  BY <1>6 DEF IInv, Once, Savers, Stops
<1>9. CASE Newer(bootstrap) # {}
  <2>1. Flush("start", checkpoints')
    BY <1>1, <1>9
  <2>2. Once'
    BY <1>6, <1>8, <2>1 DEF IInv, TypeOK, Once, Flush, Savers
  <2> QED
    BY <1>4, <1>5, <1>6, <1>7, <1>8, <2>1, <2>2, FlushStep DEF IInv, TypeOK
<1>10. CASE Newer(bootstrap) = {}
  <2>1. UNCHANGED <<snapshot, saving, overlapped>>
    BY <1>1, <1>10
  <2>2. TypeOK'
    BY <1>2, <1>5, <1>6, <1>7, <2>1 DEF IInv, TypeOK
  <2>3. Once'
    BY <1>6, <2>1 DEF IInv, Once
  <2>4. file # None => \A m \in data[file] : \A d \in Dialogs : m[d] <= checkpoints'[d]
    <3>1. file # None => \A m \in data[file] : \A d \in Dialogs :
            m[d] \in Nat /\ m[d] <= checkpoints[d]
      BY <1>6 DEF IInv, TypeOK, Maps, Behind, Below
    <3> QED
      BY <1>2, <1>3, <1>4, <1>5, <3>1 DEF Maps
  <2>5. latest <= latest'
    BY <1>1, <1>2
  <2> QED
    BY <1>4, <1>6, <2>1, <2>2, <2>3, <2>4, <2>5, QuietStep
<1> QED
  BY <1>9, <1>10

LEMMA LoadStep ==
  ASSUME IInv, Load
  PROVE  IInv'
<1>1. /\ process = "loading" /\ process' = "bootstrapping"
      /\ checkpoints' = Loaded
      /\ UNCHANGED <<stopped, called, starts, saving, snapshot, handle, data,
                     tmp, file, saved, overlapped, forgotten, latest>>
  BY DEF Load, history
<1>2. /\ Loaded \in Maps
      /\ IF file # None /\ data[file] # Torn THEN Loaded \in data[file]
         ELSE Loaded = Empty
  BY LoadedIs DEF IInv
<1>3. latest \in Nat /\ (file # None => file \in Inodes)
  BY StateFileAssumption DEF IInv, TypeOK
<1>4. \A d \in Dialogs : checkpoints[d] = 0
  BY <1>1 DEF IInv, Bounded, Empty
<1>5. \A d \in Dialogs : Loaded[d] \in Nat /\ Loaded[d] <= latest
  BY <1>2, <1>3 DEF IInv, Bounded, Empty, Maps
<1>6. file # None => \A m \in data[file] : m = Loaded
  BY <1>2, <1>3 DEF IInv, Disk, Torn
<1>7. file # None => \A m \in data[file] : \A d \in Dialogs : m[d] <= checkpoints'[d]
  BY <1>1, <1>5, <1>6
<1>8. TypeOK'
  BY <1>1, <1>2 DEF IInv, TypeOK
<1>9. Once'
  BY <1>1 DEF IInv, Once
<1>10. \A d \in Dialogs : /\ checkpoints[d] <= checkpoints'[d]
                          /\ checkpoints'[d] <= latest'
  BY <1>1, <1>4, <1>5
<1>11. latest <= latest'
  BY <1>1, <1>3
<1> QED
  BY <1>1, <1>7, <1>8, <1>9, <1>10, <1>11, QuietStep

\* Before the file is loaded: the process is launched, the bot's turn comes.
LEMMA EarlyStep ==
  ASSUME IInv, Launch \/ Start
  PROVE  IInv'
<1>1. /\ process \in {"off", "waiting"} /\ process' \in {"waiting", "loading"}
      /\ UNCHANGED <<called, checkpoints, saving, snapshot, handle, data, tmp,
                     file, saved, overlapped, forgotten, latest>>
      /\ stopped' \in BOOLEAN /\ starts' \in 0 .. MaxStarts
  <2>1. CASE Launch
    BY <2>1, StateFileAssumption DEF IInv, TypeOK, Launch, history
  <2>2. CASE Start
    BY <2>2 DEF IInv, TypeOK, Start, history
  <2> QED
    BY <2>1, <2>2
<1>2. TypeOK'
  BY <1>1 DEF IInv, TypeOK
<1>3. Once'
  BY <1>1 DEF IInv, Once
<1>4. /\ checkpoints' = Empty /\ latest <= latest'
      /\ \A d \in Dialogs : /\ checkpoints[d] <= checkpoints'[d]
                            /\ checkpoints'[d] <= latest'
  <2>1. latest \in Nat /\ \A d \in Dialogs : checkpoints[d] \in Nat
    BY StateFileAssumption DEF IInv, TypeOK, Maps
  <2> QED
    BY <1>1, <2>1 DEF IInv, Bounded
<1> QED
  BY <1>1, <1>2, <1>3, <1>4, QuietStep

LEMMA StopStep ==
  ASSUME IInv, NEW s \in Stops, Stop(s)
  PROVE  IInv'
<1>1. /\ process # "off" /\ s \notin called /\ called' = called \cup {s}
      /\ stopped' = TRUE
      /\ UNCHANGED <<process, starts, checkpoints, handle, data, tmp, file, saved,
                     latest>>
  BY DEF Stop, Called
<1>2. s \in Savers /\ s # "start" /\ saving[s] = "no"
  BY <1>1 DEF IInv, Once, Savers, Stops
<1>3. /\ latest \in Nat /\ latest <= MaxVersion /\ MaxVersion \in Nat
      /\ checkpoints \in Maps
      /\ \A d \in Dialogs : /\ checkpoints[d] \in Nat
                            /\ checkpoints[d] <= checkpoints'[d]
                            /\ checkpoints'[d] <= latest'
  BY <1>1, StateFileAssumption DEF IInv, TypeOK, Maps, Bounded
<1>4. CASE stopped
  <2>1. UNCHANGED <<snapshot, saving, overlapped, forgotten>>
    BY <1>4 DEF Stop
  <2>2. TypeOK'
    BY <1>1, <2>1 DEF IInv, TypeOK
  <2>3. Once'
    BY <1>1, <2>1 DEF IInv, Once
  <2>4. process' \in {"off", "waiting", "loading"} => checkpoints' = Empty
    BY <1>1 DEF IInv, Bounded
  <2>5. process' \in {"bootstrapping", "running"} /\ file # None =>
          \A m \in data[file] : \A d \in Dialogs : m[d] <= checkpoints'[d]
    BY <1>1 DEF IInv, Behind, Below
  <2> QED
    BY <1>1, <1>3, <2>1, <2>2, <2>3, <2>4, <2>5, QuietStep
<1>5. CASE ~ stopped
  <2>1. /\ Flush(s, checkpoints')
        /\ forgotten' = (forgotten \/ process \in {"waiting", "loading"})
    BY <1>1, <1>5 DEF Stop
  <2>2. Once'
    BY <1>1, <1>2, <2>1 DEF IInv, TypeOK, Once, Flush, Savers
  <2>3. process' \in {"off", "waiting", "loading"} => checkpoints' = Empty
    BY <1>1 DEF IInv, Bounded
  <2>4. ~ forgotten' => ~ forgotten /\ process \in {"bootstrapping", "running"}
    BY <1>1, <2>1 DEF IInv, TypeOK
  <2>5. /\ forgotten' \in BOOLEAN /\ called' \subseteq Stops
        /\ process' \in {"off", "waiting", "loading", "bootstrapping", "running"}
    BY <1>1, <2>1 DEF IInv, TypeOK
  <2> QED
    BY <1>1, <1>2, <1>3, <2>1, <2>2, <2>3, <2>4, <2>5, FlushStep
<1> QED
  BY <1>4, <1>5

LEMMA OpenTmpStep ==
  ASSUME IInv, NEW s \in Savers, OpenTmp(s)
  PROVE  IInv'
<1>1. /\ saving[s] = "mkdir" /\ saving' = [saving EXCEPT ![s] = "writing"]
      /\ handle' = [handle EXCEPT ![s] = tmp']
      /\ data' = [data EXCEPT ![tmp'] = Torn]
      /\ UNCHANGED <<process, stopped, called, starts, checkpoints, snapshot,
                     file, saved, overlapped, forgotten, latest>>
  BY DEF OpenTmp, runtime, history
<1>2. tmp' \in Inodes /\ tmp' # file /\ tmp' # None
  <2>1. CASE tmp = None
    BY <2>1, NewInodeIs, StateFileAssumption DEF IInv, OpenTmp
  <2>2. CASE tmp # None
    BY <2>2 DEF IInv, TypeOK, Disk, OpenTmp
  <2> QED
    BY <2>1, <2>2
<1>3. /\ \A t \in Savers : t # s => saving'[t] = saving[t] /\ handle'[t] = handle[t]
      /\ saving'[s] = "writing" /\ handle'[s] = tmp'
      /\ \A i \in Inodes : data'[i] = IF i = tmp' THEN Torn ELSE data[i]
  BY <1>1, <1>2 DEF IInv, TypeOK
<1>4. file # None => file \in Inodes /\ data'[file] = data[file]
  BY <1>2, <1>3 DEF IInv, TypeOK
<1>5. TypeOK'
  BY <1>1, <1>2 DEF IInv, TypeOK, Torn
<1>6. Disk'
  BY <1>1, <1>2, <1>3 DEF IInv, Disk, Torn
<1>7. Once'
  BY <1>1, <1>3 DEF IInv, Once, Savers
<1>8. Bounded'
  BY <1>1, <1>3 DEF IInv, Bounded, Torn
<1>9. Behind'
  BY <1>1, <1>2, <1>3, <1>4 DEF IInv, Behind, Below, Torn
<1>10. Serial'
  BY <1>1, <1>2, <1>3 DEF IInv, Serial
<1>11. Held'
  <2> SUFFICES ASSUME ~ overlapped, ~ forgotten PROVE Held'
    BY <1>1 DEF Held
  <2>1. \A t \in Savers : saving'[t] # "no" => saving[t] # "no"
    BY <1>1, <1>3
  <2> QED
    BY <1>1, <1>4, <2>1 DEF IInv, Held
<1> QED
  BY <1>5, <1>6, <1>7, <1>8, <1>9, <1>10, <1>11 DEF IInv

LEMMA WriteStep ==
  ASSUME IInv, NEW s \in Savers, Write(s)
  PROVE  IInv'
<1> DEFINE i == handle[s]
<1>1. /\ saving[s] = "writing" /\ saving' = [saving EXCEPT ![s] = "renaming"]
      /\ handle' = [handle EXCEPT ![s] = None]
      /\ UNCHANGED <<process, stopped, called, starts, checkpoints, snapshot,
                     tmp, file, saved, overlapped, forgotten, latest>>
  BY DEF Write, runtime, history
<1>2. PICK text \in {{snapshot[s]}, Torn} :
        /\ data' = [data EXCEPT ![i] = text]
        /\ data[i] = Torn => text = {snapshot[s]}
  BY DEF Write
<1>3. i \in Inodes
  BY <1>1 DEF IInv, Disk
<1>4. /\ \A t \in Savers : t # s => saving'[t] = saving[t] /\ handle'[t] = handle[t]
      /\ saving'[s] = "renaming" /\ handle'[s] = None
      /\ \A j \in Inodes : data'[j] = IF j = i THEN text ELSE data[j]
  BY <1>1, <1>2, <1>3 DEF IInv, TypeOK
<1>5. /\ file # None => file \in Inodes
      /\ tmp # None => tmp \in Inodes
      /\ snapshot[s] \in Maps
      /\ latest \in Nat
      /\ \A d \in Dialogs : snapshot[s][d] \in Nat /\ checkpoints[d] \in Nat
  BY StateFileAssumption DEF IInv, TypeOK, Maps
<1>6. \A m \in text : m = snapshot[s] /\ Below(m)
  BY <1>2 DEF IInv, Behind, Torn
<1>7. TypeOK'
  <2>1. text \in SUBSET Maps
    BY <1>2, <1>5 DEF Torn
  <2> HIDE DEF i
  <2>2. /\ data' \in [Inodes -> SUBSET Maps]
        /\ saving' \in [Savers -> {"no", "mkdir", "writing", "renaming"}]
        /\ handle' \in [Savers -> Inodes \cup {None}]
    BY <1>1, <1>2, <2>1 DEF IInv, TypeOK
  <2> QED
    BY <1>1, <2>2 DEF IInv, TypeOK
<1>8. Disk'
  <2> HIDE DEF i
  <2>1. \A j \in Inodes : \A m, n \in data'[j] : m = n
    BY <1>4, <1>6 DEF IInv, Disk
  <2> QED
    BY <1>1, <1>4, <2>1 DEF IInv, Disk
<1>9. Once'
  BY <1>1, <1>4 DEF IInv, Once, Savers
<1>10. Bounded'
  <2>1. \A m \in text : \A d \in Dialogs : m[d] <= latest
    BY <1>5, <1>6 DEF IInv, Bounded, Below
  <2> HIDE DEF i
  <2> QED
    BY <1>1, <1>4, <2>1 DEF IInv, Bounded
<1>11. Behind'
  <2> HIDE DEF i
  <2>1. \A t \in Savers : Below(snapshot[t])'
    BY <1>1 DEF IInv, Behind, Below
  <2>2. tmp # None => \A m \in data'[tmp] : Below(m)
    BY <1>1, <1>4, <1>5, <1>6 DEF IInv, Behind
  <2>3. process \in {"bootstrapping", "running"} /\ file # None =>
          \A m \in data'[file] : Below(m)
    BY <1>4, <1>5, <1>6 DEF IInv, Behind
  <2> QED
    BY <1>1, <2>1, <2>2, <2>3 DEF Behind, Below
<1>12. ~ overlapped =>
         /\ i = tmp /\ tmp # None /\ text = {snapshot[s]}
         /\ \A t \in Savers : saving[t] # "no" => t = s
  BY <1>1, <1>2 DEF IInv, Serial
<1>13. Serial'
  <2> HIDE DEF i
  <2> QED
    BY <1>1, <1>3, <1>4, <1>12 DEF Serial
<1>14. Held'
  <2> SUFFICES ASSUME ~ overlapped, ~ forgotten PROVE Held'
    BY <1>1 DEF Held
  <2> HIDE DEF i
  <2>1. file # None => data'[file] = data[file]
    BY <1>4, <1>5, <1>12 DEF IInv, Disk
  <2>2. \A t \in Savers : saving'[t] # "no" => saving[t] # "no"
    BY <1>1, <1>4
  <2> QED
    BY <1>1, <2>1, <2>2 DEF IInv, Held
<1> QED
  BY <1>7, <1>8, <1>9, <1>10, <1>11, <1>13, <1>14 DEF IInv

LEMMA RenameStep ==
  ASSUME IInv, NEW s \in Savers, Rename(s)
  PROVE  IInv'
<1>1. CASE tmp # None
  <2>1. /\ saving[s] = "renaming" /\ saving' = [saving EXCEPT ![s] = "no"]
        /\ snapshot' = [snapshot EXCEPT ![s] = Empty]
        /\ file' = tmp /\ tmp' = None
        /\ saved' = IF s \in Dialogs
                    THEN [saved EXCEPT ![s] = snapshot[s][s]] ELSE saved
        /\ data' = Kept({tmp}, handle)
        /\ UNCHANGED <<process, stopped, called, starts, checkpoints, handle,
                       overlapped, forgotten, latest>>
    BY <1>1 DEF Rename, runtime
  <2>2. tmp \in Inodes
    BY <1>1 DEF IInv, TypeOK
  <2>3. /\ data' \in [Inodes -> SUBSET Maps]
        /\ \A i \in Inodes : data'[i] \in {data[i], Torn}
        /\ data'[tmp] = data[tmp]
    BY <2>1, <2>2, KeptIs DEF IInv
  <2>4. /\ \A t \in Savers : t # s => saving'[t] = saving[t] /\ snapshot'[t] = snapshot[t]
        /\ saving'[s] = "no" /\ snapshot'[s] = Empty
    BY <2>1 DEF IInv, TypeOK
  <2>5. Empty \in Maps
    BY StateFileAssumption DEF Empty, Maps
  <2>6. \A d \in Dialogs : checkpoints[d] \in Nat /\ Empty[d] <= checkpoints[d]
    BY DEF IInv, TypeOK, Maps, Empty
  <2>7. TypeOK'
    <3>1. saved' \in Maps
      BY <2>1 DEF IInv, TypeOK, Maps
    <3>2. /\ saving' \in [Savers -> {"no", "mkdir", "writing", "renaming"}]
          /\ snapshot' \in [Savers -> Maps]
      BY <2>1, <2>5 DEF IInv, TypeOK
    <3> QED
      BY <2>1, <2>2, <2>3, <3>1, <3>2 DEF IInv, TypeOK
  <2>8. Disk'
    <3>1. \A i \in Inodes : \A m, n \in data'[i] : m = n
      BY <2>3 DEF IInv, Disk, Torn
    <3> QED
      BY <2>1, <2>4, <3>1 DEF IInv, Disk
  <2>9. Once'
    BY <2>1, <2>4 DEF IInv, Once, Savers
  <2>10. Bounded'
    <3>1. \A i \in Inodes : \A m \in data'[i] : m \in data[i]
      BY <2>3 DEF Torn
    <3> QED
      BY <2>1, <3>1 DEF IInv, Bounded
  <2>11. Behind'
    <3>1. \A t \in Savers : Below(snapshot[t])'
      BY <2>1, <2>4, <2>6 DEF IInv, Behind, Below
    <3>2. \A m \in data'[tmp] : Below(m)
      BY <1>1, <2>1, <2>3 DEF IInv, Behind
    <3> QED
      BY <2>1, <3>1, <3>2 DEF Behind, Below
  <2>12. ~ overlapped =>
           /\ data'[tmp] = {snapshot[s]}
           /\ \A t \in Savers : saving'[t] = "no"
    BY <2>1, <2>3, <2>4 DEF IInv, Serial
  <2>13. Serial'
    BY <2>1, <2>12 DEF Serial
  <2>14. Held'
    <3> SUFFICES ASSUME ~ overlapped, ~ forgotten PROVE Held'
      BY <2>1 DEF Held
    <3>1. \A d \in Dialogs : saved[d] <= snapshot[s][d]
      BY <2>1 DEF IInv, Held
    <3>2. \A d \in Dialogs : saved'[d] <= snapshot[s][d]
      <4>1. \A d \in Dialogs : saved'[d] \in {saved[d], snapshot[s][d]}
        BY <2>1 DEF IInv, TypeOK, Maps
      <4>2. \A d \in Dialogs : snapshot[s][d] \in Nat
        BY DEF IInv, TypeOK, Maps
      <4> QED
        BY <3>1, <4>1, <4>2
    <3> QED
      BY <1>1, <2>1, <2>12, <3>2 DEF Held, Torn
  <2> QED
    BY <2>7, <2>8, <2>9, <2>10, <2>11, <2>13, <2>14 DEF IInv
<1>2. CASE tmp = None /\ s \notin Stops
  BY <1>2, OffStep DEF Rename
<1>3. CASE tmp = None /\ s \in Stops
  <2>1. /\ saving[s] = "renaming" /\ saving' = [saving EXCEPT ![s] = "no"]
        /\ snapshot' = [snapshot EXCEPT ![s] = Empty]
        /\ UNCHANGED <<process, stopped, called, starts, checkpoints, handle, data,
                       tmp, file, saved, overlapped, forgotten, latest>>
    BY <1>3 DEF Rename, runtime, history
  <2>2. /\ \A t \in Savers : t # s => saving'[t] = saving[t] /\ snapshot'[t] = snapshot[t]
        /\ saving'[s] = "no" /\ snapshot'[s] = Empty
    BY <2>1 DEF IInv, TypeOK
  <2>3. Empty \in Maps
    BY StateFileAssumption DEF Empty, Maps
  <2>4. TypeOK'
    <3>1. /\ saving' \in [Savers -> {"no", "mkdir", "writing", "renaming"}]
          /\ snapshot' \in [Savers -> Maps]
      BY <2>1, <2>3 DEF IInv, TypeOK
    <3> QED
      BY <2>1, <3>1 DEF IInv, TypeOK
  <2>5. Disk' /\ Once' /\ Bounded'
    BY <2>1, <2>2 DEF IInv, Disk, Once, Bounded, Savers
  <2>6. Behind'
    <3>1. \A d \in Dialogs : Empty[d] <= checkpoints[d]
      BY DEF IInv, TypeOK, Maps, Empty
    <3> QED
      BY <1>3, <2>1, <2>2, <3>1 DEF IInv, Behind, Below
  <2>7. Serial' /\ Held'
    BY <1>3, <2>1, <2>2 DEF IInv, Serial, Held
  <2> QED
    BY <2>4, <2>5, <2>6, <2>7 DEF IInv
<1> QED
  BY <1>1, <1>2, <1>3

-----------------------------------------------------------------------------
(* Theorems *)

LEMMA InitIInv == Init => IInv
<1> SUFFICES ASSUME Init PROVE IInv
  OBVIOUS
<1>1. Empty \in Maps /\ \A d \in Dialogs : Empty[d] = 0
  BY StateFileAssumption DEF Empty, Maps
<1>2. TypeOK
  <2>1. /\ snapshot \in [Savers -> Maps]
        /\ saving \in [Savers -> {"no", "mkdir", "writing", "renaming"}]
        /\ handle \in [Savers -> Inodes \cup {None}]
        /\ data \in [Inodes -> SUBSET Maps]
    BY <1>1 DEF Init, Idle, Torn
  <2>2. latest \in 0 .. MaxVersion /\ starts \in 0 .. MaxStarts
    BY StateFileAssumption DEF Init
  <2> QED
    BY <1>1, <2>1, <2>2 DEF Init, TypeOK
<1>3. Disk /\ Once /\ Bounded
  BY <1>1, StateFileAssumption DEF Init, Disk, Once, Bounded, Idle, Torn, Savers
<1>4. Behind /\ Serial /\ Held
  BY <1>1 DEF Init, Behind, Below, Serial, Held, Idle
<1> QED
  BY <1>2, <1>3, <1>4 DEF IInv

LEMMA NextIInv == IInv /\ [Next]_vars => IInv'
<1> SUFFICES ASSUME IInv, [Next]_vars PROVE IInv'
  OBVIOUS
<1>1. CASE Launch \/ Start
  BY <1>1, EarlyStep
<1>2. CASE Load
  BY <1>2, LoadStep
<1>3. CASE Merge
  BY <1>3, MergeStep
<1>4. CASE Death
  BY <1>4, OffStep DEF Death
<1>5. CASE \E d \in Dialogs : Update(d)
  BY <1>5, UpdateStep
<1>6. CASE \E s \in Savers : OpenTmp(s) \/ Write(s) \/ Rename(s)
  BY <1>6, OpenTmpStep, WriteStep, RenameStep
<1>7. CASE \E s \in Stops : Stop(s)
  BY <1>7, StopStep
<1>8. CASE \E s \in Stops : Exit(s)
  BY <1>8, OffStep DEF Exit
<1>9. CASE UNCHANGED vars
  BY <1>9 DEF vars, runtime, history, IInv, TypeOK, Disk, Once, Bounded, Behind,
              Below, Serial, Held
<1> QED
  BY <1>1, <1>2, <1>3, <1>4, <1>5, <1>6, <1>7, <1>8, <1>9 DEF Next

LEMMA Invariance == Spec => []IInv
BY InitIInv, NextIInv, PTL DEF Spec

\* Every variable keeps its type: there is always an inode for writeFile to
\* make, and no save writes anything but a map (checkpoint.ts, io.ts).
THEOREM TypeCorrect == Spec => []TypeOK
<1>1. IInv => TypeOK
  BY DEF IInv
<1> QED
  BY <1>1, Invariance, PTL

\* The file never holds a checkpoint that the process that has loaded it does
\* not know, whatever an earlier process left in the temporary file
\* (checkpoint.ts:42-58, io.ts).
THEOREM FileNeverAhead == Spec => []NeverAhead
<1>1. ASSUME IInv PROVE NeverAhead
  <2>1. \A d \in Dialogs : checkpoints[d] \in Nat
    BY <1>1 DEF IInv, TypeOK, Maps
  <2>2. IF file # None /\ data[file] # Torn THEN Loaded \in data[file]
        ELSE Loaded = Empty
    BY <1>1, LoadedIs DEF IInv
  <2> QED
    BY <1>1, <2>1, <2>2 DEF IInv, Behind, Below, NeverAhead, Empty
<1> QED
  BY <1>1, Invariance, PTL

\* While saves do not overlap and no stop() comes before load(), every
\* checkpoint whose update() has returned is found again, after any number of
\* crashes and starts (checkpoint.ts:73-98, bot.ts:200-220).
THEOREM SerialSavesDurable == Spec => []SerialDurable
<1>1. ASSUME IInv PROVE SerialDurable
  <2>1. \A d \in Dialogs : saved[d] \in Nat /\ Loaded[d] \in Nat
    BY <1>1, LoadedIs DEF IInv, TypeOK, Maps
  <2>2. IF file # None /\ data[file] # Torn THEN Loaded \in data[file]
        ELSE Loaded = Empty
    BY <1>1, LoadedIs DEF IInv
  <2> QED
    BY <1>1, <2>1, <2>2 DEF IInv, Held, SerialDurable, Empty
<1> QED
  BY <1>1, Invariance, PTL
=============================================================================
