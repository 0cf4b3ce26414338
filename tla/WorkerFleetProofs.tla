------------------------- MODULE WorkerFleetProofs -------------------------
(***************************************************************************)
(* The worker fleet for any workers, modules, threads, capacities and      *)
(* restarts.  TypeOK is inductive.  That the loads are true needs to know  *)
(* that nothing refers to a worker before it is registered (KnownCalls);   *)
(* that no module drops out is inductive together with both.  That one     *)
(* worker builds a module needs to know what every call in flight has read *)
(* and may still rely on (BuildInv).                                       *)
(***************************************************************************)
EXTENDS WorkerFleet, FiniteSetTheorems, TLAPS

(* The table of assignments as a function.                                 *)
LEMMA RowFacts ==
    ASSUME TypeOK
    PROVE  /\ Len(row) \in Nat /\ Assignments = 1..Len(row)
           /\ row \in [1..Len(row) -> Rows]
           /\ \A a \in Assignments : /\ row[a].worker \in Workers
                                     /\ row[a].module \in Modules
                                     /\ row[a].status \in RowStatuses
<1>1. row \in Seq(Rows)
      BY DEF TypeOK
<1>2. Len(row) \in Nat /\ row \in [1..Len(row) -> Rows] /\ DOMAIN row = 1..Len(row)
      BY <1>1
<1>3. \A a \in 1..Len(row) : row[a] \in Rows
      BY <1>2
<1> QED BY <1>2, <1>3 DEF Assignments, Rows

LEMMA CallsAre ==
    ASSUME NEW n, NEW c
    PROVE  c \in Calls(n) <=> /\ c \in CallRecords(n)
                              /\ c.at \in Handling => c.row # 0
                              /\ c.at \in {"delete", "resync", "create"} => c.target # NoWorker
BY DEF Calls

LEMMA Intervals == \A n \in Nat : IsFiniteSet(1..n) /\ Cardinality(1..n) = n
BY FS_Interval

(* What the calls of two moments have in common.                           *)
LEMMA CallsGrow ==
    ASSUME NEW n \in Nat, NEW k \in Nat, n <= k, NEW c \in Calls(n)
    PROVE  c \in Calls(k)
<1>1. 0..n \subseteq 0..k /\ 1..n \subseteq 1..k
      OBVIOUS
<1> QED BY <1>1 DEF Calls, CallRecords

LEMMA IdleIsCall == \A n \in Nat : Idle \in Calls(n)
<1>1. NoSnapshot \in Snapshots
  <2>1. NoSnapshot \in [{} -> 0..MaxAssignments]
        BY DEF NoSnapshot
  <2> QED BY <2>1 DEF Snapshots
<1> HIDE DEF NoSnapshot
<1> QED BY <1>1 DEF Idle, Calls, CallRecords, Ops, Steps, Handling

(* A new assignment: the old ones keep their numbers and their rows.       *)
LEMMA InsertFacts ==
    ASSUME TypeOK, NEW w \in Workers, NEW m \in Modules, Insert(w, m)
    PROVE  /\ row' \in Seq(Rows) /\ Len(row') = Len(row) + 1 /\ Len(row') <= MaxAssignments
           /\ Assignments' = Assignments \cup {Len(row) + 1}
           /\ \A a \in Assignments : row'[a] = row[a]
           /\ row'[Len(row) + 1] = [worker |-> w, module |-> m, status |-> "assigned"]
<1> DEFINE new == [worker |-> w, module |-> m, status |-> "assigned"]
<1>1. new \in Rows /\ row' = Append(row, new)
      BY DEF Insert, Rows, RowStatuses, Working
<1>2. /\ row' \in Seq(Rows) /\ Len(row') = Len(row) + 1
      /\ \A a \in 1..Len(row) : row'[a] = row[a]
      /\ row'[Len(row) + 1] = new
  <2> HIDE DEF new
  <2> QED BY <1>1 DEF TypeOK
<1>3. Assignments' = 1..(Len(row) + 1) /\ Assignments = 1..Len(row) /\ Len(row) \in Nat
      BY <1>2 DEF Assignments, TypeOK
<1> QED BY <1>2, <1>3, FleetAssumption DEF Insert

LEMMA InsertGrows ==
    ASSUME TypeOK, NEW w \in Workers, NEW m \in Modules, Insert(w, m)
    PROVE  /\ row' \in Seq(Rows) /\ Len(row) <= Len(row') /\ Len(row') <= MaxAssignments
           /\ Assignments \subseteq Assignments' /\ Len(row') \in Nat
<1>1. Len(row) \in Nat
      BY RowFacts
<1>2. /\ row' \in Seq(Rows) /\ Len(row') = Len(row) + 1 /\ Len(row') <= MaxAssignments
      /\ Assignments' = Assignments \cup {Len(row) + 1}
      BY InsertFacts
<1> QED BY <1>1, <1>2

(* A change of status keeps the numbers, the workers and the modules.      *)
LEMMA StatusFacts ==
    ASSUME TypeOK, NEW a \in Assignments, NEW s \in RowStatuses,
           row' = [row EXCEPT ![a].status = s]
    PROVE  /\ row' \in Seq(Rows) /\ Len(row') = Len(row) /\ Assignments' = Assignments
           /\ \A b \in Assignments : /\ row'[b].worker = row[b].worker
                                     /\ row'[b].module = row[b].module
                                     /\ row'[b].status = IF b = a THEN s ELSE row[b].status
<1>1. row \in [1..Len(row) -> Rows] /\ Assignments = 1..Len(row) /\ Len(row) \in Nat
      BY RowFacts
<1>2. \A b \in Assignments : row'[b] = IF b = a THEN [row[a] EXCEPT !.status = s] ELSE row[b]
      BY <1>1
<1>3. [row[a] EXCEPT !.status = s] \in Rows
      BY <1>1 DEF Rows
<1>4. row' \in [1..Len(row) -> Rows]
      BY <1>1, <1>2, <1>3
<1>5. row' \in Seq(Rows) /\ Len(row') = Len(row)
      BY <1>1, <1>4
<1>6. Assignments' = Assignments
      BY <1>1, <1>4 DEF Assignments
<1> QED BY <1>1, <1>2, <1>5, <1>6 DEF Rows

(* A sync writes assignments that exist.                                   *)
LEMMA SyncTypes ==
    ASSUME TypeOK, row' \in Seq(Rows), Assignments \subseteq Assignments',
           NEW w \in Workers, Sync(row', w) \/ SyncRefused(w)
    PROVE  listed' \in [Workers -> SUBSET Assignments'] /\ unsynced' \subseteq Workers
<1>1. WorkingOn(row', w) \subseteq Assignments'
      BY DEF WorkingOn, Assignments
<1>2. listed \in [Workers -> SUBSET Assignments']
      BY DEF TypeOK
<1> QED BY <1>1, <1>2 DEF Sync, SyncRefused, TypeOK

(* The loads a caller is shown are numbers of assignments.                 *)
LEMMA LoadTypes ==
    ASSUME TypeOK
    PROVE  /\ \A w \in Workers : Load(w) \in 0..MaxAssignments
           /\ ActiveLoads \in Snapshots
           /\ DOMAIN ActiveLoads = {v \in Workers : worker[v] = "active"}
<1>1. ASSUME NEW S, S \subseteq Assignments
      PROVE  Cardinality(S) \in 0..MaxAssignments
  <2>1. IsFiniteSet(1..Len(row)) /\ Cardinality(1..Len(row)) = Len(row)
        BY RowFacts, FS_Interval
  <2>2. IsFiniteSet(S) /\ Cardinality(S) <= Len(row) /\ Cardinality(S) \in Nat
        BY <1>1, <2>1, RowFacts, FS_Subset, FS_CardinalityType
  <2> QED BY <2>2, FleetAssumption, RowFacts DEF TypeOK
<1>2. \A w \in Workers : Load(w) \in 0..MaxAssignments
      BY <1>1 DEF Load, TypeOK
<1>3. ActiveLoads \in [{v \in Workers : worker[v] = "active"} -> 0..MaxAssignments]
      BY <1>2 DEF ActiveLoads
<1> QED BY <1>2, <1>3 DEF Snapshots
-----------------------------------------------------------------------------
(* A step that puts a legal call in the place of one call and only adds    *)
(* assignments keeps the types of the calls.                               *)
LEMMA CallTypes ==
    ASSUME TypeOK, row' \in Seq(Rows), Len(row) <= Len(row'), NEW th \in Threads,
           NEW c \in Calls(Len(row')), call' = [call EXCEPT ![th] = c]
    PROVE  call' \in [Threads -> Calls(Len(row'))]
<1>1. Len(row) \in Nat /\ Len(row') \in Nat
      BY DEF TypeOK
<1>2. \A t \in Threads : call[t] \in Calls(Len(row'))
      BY <1>1, CallsGrow DEF TypeOK
<1> QED BY <1>2 DEF TypeOK

(* Goto leads to a legal call at the given step.                           *)
LEMMA GotoFacts ==
    ASSUME TypeOK, row' \in Seq(Rows), Len(row) <= Len(row'), NEW th \in Threads,
           NEW at \in Steps, Goto(th, at), at \in Handling => call[th].row # 0,
           at \in {"delete", "resync", "create"} => call[th].target # NoWorker
    PROVE  \E c \in Calls(Len(row')) :
             /\ call' = [call EXCEPT ![th] = c]
             /\ c.at = at /\ (at \notin {"idle", "next"} => c.row = call[th].row)
             /\ at \notin {"idle", "next"} => c.op = call[th].op /\ c.target = call[th].target
             /\ c.target \in {NoWorker, call[th].target}
             /\ c.seen = call[th].seen \/ c = Idle
<1>1. Len(row) \in Nat /\ Len(row') \in Nat
      BY DEF TypeOK
<1>2. call[th] \in Calls(Len(row'))
      BY <1>1, CallsGrow DEF TypeOK
<1>3. CASE at = "idle"
  <2>1. call' = [call EXCEPT ![th] = Idle]
        BY <1>3 DEF Goto
  <2>2. Idle.at = "idle" /\ Idle.target = NoWorker
        BY DEF Idle
  <2> QED BY <1>1, <1>3, <2>1, <2>2, IdleIsCall
<1>4. CASE at = "next"
  <2> DEFINE c == [call[th] EXCEPT !.at = at, !.row = 0, !.target = NoWorker]
  <2>1. call' = [call EXCEPT ![th] = c]
        BY <1>4 DEF Goto, TypeOK
  <2>2. c \in Calls(Len(row'))
    <3>1. /\ "next" \notin Handling /\ "next" \notin {"delete", "resync", "create"}
          /\ 0 \in 0..Len(row')
          BY <1>1 DEF Handling
    <3> HIDE DEF Handling
    <3>2. call[th] \in [op : Ops, at : Steps, worker : Workers \cup {NoWorker},
                        row : 0..Len(row'), target : Workers \cup {NoWorker},
                        todo : SUBSET (1..Len(row')), mods : SUBSET Modules, seen : Snapshots]
          BY <1>2 DEF Calls, CallRecords
    <3>3. c \in [op : Ops, at : Steps, worker : Workers \cup {NoWorker},
                 row : 0..Len(row'), target : Workers \cup {NoWorker},
                 todo : SUBSET (1..Len(row')), mods : SUBSET Modules, seen : Snapshots]
          BY <3>1, <3>2
    <3>4. c.at = "next"
          BY <3>2, <1>4
    <3> HIDE DEF c
    <3> QED BY <3>1, <3>3, <3>4 DEF Calls, CallRecords
  <2>3. c.at = at /\ c.target = NoWorker /\ c.seen = call[th].seen
        BY <1>2 DEF Calls, CallRecords
  <2> HIDE DEF c
  <2> QED BY <1>4, <2>1, <2>2, <2>3
<1>5. CASE at \notin {"idle", "next"}
  <2> DEFINE c == [call[th] EXCEPT !.at = at]
  <2>1. call' = [call EXCEPT ![th] = c]
        BY <1>5 DEF Goto, TypeOK
  <2>2. c \in Calls(Len(row'))
        BY <1>2 DEF Calls, CallRecords
  <2>3. /\ c.at = at /\ c.target = call[th].target /\ c.seen = call[th].seen
        /\ c.row = call[th].row /\ c.op = call[th].op
        BY <1>2 DEF Calls, CallRecords
  <2> HIDE DEF c
  <2> QED BY <1>5, <2>1, <2>2, <2>3
<1> QED BY <1>3, <1>4, <1>5
LEMMA SameCalls ==
    ASSUME TypeOK, row' \in Seq(Rows), Len(row) <= Len(row'), UNCHANGED call
    PROVE  call' \in [Threads -> Calls(Len(row'))]
<1>1. Len(row) \in Nat /\ Len(row') \in Nat
      BY DEF TypeOK
<1> QED BY <1>1, CallsGrow DEF TypeOK

(* Goto, of a step that leaves the calls of other threads alone.           *)
LEMMA GotoTypes ==
    ASSUME TypeOK, row' \in Seq(Rows), Len(row) <= Len(row'), NEW th \in Threads,
           NEW at \in Steps, Goto(th, at), at \in Handling => call[th].row # 0,
           at \in {"delete", "resync", "create"} => call[th].target # NoWorker
    PROVE  call' \in [Threads -> Calls(Len(row'))]
<1>1. PICK c \in Calls(Len(row')) : call' = [call EXCEPT ![th] = c]
      BY GotoFacts
<1> QED BY <1>1, CallTypes

(* What a thread holds.                                                    *)
LEMMA CallFacts ==
    ASSUME TypeOK, NEW th \in Threads
    PROVE  /\ call[th].row \in 0..Len(row) /\ call[th].todo \subseteq Assignments
           /\ call[th].at \in Handling => call[th].row \in Assignments
           /\ call[th].target \in Workers \cup {NoWorker}
           /\ call[th].worker \in Workers \cup {NoWorker}
           /\ call[th].at \in {"delete", "resync", "create"} => call[th].target \in Workers
           /\ call[th].mods \subseteq Modules /\ DOMAIN call[th].seen \subseteq Workers
           /\ call[th].seen \in Snapshots /\ call[th].op \in Ops /\ call[th].at \in Steps
<1>1. Assignments = 1..Len(row) /\ Len(row) \in Nat /\ call[th] \in Calls(Len(row))
      BY RowFacts DEF TypeOK
<1>2. call[th].seen \in Snapshots
      BY <1>1 DEF Calls, CallRecords
<1>3. DOMAIN call[th].seen \subseteq Workers
      BY <1>2 DEF Snapshots
<1> QED BY <1>1, <1>2, <1>3 DEF Calls, CallRecords

(* Taking up an assignment of the list.                                    *)
LEMMA TakeUpTypes ==
    ASSUME TypeOK, UNCHANGED row, NEW th \in Threads, NEW a \in call[th].todo,
           NEW v \in Workers \cup {NoWorker}, NEW at \in {"block", "delete"},
           at = "delete" => v # NoWorker, TakeUp(th, a, at, v)
    PROVE  call' \in [Threads -> Calls(Len(row'))]
<1> DEFINE c == [call[th] EXCEPT !.at = at, !.row = a, !.target = v,
                             !.todo = call[th].todo \ {a}]
<1>1. call' = [call EXCEPT ![th] = c]
      BY DEF TakeUp, TypeOK
<1>2. /\ call[th] \in Calls(Len(row)) /\ a \in 1..Len(row) /\ Len(row) \in Nat
      /\ call[th].todo \ {a} \in SUBSET (1..Len(row))
  <2>1. call[th] \in Calls(Len(row)) /\ Len(row) \in Nat /\ Assignments = 1..Len(row)
        BY RowFacts DEF TypeOK
  <2>2. call[th].todo \subseteq 1..Len(row)
        BY <2>1, CallFacts
  <2> QED BY <2>1, <2>2
<1>3. c \in CallRecords(Len(row))
  <2>1. call[th] \in CallRecords(Len(row)) /\ a \in 0..Len(row) /\ at \in Steps
        BY <1>2, CallsAre DEF Steps
  <2> QED BY <1>2, <2>1 DEF CallRecords
<1>4. c.at = at /\ c.row = a /\ c.target = v /\ a # 0
      BY <1>2 DEF Calls, CallRecords
<1>5. c \in Calls(Len(row))
  <2> HIDE DEF c
  <2> QED BY <1>3, <1>4, CallsAre
<1> HIDE DEF c
<1>6. /\ row' \in Seq(Rows) /\ Len(row') = Len(row) /\ Len(row) \in Nat
      /\ Len(row) <= Len(row')
      BY <1>2 DEF TypeOK
<1> QED BY <1>1, <1>5, <1>6, CallTypes
(* A list that was read.                                                   *)
LEMMA FieldTypes ==
    ASSUME TypeOK, UNCHANGED row, NEW th \in Threads,
           NEW at \in {"next", "assign", "list_in_progress"},
           NEW todo \in SUBSET (1..Len(row)), NEW mods \in SUBSET Modules,
           call' = [call EXCEPT ![th] = [call[th] EXCEPT !.at = at, !.todo = todo, !.mods = mods]]
    PROVE  call' \in [Threads -> Calls(Len(row'))]
<1> DEFINE c == [call[th] EXCEPT !.at = at, !.todo = todo, !.mods = mods]
<1>1. call[th] \in CallRecords(Len(row))
      BY CallsAre DEF TypeOK
<1>2. c \in CallRecords(Len(row)) /\ c.at = at
      BY <1>1 DEF CallRecords, Steps
<1>3. at \notin Handling /\ at \notin {"delete", "resync", "create"}
      BY DEF Handling
<1>4. call' = [call EXCEPT ![th] = c]
      OBVIOUS
<1> HIDE DEF c
<1>5. c \in Calls(Len(row))
      BY <1>2, <1>3, CallsAre
<1>6. /\ row' \in Seq(Rows) /\ Len(row') = Len(row) /\ Len(row) <= Len(row')
      BY RowFacts DEF TypeOK
<1> QED BY <1>4, <1>5, <1>6, CallTypes
-----------------------------------------------------------------------------
LEMMA TypeStep == TypeOK /\ [Next]_vars => TypeOK'
<1> SUFFICES ASSUME TypeOK, [Next]_vars PROVE TypeOK'
    OBVIOUS
<1>0. Len(row) \in Nat /\ row \in Seq(Rows) /\ Assignments = 1..Len(row)
      BY RowFacts DEF TypeOK
<1>s. UNCHANGED row => /\ row' \in Seq(Rows) /\ Len(row') = Len(row) /\ Len(row) <= Len(row')
                       /\ Len(row') <= MaxAssignments /\ Assignments' = Assignments
      BY <1>0 DEF TypeOK, Assignments
<1>1. ASSUME NEW w \in Workers, RegisterWorker(w) \/ UnregisterWorker(w)
                                \/ \E s \in SetStates : PatchWorker(w, s)
      PROVE  TypeOK'
  <2>1. UNCHANGED <<row, call, contended, lost>>
        BY <1>1 DEF RegisterWorker, UnregisterWorker, PatchWorker
  <2>2. listed' \in [Workers -> SUBSET Assignments] /\ unsynced' \subseteq Workers
        BY <1>1 DEF RegisterWorker, UnregisterWorker, PatchWorker, TypeOK
  <2>3. worker' \in [Workers -> WorkerStates]
        BY <1>1, StatusAssumption
        DEF RegisterWorker, UnregisterWorker, PatchWorker, TypeOK, WorkerStates
  <2> QED BY <1>s, <2>1, <2>2, <2>3 DEF TypeOK
<1>2. ASSUME NEW w \in Workers, NEW m \in Modules, CreateAssignment(w, m)
      PROVE  TypeOK'
  <2>1. /\ Insert(w, m) /\ (Sync(row', w) \/ SyncRefused(w))
        /\ UNCHANGED <<worker, call, lost>>
        BY <1>2 DEF CreateAssignment
  <2>2. /\ row' \in Seq(Rows) /\ Len(row) <= Len(row') /\ Len(row') <= MaxAssignments
        /\ Assignments \subseteq Assignments'
        BY <2>1, InsertGrows
  <2>3. call' \in [Threads -> Calls(Len(row'))]
        BY <2>1, <2>2, SameCalls
  <2>4. listed' \in [Workers -> SUBSET Assignments'] /\ unsynced' \subseteq Workers
        BY <2>1, <2>2, SyncTypes
  <2>5. contended' \subseteq Modules
        BY <1>2 DEF CreateAssignment, TypeOK
  <2> QED BY <2>1, <2>2, <2>3, <2>4, <2>5 DEF TypeOK
<1>3. ASSUME NEW w \in Workers, NEW m \in Modules, CrashInCreate(w, m)
      PROVE  TypeOK'
  <2>1. Insert(w, m) /\ UNCHANGED <<worker, listed>> /\ call' = [th \in Threads |-> Idle]
        BY <1>3 DEF CrashInCreate
  <2>2. /\ row' \in Seq(Rows) /\ Len(row) <= Len(row') /\ Len(row') <= MaxAssignments
        /\ Assignments \subseteq Assignments' /\ Len(row') \in Nat
        BY <2>1, InsertGrows
  <2>3. call' \in [Threads -> Calls(Len(row'))]
        BY <2>1, <2>2, IdleIsCall
  <2>4. Held \subseteq Modules /\ Unsynced \subseteq Workers
        BY RowFacts, CallFacts DEF Held, Unsynced, Handling
  <2> QED BY <1>3, <2>1, <2>2, <2>3, <2>4 DEF CrashInCreate, TypeOK
<1>4. CASE Crash
  <2>1. call' \in [Threads -> Calls(Len(row'))]
        BY <1>0, <1>4, IdleIsCall DEF Crash
  <2>2. Held \subseteq Modules /\ Unsynced \subseteq Workers
        BY RowFacts, CallFacts DEF Held, Unsynced, Handling
  <2> QED BY <1>4, <1>s, <2>1, <2>2 DEF Crash, TypeOK
<1>5. ASSUME NEW th \in Threads, NEW a \in Assignments, NEW s \in SetStatuses,
             UpdateAssignment(th, a, s)
      PROVE  TypeOK'
  <2> DEFINE c == [Idle EXCEPT !.op = "update", !.at = "sync", !.row = a]
  <2>1. row' = [row EXCEPT ![a].status = s] /\ call' = [call EXCEPT ![th] = c]
        BY <1>5 DEF UpdateAssignment
  <2>2. /\ row' \in Seq(Rows) /\ Len(row') = Len(row) /\ Assignments' = Assignments
        /\ Len(row) <= Len(row')
    <3>1. s \in RowStatuses
          BY StatusAssumption
    <3>2. row' \in Seq(Rows) /\ Len(row') = Len(row) /\ Assignments' = Assignments
          BY <2>1, <3>1, StatusFacts
    <3> QED BY <1>0, <3>2
  <2>3. c \in Calls(Len(row))
    <3>1. a \in 0..Len(row) /\ a # 0
          BY <1>0
    <3>2. Idle \in CallRecords(Len(row))
          BY <1>0, IdleIsCall, CallsAre
    <3>3. c \in CallRecords(Len(row)) /\ c.at = "sync" /\ c.row = a
      <4>1. c.at = "sync" /\ c.row = a
            BY DEF Idle
      <4>2. c \in CallRecords(Len(row))
            BY <3>1, <3>2 DEF CallRecords, Ops, Steps
      <4> QED BY <4>1, <4>2
    <3> HIDE DEF c
    <3> QED BY <3>1, <3>3, CallsAre
  <2> HIDE DEF c
  <2>4. call' \in [Threads -> Calls(Len(row'))]
        BY <2>1, <2>2, <2>3, CallTypes
  <2>5. contended' \subseteq Modules
        BY <1>5, RowFacts DEF UpdateAssignment, TypeOK
  <2> QED BY <1>5, <2>2, <2>4, <2>5 DEF UpdateAssignment, TypeOK
<1>6. ASSUME NEW th \in Threads, SyncUpdated(th)
      PROVE  TypeOK'
  <2>1. /\ UNCHANGED <<worker, row, contended, lost>>
        /\ call[th].row \in Assignments /\ row[call[th].row].worker \in Workers
        BY <1>6, CallFacts, RowFacts DEF SyncUpdated, Handling
  <2>2. listed' \in [Workers -> SUBSET Assignments'] /\ unsynced' \subseteq Workers
        BY <1>6, <1>s, <2>1, SyncTypes DEF SyncUpdated, TypeOK
  <2>3. Goto(th, "idle") \/ Goto(th, "next")
        BY <1>6 DEF SyncUpdated
  <2>4. call' \in [Threads -> Calls(Len(row'))]
        BY <1>s, <2>1, <2>3, GotoTypes DEF Steps, Handling
  <2> QED BY <1>s, <2>1, <2>2, <2>4 DEF TypeOK
<1>7. ASSUME NEW th \in Threads, NEW w \in Workers, BeginShutdown(th, w)
      PROVE  TypeOK'
  <2> DEFINE c == [Idle EXCEPT !.op = "shutdown", !.at = "next", !.worker = w,
                               !.todo = WorkingOn(row, w)]
  <2>1. /\ UNCHANGED <<listed, row, lost, unsynced>> /\ call' = [call EXCEPT ![th] = c]
        BY <1>7 DEF BeginShutdown
  <2>2. WorkingOn(row, w) \in SUBSET (1..Len(row))
        BY <1>0 DEF WorkingOn, Assignments
  <2>3. c \in Calls(Len(row))
        BY <1>0, <2>2, IdleIsCall DEF Idle, Calls, CallRecords, Ops, Steps, Handling
  <2> HIDE DEF c
  <2>4. call' \in [Threads -> Calls(Len(row'))]
        BY <1>s, <2>1, <2>3, CallTypes
  <2> QED BY <1>7, <1>s, <2>1, <2>4 DEF BeginShutdown, TypeOK, WorkerStates, Overlap
<1>8. ASSUME NEW th \in Threads, PickTarget(th)
      PROVE  TypeOK'
  <2>1. UNCHANGED <<worker, listed, row, contended, lost, unsynced>>
        BY <1>8 DEF PickTarget
  <2>2. \E a \in call[th].todo :
          \/ TakeUp(th, a, "block", NoWorker)
          \/ \E v \in Workers : TakeUp(th, a, "delete", v)
        BY <1>8, LoadTypes DEF PickTarget, LeastLoaded
  <2>3. call' \in [Threads -> Calls(Len(row'))]
        BY <2>1, <2>2, TakeUpTypes, FleetAssumption
  <2> QED BY <1>s, <2>1, <2>3 DEF TypeOK
<1>9. ASSUME NEW th \in Threads, BlockRow(th)
      PROVE  TypeOK'
  <2>1. UNCHANGED <<worker, listed, contended, lost, unsynced>> /\ call[th].row \in Assignments
        BY <1>9, CallFacts DEF BlockRow, Handling
  <2>2. \/ /\ row' = [row EXCEPT ![call[th].row].status = "blocked"] /\ Goto(th, "sync")
        \/ UNCHANGED row /\ Goto(th, "next")
        BY <1>9 DEF BlockRow
  <2>3. row' \in Seq(Rows) /\ Len(row') = Len(row) /\ Assignments' = Assignments
        BY <1>s, <2>1, <2>2, StatusFacts DEF RowStatuses
  <2>4. call' \in [Threads -> Calls(Len(row'))]
        BY <1>0, <2>1, <2>2, <2>3, GotoTypes DEF Steps, Handling
  <2> QED BY <2>1, <2>3, <2>4 DEF TypeOK
<1>10. ASSUME NEW th \in Threads, FinishShutdown(th)
       PROVE  TypeOK'
  <2>1. UNCHANGED <<listed, row, contended, lost, unsynced>> /\ Goto(th, "idle")
        BY <1>10 DEF FinishShutdown
  <2>2. worker' \in [Workers -> WorkerStates]
        BY <1>10 DEF FinishShutdown, TypeOK, WorkerStates
  <2>3. call' \in [Threads -> Calls(Len(row'))]
        BY <1>s, <2>1, GotoTypes DEF Steps, Handling
  <2> QED BY <1>s, <2>1, <2>2, <2>3 DEF TypeOK
<1>11. ASSUME NEW th \in Threads, DeleteMoved(th)
       PROVE  TypeOK'
  <2>1. /\ UNCHANGED <<worker, listed, contended, lost, unsynced>>
        /\ call[th].row \in Assignments /\ call[th].target # NoWorker
        BY <1>11, CallFacts, FleetAssumption DEF DeleteMoved, Handling
  <2>2. \/ /\ row' = [row EXCEPT ![call[th].row].status = "deleted"] /\ Goto(th, "resync")
        \/ UNCHANGED row /\ Goto(th, "create")
        BY <1>11 DEF DeleteMoved
  <2>3. row' \in Seq(Rows) /\ Len(row') = Len(row) /\ Assignments' = Assignments
        BY <1>s, <2>1, <2>2, StatusFacts DEF RowStatuses
  <2>4. call[th].row # 0 /\ Len(row) <= Len(row')
        BY <1>0, <2>1, <2>3
  <2>5. call' \in [Threads -> Calls(Len(row'))]
        BY <2>1, <2>2, <2>3, <2>4, GotoTypes DEF Steps
  <2> QED BY <2>1, <2>3, <2>5 DEF TypeOK
<1>12. ASSUME NEW th \in Threads, SyncDeleted(th)
       PROVE  TypeOK'
  <2>1. /\ UNCHANGED <<worker, row, contended, lost>> /\ Goto(th, "create")
        /\ Sync(row, row[call[th].row].worker)
        BY <1>12 DEF SyncDeleted
  <2>2. /\ call[th].row \in Assignments /\ row[call[th].row].worker \in Workers
        /\ call[th].target # NoWorker /\ call[th].row # 0
        BY <1>0, <1>12, CallFacts, RowFacts, FleetAssumption DEF SyncDeleted, Handling
  <2>3. listed' \in [Workers -> SUBSET Assignments'] /\ unsynced' \subseteq Workers
        BY <1>s, <2>1, <2>2, SyncTypes
  <2>4. call' \in [Threads -> Calls(Len(row'))]
        BY <1>s, <2>1, <2>2, GotoTypes DEF Steps
  <2> QED BY <1>s, <2>1, <2>3, <2>4 DEF TypeOK
<1>13. ASSUME NEW th \in Threads, CreateMoved(th)
       PROVE  TypeOK'
  <2>1. /\ UNCHANGED <<worker, contended, lost>> /\ (Goto(th, "next") \/ Goto(th, "idle"))
        /\ Insert(call[th].target, row[call[th].row].module)
        /\ Sync(row', call[th].target) \/ SyncRefused(call[th].target)
        BY <1>13 DEF CreateMoved
  <2>2. /\ call[th].target \in Workers /\ row[call[th].row].module \in Modules
        BY <1>13, CallFacts, RowFacts DEF CreateMoved, Handling
  <2>3. /\ row' \in Seq(Rows) /\ Len(row) <= Len(row') /\ Len(row') <= MaxAssignments
        /\ Assignments \subseteq Assignments'
        BY <2>1, <2>2, InsertGrows
  <2>4. listed' \in [Workers -> SUBSET Assignments'] /\ unsynced' \subseteq Workers
        BY <2>1, <2>2, <2>3, SyncTypes
  <2>5. call' \in [Threads -> Calls(Len(row'))]
        BY <2>1, <2>3, GotoTypes DEF Steps, Handling
  <2> QED BY <2>1, <2>3, <2>4, <2>5 DEF TypeOK
<1>14. ASSUME NEW th \in Threads, BeginRebalance(th)
       PROVE  TypeOK'
  <2> DEFINE c == [Idle EXCEPT !.op = "rebalance", !.at = "list", !.seen = ActiveLoads]
  <2>1. /\ UNCHANGED <<worker, listed, row, lost, unsynced>> /\ call' = [call EXCEPT ![th] = c]
        BY <1>14 DEF BeginRebalance
  <2>2. ActiveLoads \in Snapshots
        BY LoadTypes
  <2>3. c \in Calls(Len(row))
        BY <1>0, <2>2, IdleIsCall DEF Idle, Calls, CallRecords, Ops, Steps, Handling
  <2> HIDE DEF c
  <2>4. call' \in [Threads -> Calls(Len(row'))]
        BY <1>s, <2>1, <2>3, CallTypes
  <2> QED BY <1>14, <1>s, <2>1, <2>4 DEF BeginRebalance, TypeOK, Overlap
<1>15. ASSUME NEW th \in Threads, NEW mods \in SUBSET Modules, BeginAutoAssign(th, mods)
       PROVE  TypeOK'
  <2> DEFINE c == [Idle EXCEPT !.op = "auto_assign", !.at = "list_assigned",
                               !.mods = mods, !.seen = ActiveLoads]
  <2>1. /\ UNCHANGED <<worker, listed, row, lost, unsynced>> /\ call' = [call EXCEPT ![th] = c]
        BY <1>15 DEF BeginAutoAssign
  <2>2. ActiveLoads \in Snapshots
        BY LoadTypes
  <2>3. c \in Calls(Len(row))
        BY <1>0, <2>2, IdleIsCall DEF Idle, Calls, CallRecords, Ops, Steps, Handling
  <2> HIDE DEF c
  <2>4. call' \in [Threads -> Calls(Len(row'))]
        BY <1>s, <2>1, <2>3, CallTypes
  <2> QED BY <1>15, <1>s, <2>1, <2>4 DEF BeginAutoAssign, TypeOK, Overlap
<1>16. ASSUME NEW th \in Threads,
              ListOverflow(th) \/ PickUnderloaded(th) \/ ListAssigned(th) \/ ListInProgress(th)
       PROVE  TypeOK'
  <2>1. UNCHANGED <<worker, listed, row, contended, lost, unsynced>>
        BY <1>16 DEF ListOverflow, PickUnderloaded, ListAssigned, ListInProgress
  <2>3. /\ call[th].todo \in SUBSET (1..Len(row)) /\ call[th].mods \in SUBSET Modules
        /\ call[th] \in Calls(Len(row))
        BY <1>0, CallFacts DEF TypeOK
  <2>4. ASSUME ListOverflow(th)
        PROVE  call' \in [Threads -> Calls(Len(row'))]
    <3>1. PICK todo \in SUBSET UNION {{a \in Assignments : row[a].worker = w
                                                       /\ row[a].status = "assigned"} :
                          w \in {v \in DOMAIN call[th].seen : call[th].seen[v] > Capacity[v]}} :
            Goto(th, "idle") \/ call' = [call EXCEPT ![th].at = "next", ![th].todo = todo]
          BY <2>4 DEF ListOverflow
    <3>g. CASE Goto(th, "idle")
          BY <1>s, <2>1, <3>g, GotoTypes DEF Steps, Handling
    <3>n. CASE call' = [call EXCEPT ![th].at = "next", ![th].todo = todo]
      <4>2. todo \in SUBSET (1..Len(row))
            BY <1>0, <3>1
      <4>3. call' = [call EXCEPT ![th] = [call[th] EXCEPT !.at = "next", !.todo = todo,
                                                          !.mods = call[th].mods]]
            BY <2>3, <3>n DEF TypeOK, Calls, CallRecords
      <4> QED BY <2>1, <2>3, <4>2, <4>3, FieldTypes
    <3> QED BY <3>1, <3>g, <3>n
  <2>5. ASSUME PickUnderloaded(th)
        PROVE  call' \in [Threads -> Calls(Len(row'))]
    <3>1. \E a \in call[th].todo :
            \/ call' = [call EXCEPT ![th].todo = @ \ {a}]
            \/ \E v \in Workers : TakeUp(th, a, "delete", v)
          BY <2>5, CallFacts DEF PickUnderloaded, LeastLoaded
    <3>2. ASSUME NEW a \in call[th].todo, call' = [call EXCEPT ![th].todo = @ \ {a}]
          PROVE  call' \in [Threads -> Calls(Len(row'))]
      <4>1. call[th].at = "next"
            BY <2>5 DEF PickUnderloaded
      <4>2. call' = [call EXCEPT ![th] = [call[th] EXCEPT !.at = "next",
                                                          !.todo = call[th].todo \ {a},
                                                          !.mods = call[th].mods]]
            BY <2>3, <3>2, <4>1 DEF TypeOK, Calls, CallRecords
      <4>3. call[th].todo \ {a} \in SUBSET (1..Len(row))
            BY <2>3
      <4> QED BY <2>1, <2>3, <4>2, <4>3, FieldTypes
    <3>3. ASSUME NEW a \in call[th].todo, NEW v \in Workers, TakeUp(th, a, "delete", v)
          PROVE  call' \in [Threads -> Calls(Len(row'))]
          BY <2>1, <3>3, TakeUpTypes, FleetAssumption
    <3> QED BY <3>1, <3>2, <3>3
  <2>6. ASSUME ListAssigned(th)
        PROVE  call' \in [Threads -> Calls(Len(row'))]
    <3>1. call' = [call EXCEPT ![th] = [call[th] EXCEPT !.at = "list_in_progress",
                                                        !.todo = call[th].todo,
                                           !.mods = call[th].mods \ ModulesIn("assigned")]]
          BY <2>3, <2>6 DEF TypeOK, Calls, CallRecords, ListAssigned
    <3>2. call[th].mods \ ModulesIn("assigned") \in SUBSET Modules
          BY <2>3
    <3> QED BY <2>1, <2>3, <3>1, <3>2, FieldTypes
  <2>7. ASSUME ListInProgress(th)
        PROVE  call' \in [Threads -> Calls(Len(row'))]
    <3>g. CASE Goto(th, "idle")
          BY <1>s, <2>1, <3>g, GotoTypes DEF Steps, Handling
    <3>a. CASE call' = [call EXCEPT ![th].at = "assign",
                                    ![th].mods = @ \ ModulesIn("in_progress")]
      <4>1. call' = [call EXCEPT ![th] = [call[th] EXCEPT !.at = "assign",
                                                          !.todo = call[th].todo,
                                             !.mods = call[th].mods \ ModulesIn("in_progress")]]
            BY <2>3, <3>a DEF TypeOK, Calls, CallRecords
      <4>2. call[th].mods \ ModulesIn("in_progress") \in SUBSET Modules
            BY <2>3
      <4> QED BY <2>1, <2>3, <4>1, <4>2, FieldTypes
    <3> QED BY <2>7, <3>g, <3>a DEF ListInProgress
  <2>8. call' \in [Threads -> Calls(Len(row'))]
        BY <1>16, <2>4, <2>5, <2>6, <2>7
  <2> QED BY <1>s, <2>1, <2>8 DEF TypeOK
<1>17. ASSUME NEW th \in Threads, FinishRebalance(th) \/ FinishAutoAssign(th)
       PROVE  TypeOK'
  <2>1. UNCHANGED <<worker, listed, row, contended, lost, unsynced>> /\ Goto(th, "idle")
        BY <1>17 DEF FinishRebalance, FinishAutoAssign
  <2>2. call' \in [Threads -> Calls(Len(row'))]
        BY <1>s, <2>1, GotoTypes DEF Steps, Handling
  <2> QED BY <1>s, <2>1, <2>2 DEF TypeOK
<1>18. ASSUME NEW th \in Threads, NEW m \in Modules, NEW w \in Workers, AssignNext(th, m, w)
       PROVE  TypeOK'
  <2>1. /\ UNCHANGED <<worker, contended, lost>> /\ Insert(w, m)
        /\ Sync(row', w) \/ SyncRefused(w)
        /\ call[th].at = "assign" /\ w \in DOMAIN call[th].seen
        BY <1>18 DEF AssignNext
  <2>2. /\ row' \in Seq(Rows) /\ Len(row) <= Len(row') /\ Len(row') <= MaxAssignments
        /\ Assignments \subseteq Assignments' /\ Len(row') \in Nat
        BY <2>1, InsertGrows
  <2>3. listed' \in [Workers -> SUBSET Assignments'] /\ unsynced' \subseteq Workers
        BY <2>1, <2>2, SyncTypes
  <2>4. call[th] \in CallRecords(Len(row'))
    <3>1. call[th] \in Calls(Len(row'))
          BY <1>0, <2>2, CallsGrow DEF TypeOK
    <3> QED BY <3>1, CallsAre, <2>2
  <2>5. \E seen \in Snapshots :
           call' = [call EXCEPT ![th] = [call[th] EXCEPT !.mods = call[th].mods \ {m}, !.seen = seen]]
    <3> DEFINE load == IF Registered(w) THEN Cardinality(listed'[w]) ELSE call[th].seen[w]
               seen == [call[th].seen EXCEPT ![w] = load]
    <3>1. CASE call' = [call EXCEPT ![th].mods = @ \ {m}]
      <4>1. call[th].seen \in Snapshots
            BY <2>4 DEF CallRecords
      <4>2. call' = [call EXCEPT ![th] = [call[th] EXCEPT !.mods = call[th].mods \ {m},
                                                          !.seen = call[th].seen]]
            BY <2>4, <3>1 DEF CallRecords, TypeOK
      <4> QED BY <4>1, <4>2
    <3>2. CASE call' = [call EXCEPT ![th] = [call[th] EXCEPT !.mods = call[th].mods \ {m},
                                                             !.seen = seen]]
      <4>1. PICK S \in SUBSET Workers : call[th].seen \in [S -> 0..MaxAssignments]
            BY <2>4 DEF Snapshots, CallRecords
      <4>2. ASSUME Registered(w) PROVE load \in 0..MaxAssignments
        <5>1. listed'[w] \subseteq 1..Len(row')
              BY <2>2, <2>3 DEF Assignments
        <5>2. IsFiniteSet(1..Len(row')) /\ Cardinality(1..Len(row')) = Len(row')
              BY <2>2, Intervals
        <5>3. Cardinality(listed'[w]) \in Nat /\ Cardinality(listed'[w]) <= Len(row')
              BY <5>1, <5>2, FS_Subset, FS_CardinalityType
        <5> QED BY <2>2, <4>2, <5>3, FleetAssumption
      <4>3. ASSUME ~Registered(w) PROVE load \in 0..MaxAssignments
            BY <2>1, <4>1, <4>3
      <4>4. load \in 0..MaxAssignments
            BY <4>2, <4>3
      <4> HIDE DEF load
      <4>5. seen \in [S -> 0..MaxAssignments]
            BY <4>1, <4>4
      <4>6. seen \in Snapshots
            BY <4>5 DEF Snapshots
      <4> QED BY <3>2, <4>6
    <3>3. \/ call' = [call EXCEPT ![th].mods = @ \ {m}]
          \/ call' = [call EXCEPT ![th] = [call[th] EXCEPT !.mods = call[th].mods \ {m},
                                                           !.seen = seen]]
          BY <1>18, <2>4 DEF AssignNext, TypeOK
    <3> QED BY <3>1, <3>2, <3>3
  <2>6. PICK seen \in Snapshots :
           call' = [call EXCEPT ![th] = [call[th] EXCEPT !.mods = call[th].mods \ {m}, !.seen = seen]]
        BY <2>5
  <2> DEFINE c == [call[th] EXCEPT !.mods = call[th].mods \ {m}, !.seen = seen]
  <2>8. c \in CallRecords(Len(row'))
        BY <2>4 DEF CallRecords
  <2>9. c.at = "assign" /\ "assign" \notin Handling
        BY <2>1, <2>4 DEF Handling, CallRecords
  <2>10. call' = [call EXCEPT ![th] = c]
         BY <2>6
  <2> HIDE DEF c
  <2>11. c \in Calls(Len(row'))
         BY <2>8, <2>9 DEF Calls
  <2>12. call' \in [Threads -> Calls(Len(row'))]
         BY <2>2, <2>10, <2>11, CallTypes
  <2> QED BY <2>1, <2>2, <2>3, <2>12 DEF TypeOK
<1>19. CASE UNCHANGED vars
       BY <1>19, <1>s DEF vars, TypeOK
<1>20. ASSUME NEW th \in Threads, StatementRefused(th)
       PROVE  TypeOK'
  <2>1. UNCHANGED <<worker, listed, row, contended>> /\ Goto(th, "idle")
        BY <1>20 DEF StatementRefused
  <2>2. row[call[th].row].module \in Modules /\ row[call[th].row].worker \in Workers
        BY <1>20, CallFacts, RowFacts DEF StatementRefused, Handling
  <2>3. lost' \subseteq Modules /\ unsynced' \subseteq Workers
        BY <1>20, <1>s, <2>2 DEF StatementRefused, TypeOK
  <2>4. call' \in [Threads -> Calls(Len(row'))]
        BY <1>s, <2>1, GotoTypes DEF Steps, Handling
  <2> QED BY <1>s, <2>1, <2>3, <2>4 DEF TypeOK
<1> QED BY <1>1, <1>2, <1>3, <1>4, <1>5, <1>6, <1>7, <1>8, <1>9, <1>10, <1>11, <1>12, <1>13,
           <1>14, <1>15, <1>16, <1>17, <1>18, <1>19, <1>20
        DEF Next, Operator, Restart, Begin, Continue
(* Workers, assignments and calls in flight keep their types: a step on an *)
(* assignment has one that was created, and a move has a target.           *)
THEOREM TypeCorrect == Spec => []TypeOK
<1>1. Init => TypeOK
  <2> SUFFICES ASSUME Init PROVE TypeOK
      OBVIOUS
  <2>1. row = <<>> /\ row \in Seq(Rows) /\ Len(row) = 0
        BY DEF Init
  <2>2. call \in [Threads -> Calls(Len(row))]
        BY <2>1, IdleIsCall DEF Init
  <2> QED BY <2>1, <2>2, FleetAssumption DEF Init, TypeOK, WorkerStates
<1> QED BY <1>1, TypeStep, PTL DEF Spec
-----------------------------------------------------------------------------
Others(th) == \A t \in Threads \ {th} : call'[t] = call[t]

(* Goto moves one call to another step.                                    *)
LEMMA GotoShape ==
    ASSUME TypeOK, NEW th \in Threads, NEW at \in Steps, Goto(th, at)
    PROVE  /\ Others(th) /\ call'[th].at = at
           /\ at \notin {"idle", "next"} => call'[th].row = call[th].row
           /\ call'[th].target \in {NoWorker, call[th].target}
           /\ call'[th].seen = call[th].seen \/ call'[th] = Idle
<1>1. call[th] \in CallRecords(Len(row)) /\ call \in [Threads -> Calls(Len(row))]
      BY CallsAre DEF TypeOK
<1>2. Others(th)
      BY <1>1 DEF Goto, Others
<1>3. CASE at = "idle"
  <2>1. call'[th] = Idle
        BY <1>1, <1>3 DEF Goto
  <2> QED BY <1>2, <1>3, <2>1 DEF Idle
<1>4. CASE at = "next"
  <2>1. call'[th] = [call[th] EXCEPT !.at = at, !.row = 0, !.target = NoWorker]
        BY <1>1, <1>4 DEF Goto
  <2> QED BY <1>1, <1>2, <1>4, <2>1 DEF CallRecords
<1>5. CASE at \notin {"idle", "next"}
  <2>1. call'[th] = [call[th] EXCEPT !.at = at]
        BY <1>1, <1>5 DEF Goto
  <2> QED BY <1>1, <1>2, <1>5, <2>1 DEF CallRecords
<1> QED BY <1>3, <1>4, <1>5

(* A worker that is known stays known, and one that is gone stays gone.    *)
LEMMA WorkerMoves ==
    ASSUME TypeOK, [Next]_vars, NEW w \in Workers
    PROVE  /\ worker[w] # "unknown" => worker'[w] # "unknown"
           /\ worker[w] = "removed" => worker'[w] = "removed"
<1>1. ASSUME NEW v \in Workers, RegisterWorker(v) \/ UnregisterWorker(v)
                                \/ \E s \in SetStates : PatchWorker(v, s)
      PROVE  /\ worker[w] # "unknown" => worker'[w] # "unknown"
             /\ worker[w] = "removed" => worker'[w] = "removed"
      BY <1>1, StatusAssumption
      DEF RegisterWorker, UnregisterWorker, PatchWorker, Registered, TypeOK
<1>2. ASSUME NEW th \in Threads, NEW v \in Workers, BeginShutdown(th, v)
      PROVE  /\ worker[w] # "unknown" => worker'[w] # "unknown"
             /\ worker[w] = "removed" => worker'[w] = "removed"
      BY <1>2 DEF BeginShutdown, Registered, TypeOK
<1>3. ASSUME NEW th \in Threads, FinishShutdown(th)
      PROVE  /\ worker[w] # "unknown" => worker'[w] # "unknown"
             /\ worker[w] = "removed" => worker'[w] = "removed"
      BY <1>3 DEF FinishShutdown, Registered, TypeOK
<1>4. \/ UNCHANGED worker
      \/ \E v \in Workers : \/ RegisterWorker(v) \/ UnregisterWorker(v)
                            \/ \E s \in SetStates : PatchWorker(v, s)
      \/ \E th \in Threads, v \in Workers : BeginShutdown(th, v)
      \/ \E th \in Threads : FinishShutdown(th)
  <2>1. Restart \/ UNCHANGED vars \/ (\E v \in Workers, m \in Modules : CreateAssignment(v, m))
        => UNCHANGED worker
        BY DEF Restart, Crash, CrashInCreate, vars, CreateAssignment
  <2>2. ASSUME NEW th \in Threads,
               \/ \E a \in Assignments, s \in SetStatuses : UpdateAssignment(th, a, s)
               \/ BeginRebalance(th)
               \/ \E mods \in SUBSET Modules \ {{}} : BeginAutoAssign(th, mods)
        PROVE  UNCHANGED worker
        BY <2>2 DEF UpdateAssignment, BeginRebalance, BeginAutoAssign
  <2>3. ASSUME NEW th \in Threads, Continue(th), ~FinishShutdown(th)
        PROVE  UNCHANGED worker
        BY <2>3 DEF Continue, SyncUpdated, PickTarget, BlockRow, DeleteMoved, SyncDeleted,
                    CreateMoved, ListOverflow, PickUnderloaded, FinishRebalance, ListAssigned,
                    ListInProgress, AssignNext, FinishAutoAssign, StatementRefused
  <2> QED BY <2>1, <2>2, <2>3 DEF Next, Operator, Begin
<1> QED BY <1>1, <1>2, <1>3, <1>4

-----------------------------------------------------------------------------
(* A call only ever refers to workers that were registered.                *)
Knows(c) ==
    /\ c.target # NoWorker => worker[c.target] # "unknown"
    /\ \A w \in DOMAIN c.seen : worker[w] # "unknown"

KnownCalls == \A th \in Threads : Knows(call[th])

LEMMA KnownStep == TypeOK /\ KnownCalls /\ [Next]_vars => KnownCalls'
<1> SUFFICES ASSUME TypeOK, KnownCalls, [Next]_vars, NEW th \in Threads
             PROVE  Knows(call[th])'
    BY DEF KnownCalls
<1>a. /\ call[th].target \in Workers \cup {NoWorker} /\ DOMAIN call[th].seen \subseteq Workers
      /\ Knows(call[th])
      BY CallFacts DEF KnownCalls
<1>w. /\ \A w \in Workers : worker[w] # "unknown" => worker'[w] # "unknown"
      /\ \A w \in DOMAIN ActiveLoads : w \in Workers /\ worker[w] # "unknown"
      BY WorkerMoves, LoadTypes
<1>i. Idle.target = NoWorker /\ DOMAIN Idle.seen = {}
      BY DEF Idle, NoSnapshot
<1>b. ASSUME /\ call'[th].target \in {NoWorker, call[th].target}
             /\ call'[th].seen = call[th].seen \/ call'[th] = Idle
      PROVE  Knows(call[th])'
      BY <1>a, <1>b, <1>w, <1>i DEF Knows
<1>c. ASSUME call'[th] = call[th]
      PROVE  Knows(call[th])'
      BY <1>b, <1>c
\* A step of another thread, or of this one that keeps its workers.
<1>1. ASSUME NEW t \in Threads, NEW at \in Steps, Goto(t, at)
      PROVE  Knows(call[th])'
      BY <1>1, <1>b, <1>c, GotoShape DEF Others
<1>2. ASSUME NEW t \in Threads, NEW a, NEW v, NEW at, TakeUp(t, a, at, v),
             v # NoWorker => v \in Workers /\ worker[v] # "unknown"
      PROVE  Knows(call[th])'
  <2>1. CASE t # th
        BY <1>2, <1>c, <2>1 DEF TakeUp, TypeOK
  <2>2. CASE t = th
    <3>1. call[th] \in CallRecords(Len(row))
          BY CallsAre DEF TypeOK
    <3>2. call'[th].target = v /\ call'[th].seen = call[th].seen
          BY <1>2, <2>2, <3>1 DEF TakeUp, TypeOK, CallRecords
    <3> QED BY <1>2, <1>a, <1>w, <3>2 DEF Knows
  <2> QED BY <2>1, <2>2
<1>3. ASSUME NEW t \in Threads, NEW c, call' = [call EXCEPT ![t] = c],
             c.target = NoWorker, DOMAIN c.seen \subseteq DOMAIN ActiveLoads
      PROVE  Knows(call[th])'
  <2>1. call'[th] = IF t = th THEN c ELSE call[th]
        BY <1>3 DEF TypeOK
  <2> QED BY <1>3, <1>c, <1>w, <2>1 DEF Knows
<1>4. ASSUME NEW t \in Threads, NEW a \in Assignments, NEW s \in SetStatuses,
             UpdateAssignment(t, a, s)
      PROVE  Knows(call[th])'
  <2> DEFINE c == [Idle EXCEPT !.op = "update", !.at = "sync", !.row = a]
  <2>1. c.target = NoWorker /\ DOMAIN c.seen = {} /\ call' = [call EXCEPT ![t] = c]
        BY <1>4 DEF Idle, NoSnapshot, UpdateAssignment
  <2> HIDE DEF c
  <2> QED BY <1>3, <2>1
<1>5. ASSUME NEW t \in Threads, NEW w \in Workers, BeginShutdown(t, w)
      PROVE  Knows(call[th])'
  <2> DEFINE c == [Idle EXCEPT !.op = "shutdown", !.at = "next", !.worker = w,
                               !.todo = WorkingOn(row, w)]
  <2>1. c.target = NoWorker /\ DOMAIN c.seen = {} /\ call' = [call EXCEPT ![t] = c]
        BY <1>5 DEF Idle, NoSnapshot, BeginShutdown
  <2> HIDE DEF c
  <2> QED BY <1>3, <2>1
<1>6. ASSUME NEW t \in Threads, BeginRebalance(t)
      PROVE  Knows(call[th])'
  <2> DEFINE c == [Idle EXCEPT !.op = "rebalance", !.at = "list", !.seen = ActiveLoads]
  <2>1. c.target = NoWorker /\ c.seen = ActiveLoads /\ call' = [call EXCEPT ![t] = c]
        BY <1>6 DEF Idle, BeginRebalance
  <2> HIDE DEF c
  <2> QED BY <1>3, <2>1
<1>7. ASSUME NEW t \in Threads, NEW mods \in SUBSET Modules, BeginAutoAssign(t, mods)
      PROVE  Knows(call[th])'
  <2> DEFINE c == [Idle EXCEPT !.op = "auto_assign", !.at = "list_assigned",
                               !.mods = mods, !.seen = ActiveLoads]
  <2>1. c.target = NoWorker /\ c.seen = ActiveLoads /\ call' = [call EXCEPT ![t] = c]
        BY <1>7 DEF Idle, BeginAutoAssign
  <2> HIDE DEF c
  <2> QED BY <1>3, <2>1
<1>8. ASSUME NEW t \in Threads, PickTarget(t)
      PROVE  Knows(call[th])'
  <2>1. \E a \in call[t].todo :
          \/ TakeUp(t, a, "block", NoWorker)
          \/ \E v \in DOMAIN ActiveLoads : TakeUp(t, a, "delete", v)
        BY <1>8 DEF PickTarget, LeastLoaded
  <2> QED BY <1>2, <1>w, <2>1
<1>9. ASSUME NEW t \in Threads, PickUnderloaded(t)
      PROVE  Knows(call[th])'
  <2>1. \E a \in call[t].todo :
          \/ call' = [call EXCEPT ![t].todo = @ \ {a}]
          \/ \E v \in DOMAIN call[t].seen : TakeUp(t, a, "delete", v)
        BY <1>9 DEF PickUnderloaded, LeastLoaded
  <2>2. ASSUME NEW a, call' = [call EXCEPT ![t].todo = @ \ {a}]
        PROVE  Knows(call[th])'
    <3>1. call[th] \in CallRecords(Len(row))
          BY CallsAre DEF TypeOK
    <3>2. call'[th].target = call[th].target /\ call'[th].seen = call[th].seen
          BY <2>2, <3>1 DEF TypeOK, CallRecords
    <3> QED BY <1>b, <3>2
  <2>3. \A v \in DOMAIN call[t].seen : v \in Workers /\ worker[v] # "unknown"
        BY CallFacts DEF KnownCalls, Knows
  <2> QED BY <1>2, <2>1, <2>2, <2>3
<1>10. ASSUME NEW t \in Threads, ListOverflow(t) \/ ListAssigned(t) \/ ListInProgress(t)
       PROVE  Knows(call[th])'
  <2>1. call[th] \in CallRecords(Len(row))
        BY CallsAre DEF TypeOK
  <2>2. CASE Goto(t, "idle")
        BY <1>1, <2>2 DEF Steps
  <2>3. CASE ~Goto(t, "idle")
    <3>1. call'[th].target = call[th].target /\ call'[th].seen = call[th].seen
          BY <1>10, <2>1, <2>3 DEF ListOverflow, ListAssigned, ListInProgress, TypeOK, CallRecords
    <3> QED BY <1>b, <3>1
  <2> QED BY <2>2, <2>3
<1>11. ASSUME NEW t \in Threads, NEW m \in Modules, NEW w \in Workers, AssignNext(t, m, w)
       PROVE  Knows(call[th])'
  <2>1. call[th] \in CallRecords(Len(row))
        BY CallsAre DEF TypeOK
  <2>2. call'[th].target = call[th].target /\ DOMAIN call'[th].seen = DOMAIN call[th].seen
        BY <1>11, <2>1 DEF AssignNext, TypeOK, CallRecords
  <2> QED BY <1>a, <1>w, <2>2 DEF Knows
<1>12. ASSUME call' = [t \in Threads |-> Idle]
       PROVE  Knows(call[th])'
       BY <1>12, <1>i DEF Knows
<1>13. ASSUME NEW t \in Threads,
              \/ SyncUpdated(t) \/ BlockRow(t) \/ FinishShutdown(t) \/ DeleteMoved(t)
              \/ SyncDeleted(t) \/ CreateMoved(t) \/ FinishRebalance(t) \/ FinishAutoAssign(t)
              \/ StatementRefused(t)
       PROVE  Knows(call[th])'
  <2>1. \E at \in Steps : Goto(t, at)
        BY <1>13 DEF SyncUpdated, BlockRow, FinishShutdown, DeleteMoved, SyncDeleted, CreateMoved,
                     FinishRebalance, FinishAutoAssign, StatementRefused, Steps
  <2> QED BY <1>1, <2>1
<1>14. ASSUME NEW w \in Workers,
              \/ RegisterWorker(w) \/ UnregisterWorker(w)
              \/ \E s \in SetStates : PatchWorker(w, s)
              \/ \E m \in Modules : CreateAssignment(w, m)
       PROVE  Knows(call[th])'
       BY <1>14, <1>c DEF RegisterWorker, UnregisterWorker, PatchWorker, CreateAssignment
<1>15. CASE UNCHANGED vars
       BY <1>15, <1>c DEF vars
<1>16. CASE Restart
       BY <1>12, <1>16 DEF Restart, Crash, CrashInCreate
<1> QED BY <1>4, <1>5, <1>6, <1>7, <1>8, <1>9, <1>10, <1>11, <1>13, <1>14, <1>15, <1>16
        DEF Next, Operator, Begin, Continue
-----------------------------------------------------------------------------
(* The shapes a step can have, as far as the table, the loads and the      *)
(* moves are concerned.                                                    *)
Busy == {"sync", "resync", "create"}

\* The row of the worker is gone, and with it its assigned_modules.
Gone(w) ==
    /\ worker'[w] = "removed"
    /\ listed' = [listed EXCEPT ![w] = {}] /\ unsynced' = unsynced \ {w}

Quiet ==
    /\ UNCHANGED <<row, lost>>
    /\ UNCHANGED <<listed, unsynced>> \/ \E w \in Workers : Gone(w)
    /\ \A t \in Threads : call[t].at \in Busy => call'[t] = call[t]

StatusSet(th, a, s) ==
    /\ UNCHANGED <<worker, listed, lost, unsynced>>
    /\ row' = [row EXCEPT ![a].status = s] /\ Exists(a)
    /\ call[th].at \notin Busy /\ Others(th) /\ call'[th].row = a
    /\ call'[th].at = IF s = "deleted" THEN "resync" ELSE "sync"

Synced(th) ==
    /\ UNCHANGED <<worker, row, lost>> /\ Others(th)
    /\ call[th].at \in {"sync", "resync"} /\ call[th].row \in Assignments
    /\ \/ Sync(row, row[call[th].row].worker)
       \/ call[th].at = "sync" /\ ~Exists(call[th].row) /\ UNCHANGED <<listed, unsynced>>
    /\ call[th].at = "resync" => call'[th].at = "create" /\ call'[th].row = call[th].row

Inserted(w, m) ==
    /\ UNCHANGED <<worker, lost>> /\ Insert(w, m) /\ worker[w] # "unknown"
    /\ Sync(row', w) \/ SyncRefused(w)
    /\ \A t \in Threads : \/ call[t].at \in Busy => call'[t] = call[t]
                          \/ call[t].at = "create" /\ row[call[t].row].module = m

Crashed ==
    /\ UNCHANGED <<worker, listed>> /\ call' = [t \in Threads |-> Idle]
    /\ lost' = lost \cup Held
    /\ \/ UNCHANGED row /\ unsynced' = unsynced \cup Unsynced
       \/ \E w \in Workers, m \in Modules :
            Insert(w, m) /\ worker[w] # "unknown" /\ unsynced' = unsynced \cup Unsynced \cup {w}

Refused(th) ==
    /\ UNCHANGED <<worker, listed, row>> /\ Others(th)
    /\ \/ call[th].at \in {"resync", "create"} /\ lost' = lost \cup {row[call[th].row].module}
       \/ call[th].at \notin {"resync", "create"} /\ UNCHANGED lost
    /\ unsynced' = IF call[th].at = "resync" \/ (call[th].at = "sync" /\ Exists(call[th].row))
                   THEN unsynced \cup {row[call[th].row].worker} ELSE unsynced

Shape ==
    \/ Quiet
    \/ \E th \in Threads, a \in Assignments, s \in RowStatuses : StatusSet(th, a, s)
    \/ \E th \in Threads : Synced(th)
    \/ \E w \in Workers, m \in Modules : Inserted(w, m)
    \/ Crashed
    \/ \E th \in Threads : Refused(th)

LEMMA Shapes == TypeOK /\ KnownCalls /\ [Next]_vars => Shape
<1> SUFFICES ASSUME TypeOK, KnownCalls, [Next]_vars PROVE Shape
    OBVIOUS
<1>i. Idle.at = "idle" /\ "idle" \notin Busy
      BY DEF Idle, Busy
<1>1. ASSUME NEW w \in Workers, RegisterWorker(w) \/ UnregisterWorker(w)
                                \/ \E s \in SetStates : PatchWorker(w, s)
      PROVE  Quiet
      BY <1>1 DEF RegisterWorker, UnregisterWorker, PatchWorker, Quiet, Gone, TypeOK
<1>2. ASSUME NEW w \in Workers, NEW m \in Modules, CreateAssignment(w, m)
      PROVE  Inserted(w, m)
      BY <1>2 DEF CreateAssignment, Inserted
<1>3. ASSUME NEW w \in Workers, NEW m \in Modules, CrashInCreate(w, m)
      PROVE  Crashed
      BY <1>3 DEF CrashInCreate, Crashed
<1>4. Crash => Crashed
      BY DEF Crash, Crashed
<1>5. ASSUME NEW th \in Threads, NEW a \in Assignments, NEW s \in SetStatuses,
             UpdateAssignment(th, a, s)
      PROVE  StatusSet(th, a, s) /\ s \in RowStatuses
  <2> DEFINE c == [Idle EXCEPT !.op = "update", !.at = "sync", !.row = a]
  <2>1. c.at = "sync" /\ c.row = a
        BY DEF Idle
  <2>2. call' = [call EXCEPT ![th] = c]
        BY <1>5 DEF UpdateAssignment
  <2> HIDE DEF c
  <2>3. call'[th] = c /\ Others(th)
        BY <2>2 DEF TypeOK, Others
  <2> QED BY <1>5, <1>i, <2>1, <2>3, StatusAssumption DEF UpdateAssignment, StatusSet
<1>6. ASSUME NEW th \in Threads, SyncUpdated(th)
      PROVE  Synced(th)
  <2>1. Goto(th, "idle") \/ Goto(th, "next")
        BY <1>6 DEF SyncUpdated
  <2>2. Others(th)
        BY <2>1, GotoShape DEF Steps
  <2>3. call[th].row \in Assignments
        BY <1>6, CallFacts DEF SyncUpdated, Handling
  <2> QED BY <1>6, <2>2, <2>3 DEF SyncUpdated, Synced
<1>7. ASSUME NEW th \in Threads, NEW w \in Workers, BeginShutdown(th, w)
      PROVE  Quiet
      BY <1>7, <1>i DEF BeginShutdown, Quiet, TypeOK
<1>8. ASSUME NEW th \in Threads, PickTarget(th)
      PROVE  Quiet
  <2>1. call[th].at = "next" /\ Others(th)
        BY <1>8 DEF PickTarget, TakeUp, Others, TypeOK
  <2> QED BY <1>8, <2>1 DEF PickTarget, Quiet, Others, Busy
<1>9. ASSUME NEW th \in Threads, BlockRow(th)
      PROVE  \/ Quiet
             \/ StatusSet(th, call[th].row, "blocked") /\ call[th].row \in Assignments
  <2>1. call[th].at = "block" /\ call[th].row \in Assignments
        BY <1>9, CallFacts DEF BlockRow, Handling
  <2>2. CASE Exists(call[th].row)
    <3>1. Goto(th, "sync")
          BY <1>9, <2>2 DEF BlockRow
    <3>2. Others(th) /\ call'[th].at = "sync" /\ call'[th].row = call[th].row
          BY <3>1, GotoShape DEF Steps
    <3> QED BY <1>9, <2>1, <2>2, <3>2 DEF BlockRow, StatusSet, Busy
  <2>3. CASE ~Exists(call[th].row)
    <3>1. Others(th)
          BY <1>9, <2>3, GotoShape DEF BlockRow, Steps
    <3> QED BY <1>9, <2>1, <2>3, <3>1 DEF BlockRow, Quiet, Others, Busy
  <2> QED BY <2>2, <2>3
<1>10. ASSUME NEW th \in Threads, FinishShutdown(th) \/ FinishRebalance(th) \/ FinishAutoAssign(th)
       PROVE  Quiet
  <2>1. call[th].at \in {"next", "assign"} /\ Goto(th, "idle")
        BY <1>10 DEF FinishShutdown, FinishRebalance, FinishAutoAssign
  <2>2. Others(th)
        BY <2>1, GotoShape DEF Steps
  <2> QED BY <1>10, <2>1, <2>2
          DEF FinishShutdown, FinishRebalance, FinishAutoAssign, Quiet, Others, Busy
<1>11. ASSUME NEW th \in Threads, DeleteMoved(th)
       PROVE  \/ Quiet
              \/ StatusSet(th, call[th].row, "deleted") /\ call[th].row \in Assignments
  <2>1. call[th].at = "delete" /\ call[th].row \in Assignments
        BY <1>11, CallFacts DEF DeleteMoved, Handling
  <2>2. CASE Exists(call[th].row)
    <3>1. Goto(th, "resync")
          BY <1>11, <2>2 DEF DeleteMoved
    <3>2. Others(th) /\ call'[th].at = "resync" /\ call'[th].row = call[th].row
          BY <3>1, GotoShape DEF Steps
    <3> QED BY <1>11, <2>1, <2>2, <3>2 DEF DeleteMoved, StatusSet, Busy
  <2>3. CASE ~Exists(call[th].row)
    <3>1. Others(th)
          BY <1>11, <2>3, GotoShape DEF DeleteMoved, Steps
    <3> QED BY <1>11, <2>1, <2>3, <3>1 DEF DeleteMoved, Quiet, Others, Busy
  <2> QED BY <2>2, <2>3
<1>12. ASSUME NEW th \in Threads, SyncDeleted(th)
       PROVE  Synced(th)
  <2>1. call[th].at = "resync" /\ Goto(th, "create") /\ call[th].row \in Assignments
        BY <1>12, CallFacts DEF SyncDeleted, Handling
  <2>2. Others(th) /\ call'[th].at = "create" /\ call'[th].row = call[th].row
        BY <2>1, GotoShape DEF Steps
  <2> QED BY <1>12, <2>1, <2>2 DEF SyncDeleted, Synced
<1>13. ASSUME NEW th \in Threads, CreateMoved(th)
       PROVE  \E w \in Workers, m \in Modules : Inserted(w, m)
  <2>1. /\ call[th].target \in Workers /\ row[call[th].row].module \in Modules
        /\ call[th].at = "create" /\ (Goto(th, "next") \/ Goto(th, "idle"))
        BY <1>13, CallFacts, RowFacts DEF CreateMoved, Handling
  <2>2. Others(th)
        BY <2>1, GotoShape DEF Steps
  <2>3. worker[call[th].target] # "unknown"
        BY <2>1, FleetAssumption DEF KnownCalls, Knows
  <2>4. Inserted(call[th].target, row[call[th].row].module)
        BY <1>13, <2>1, <2>2, <2>3 DEF CreateMoved, Inserted, Others
  <2> QED BY <2>1, <2>4
<1>14. ASSUME NEW th \in Threads, BeginRebalance(th)
       PROVE  Quiet
       BY <1>14, <1>i DEF BeginRebalance, Quiet, TypeOK
<1>15. ASSUME NEW th \in Threads, NEW mods \in SUBSET Modules, BeginAutoAssign(th, mods)
       PROVE  Quiet
       BY <1>15, <1>i DEF BeginAutoAssign, Quiet, TypeOK
<1>16. ASSUME NEW th \in Threads,
              ListOverflow(th) \/ PickUnderloaded(th) \/ ListAssigned(th) \/ ListInProgress(th)
       PROVE  Quiet
  <2>1. /\ call[th].at \in {"list", "next", "list_assigned", "list_in_progress"}
        /\ UNCHANGED <<listed, row, lost, unsynced>>
        BY <1>16 DEF ListOverflow, PickUnderloaded, ListAssigned, ListInProgress
  <2>2. Goto(th, "idle") => Others(th)
        BY GotoShape DEF Steps
  <2>3. ~Goto(th, "idle") => Others(th)
        BY <1>16 DEF ListOverflow, PickUnderloaded, TakeUp, ListAssigned, ListInProgress,
                     Others, TypeOK
  <2>4. Others(th)
        BY <2>2, <2>3
  <2> QED BY <2>1, <2>4 DEF Quiet, Others, Busy
<1>17. ASSUME NEW th \in Threads, NEW m \in Modules, NEW w \in Workers, AssignNext(th, m, w)
       PROVE  Inserted(w, m)
  <2>1. call[th].at = "assign" /\ Others(th)
        BY <1>17 DEF AssignNext, Others, TypeOK
  <2>2. worker[w] # "unknown"
        BY <1>17 DEF AssignNext, KnownCalls, Knows
  <2> QED BY <1>17, <2>1, <2>2 DEF AssignNext, Inserted, Others, Busy
<1>18. UNCHANGED vars => Quiet
       BY DEF vars, Quiet
<1>19. {"blocked", "deleted"} \subseteq RowStatuses
       BY DEF RowStatuses
<1>20. ASSUME NEW th \in Threads, StatementRefused(th)
       PROVE  Refused(th)
  <2>1. Goto(th, "idle")
        BY <1>20 DEF StatementRefused
  <2>2. Others(th)
        BY <2>1, GotoShape DEF Steps
  <2> QED BY <1>20, <2>1, <2>2 DEF StatementRefused, Refused
<1> QED BY <1>1, <1>2, <1>3, <1>4, <1>5, <1>6, <1>7, <1>8, <1>9, <1>10, <1>11, <1>12, <1>13,
           <1>14, <1>15, <1>16, <1>17, <1>18, <1>19, <1>20
        DEF Next, Operator, Restart, Begin, Continue, Shape
-----------------------------------------------------------------------------
(* True loads: the inductive invariant.  What is not registered yet has no *)
(* assignments.                                                            *)
LoadInv ==
    /\ \A a \in Assignments : worker[row[a].worker] # "unknown"
    /\ \A w \in Workers : worker[w] = "unknown" => listed[w] = {}
    /\ LoadIsTrue

\* A load that has to be true now.
Due(w) == Registered(w) /\ w \notin Unsynced \cup unsynced

LEMMA LoadStep == TypeOK /\ KnownCalls /\ LoadInv /\ [Next]_vars => LoadInv'
<1> SUFFICES ASSUME TypeOK, KnownCalls, LoadInv, [Next]_vars PROVE LoadInv'
    OBVIOUS
<1>t. TypeOK'
      BY TypeStep
<1>r. /\ \A a \in Assignments : row[a].worker \in Workers /\ row[a].module \in Modules
      /\ Len(row) \in Nat /\ Assignments = 1..Len(row)
      BY RowFacts
<1>w. \A w \in Workers : /\ worker[w] # "unknown" => worker'[w] # "unknown"
                         /\ worker[w] = "removed" => worker'[w] = "removed"
      BY WorkerMoves
<1>u. \A w \in Workers : worker[w] = "unknown" => listed[w] = {} /\ WorkingOn(row, w) = {}
      BY DEF LoadInv, WorkingOn, Assignments
<1>d. \A w \in Workers : Due(w) => listed[w] = WorkingOn(row, w)
      BY DEF LoadInv, LoadIsTrue, Due
<1>p. ASSUME \A a \in Assignments' : worker'[row'[a].worker] # "unknown",
             \A w \in Workers : worker'[w] = "unknown" => listed'[w] = {},
             \A w \in Workers : Due(w)' => listed'[w] = WorkingOn(row', w)
      PROVE  LoadInv'
      BY <1>p DEF LoadInv, LoadIsTrue, Due
\* The table as it was: the workers of its rows are known still.
<1>k. ASSUME UNCHANGED row
      PROVE  \A a \in Assignments' : worker'[row'[a].worker] # "unknown"
      BY <1>k, <1>r, <1>w DEF LoadInv, Assignments
<1>1. CASE Quiet
  <2>1. /\ UNCHANGED row
        /\ \A w \in Workers : \/ listed'[w] = listed[w] /\ (w \in unsynced => w \in unsynced')
                              \/ worker'[w] = "removed" /\ listed'[w] = {}
        BY <1>1 DEF Quiet, Gone, TypeOK
  <2>2. Unsynced \subseteq Unsynced'
        BY <1>1 DEF Quiet, Unsynced, Busy, Exists
  <2>3. ASSUME NEW w \in Workers, Due(w)'
        PROVE  listed'[w] = WorkingOn(row', w)
    <3>1. /\ listed'[w] = listed[w]
          /\ worker[w] = "unknown" \/ Due(w)
          BY <2>1, <2>2, <2>3, <1>w DEF Due, Registered
    <3> QED BY <2>1, <3>1, <1>u, <1>d
  <2>4. \A w \in Workers : worker'[w] = "unknown" => listed'[w] = {}
        BY <2>1, <1>w, <1>u
  <2> QED BY <1>k, <1>p, <2>1, <2>3, <2>4
<1>2. ASSUME NEW th \in Threads, NEW a \in Assignments, NEW s \in RowStatuses, StatusSet(th, a, s)
      PROVE  LoadInv'
  <2>1. /\ UNCHANGED <<worker, listed, unsynced>> /\ row' = [row EXCEPT ![a].status = s]
        /\ Exists(a) /\ Others(th) /\ call'[th].row = a /\ call[th].at \notin {"sync", "resync"}
        /\ call'[th].at = IF s = "deleted" THEN "resync" ELSE "sync"
        BY <1>2 DEF StatusSet, Busy
  <2>2. /\ Assignments' = Assignments
        /\ \A b \in Assignments : /\ row'[b].worker = row[b].worker
                                  /\ row'[b].status = IF b = a THEN s ELSE row[b].status
        BY <2>1, StatusFacts
  <2>3. row[a].worker \in Unsynced'
    <3>a. row'[a].status = s /\ row'[a].worker = row[a].worker
          BY <2>2
    <3>1. CASE s = "deleted"
          BY <2>1, <3>1, <3>a DEF Unsynced
    <3>2. CASE s # "deleted"
          BY <2>1, <3>2, <3>a DEF Unsynced, Exists
    <3> QED BY <3>1, <3>2
  <2>4. Unsynced \subseteq Unsynced'
    <3> SUFFICES ASSUME NEW w \in Unsynced PROVE w \in Unsynced'
        OBVIOUS
    <3>1. PICK t \in Threads : /\ w = row[call[t].row].worker
                               /\ \/ call[t].at = "resync"
                                  \/ call[t].at = "sync" /\ Exists(call[t].row)
          BY DEF Unsynced
    <3>2. call'[t] = call[t] /\ call[t].row \in Assignments
          BY <2>1, <3>1, CallFacts DEF Others, Handling
    <3>3. CASE call[t].row = a
          BY <2>3, <3>1, <3>3
    <3>4. CASE call[t].row # a
      <4>1. row'[call[t].row].worker = w /\ row'[call[t].row].status = row[call[t].row].status
            BY <2>2, <3>1, <3>2, <3>4
      <4> QED BY <3>1, <3>2, <4>1 DEF Unsynced, Exists
    <3> QED BY <3>3, <3>4
  <2>5. ASSUME NEW w \in Workers, Due(w)'
        PROVE  listed'[w] = WorkingOn(row', w)
    <3>1. Due(w) /\ w # row[a].worker
          BY <2>1, <2>3, <2>4, <2>5 DEF Due, Registered
    <3>2. WorkingOn(row', w) = WorkingOn(row, w)
          BY <2>2, <3>1 DEF WorkingOn, Assignments
    <3> QED BY <2>1, <3>1, <3>2, <1>d
  <2>6. \A b \in Assignments' : worker'[row'[b].worker] # "unknown"
        BY <2>1, <2>2 DEF LoadInv
  <2>7. \A w \in Workers : worker'[w] = "unknown" => listed'[w] = {}
        BY <2>1, <1>u
  <2> QED BY <1>p, <2>5, <2>6, <2>7
<1>3. ASSUME NEW th \in Threads, Synced(th)
      PROVE  LoadInv'
  <2> DEFINE v == row[call[th].row].worker
  <2>1. /\ UNCHANGED <<worker, row>> /\ Others(th) /\ v \in Workers
        BY <1>3, <1>r DEF Synced
  <2>2. Unsynced \subseteq Unsynced' \cup {v}
    <3> SUFFICES ASSUME NEW w \in Unsynced, w # v PROVE w \in Unsynced'
        OBVIOUS
    <3>1. PICK t \in Threads : /\ w = row[call[t].row].worker
                               /\ \/ call[t].at = "resync"
                                  \/ call[t].at = "sync" /\ Exists(call[t].row)
          BY DEF Unsynced
    <3>2. call'[t] = call[t]
          BY <2>1, <3>1 DEF Others
    <3> QED BY <2>1, <3>1, <3>2 DEF Unsynced, Exists
  <2>3. CASE Sync(row, v)
    <3> HIDE DEF v
    <3>1. /\ unsynced' = unsynced \ {v}
          /\ \A w \in Workers : listed'[w] = IF w = v /\ Registered(v) THEN WorkingOn(row, v)
                                             ELSE listed[w]
          BY <2>1, <2>3 DEF Sync, TypeOK
    <3>2. ASSUME NEW w \in Workers, Due(w)'
          PROVE  listed'[w] = WorkingOn(row', w)
      <4>1. Registered(w) /\ (w # v => Due(w))
            BY <2>1, <2>2, <3>1, <3>2 DEF Due, Registered
      <4> QED BY <1>d, <2>1, <3>1, <4>1
    <3>3. \A w \in Workers : worker'[w] = "unknown" => listed'[w] = {}
          BY <1>u, <2>1, <3>1 DEF Registered
    <3> QED BY <1>k, <1>p, <2>1, <3>2, <3>3
  <2>4. CASE /\ call[th].at = "sync" /\ ~Exists(call[th].row) /\ UNCHANGED <<listed, unsynced>>
    <3>1. Unsynced \subseteq Unsynced'
      <4> SUFFICES ASSUME NEW w \in Unsynced PROVE w \in Unsynced'
          OBVIOUS
      <4>1. PICK t \in Threads : /\ w = row[call[t].row].worker
                                 /\ \/ call[t].at = "resync"
                                    \/ call[t].at = "sync" /\ Exists(call[t].row)
            BY DEF Unsynced
      <4>2. call'[t] = call[t]
            BY <2>1, <2>4, <4>1 DEF Others
      <4> QED BY <2>1, <4>1, <4>2 DEF Unsynced, Exists
    <3>2. ASSUME NEW w \in Workers, Due(w)'
          PROVE  listed'[w] = WorkingOn(row', w)
      <4>1. Due(w)
            BY <2>1, <2>4, <3>1, <3>2 DEF Due, Registered
      <4> QED BY <1>d, <2>1, <2>4, <4>1
    <3> QED BY <1>k, <1>p, <1>u, <2>1, <2>4, <3>2
  <2> QED BY <1>3, <2>3, <2>4 DEF Synced
<1>4. ASSUME NEW v \in Workers, NEW m \in Modules, Inserted(v, m)
      PROVE  LoadInv'
  <2>1. /\ UNCHANGED worker /\ Insert(v, m) /\ worker[v] # "unknown"
        /\ Sync(row', v) \/ SyncRefused(v)
        BY <1>4 DEF Inserted
  <2>i. /\ Assignments' = Assignments \cup {Len(row) + 1}
        /\ \A a \in Assignments : row'[a] = row[a]
        /\ row'[Len(row) + 1] = [worker |-> v, module |-> m, status |-> "assigned"]
        BY <2>1, InsertFacts
  <2>2. /\ Assignments' = Assignments \cup {Len(row) + 1}
        /\ \A a \in Assignments : row'[a] = row[a]
        /\ row'[Len(row) + 1].worker = v
        BY <2>i
  <2>3. Unsynced \subseteq Unsynced'
    <3> SUFFICES ASSUME NEW w \in Unsynced PROVE w \in Unsynced'
        OBVIOUS
    <3>1. PICK t \in Threads : /\ w = row[call[t].row].worker
                               /\ \/ call[t].at = "resync"
                                  \/ call[t].at = "sync" /\ Exists(call[t].row)
          BY DEF Unsynced
    <3>2. call'[t] = call[t] /\ call[t].row \in Assignments
          BY <1>4, <3>1, CallFacts DEF Inserted, Busy, Handling
    <3> QED BY <2>2, <3>1, <3>2 DEF Unsynced, Exists
  <2>4. /\ unsynced \ {v} \subseteq unsynced'
        /\ \A w \in Workers : listed'[w] = IF w = v /\ Registered(v) /\ v \notin unsynced'
                                           THEN WorkingOn(row', v) ELSE listed[w]
    <3>1. CASE Sync(row', v)
          BY <3>1 DEF Sync, TypeOK
    <3>2. CASE SyncRefused(v)
          BY <3>2 DEF SyncRefused
    <3> QED BY <2>1, <3>1, <3>2
  <2>5. ASSUME NEW w \in Workers, Due(w)'
        PROVE  listed'[w] = WorkingOn(row', w)
    <3>1. Registered(w) /\ w \notin unsynced' /\ (w # v => Due(w))
          BY <2>1, <2>3, <2>4, <2>5 DEF Due, Registered
    <3>2. w # v => WorkingOn(row', w) = WorkingOn(row, w)
          BY <2>2 DEF WorkingOn, Assignments
    <3> QED BY <1>d, <2>4, <3>1, <3>2
  <2>6. \A a \in Assignments' : worker'[row'[a].worker] # "unknown"
        BY <2>1, <2>2 DEF LoadInv
  <2>7. \A w \in Workers : worker'[w] = "unknown" => listed'[w] = {}
        BY <1>u, <2>1, <2>4
  <2> QED BY <1>p, <2>5, <2>6, <2>7
<1>5. CASE Crashed
  <2>1. UNCHANGED <<worker, listed>>
        BY <1>5 DEF Crashed
  <2>2. \A w \in Workers : worker'[w] = "unknown" => listed'[w] = {}
        BY <1>u, <2>1
  <2>3. CASE UNCHANGED row /\ unsynced' = unsynced \cup Unsynced
    <3>1. ASSUME NEW w \in Workers, Due(w)'
          PROVE  listed'[w] = WorkingOn(row', w)
          BY <1>d, <2>1, <2>3, <3>1 DEF Due, Registered
    <3> QED BY <1>k, <1>p, <2>2, <2>3, <3>1
  <2>4. ASSUME NEW v \in Workers, NEW m \in Modules, Insert(v, m), worker[v] # "unknown",
               unsynced' = unsynced \cup Unsynced \cup {v}
        PROVE  LoadInv'
    <3>i. /\ Assignments' = Assignments \cup {Len(row) + 1}
          /\ \A a \in Assignments : row'[a] = row[a]
          /\ row'[Len(row) + 1] = [worker |-> v, module |-> m, status |-> "assigned"]
          BY <2>4, InsertFacts
    <3>1. /\ Assignments' = Assignments \cup {Len(row) + 1}
          /\ \A a \in Assignments : row'[a] = row[a]
          /\ row'[Len(row) + 1].worker = v
          BY <3>i
    <3>2. ASSUME NEW w \in Workers, Due(w)'
          PROVE  listed'[w] = WorkingOn(row', w)
      <4>1. Due(w) /\ w # v
            BY <2>1, <2>4, <3>2 DEF Due, Registered
      <4>2. WorkingOn(row', w) = WorkingOn(row, w)
            BY <3>1, <4>1 DEF WorkingOn, Assignments
      <4> QED BY <1>d, <2>1, <4>1, <4>2
    <3>3. \A a \in Assignments' : worker'[row'[a].worker] # "unknown"
          BY <2>1, <2>4, <3>1 DEF LoadInv
    <3> QED BY <1>p, <2>2, <3>2, <3>3
  <2> QED BY <1>5, <2>3, <2>4 DEF Crashed
<1>6. ASSUME NEW th \in Threads, Refused(th)
      PROVE  LoadInv'
  <2>1. /\ UNCHANGED <<worker, listed, row>> /\ Others(th) /\ unsynced \subseteq unsynced'
        /\ call[th].at = "resync" \/ (call[th].at = "sync" /\ Exists(call[th].row))
             => row[call[th].row].worker \in unsynced'
        BY <1>6 DEF Refused
  <2>2. Unsynced \subseteq Unsynced' \cup unsynced'
    <3> SUFFICES ASSUME NEW w \in Unsynced PROVE w \in Unsynced' \cup unsynced'
        OBVIOUS
    <3>1. PICK t \in Threads : /\ w = row[call[t].row].worker
                               /\ \/ call[t].at = "resync"
                                  \/ call[t].at = "sync" /\ Exists(call[t].row)
          BY DEF Unsynced
    <3>2. CASE t = th
          BY <2>1, <3>1, <3>2
    <3>3. CASE t # th
      <4>1. call'[t] = call[t]
            BY <2>1, <3>3 DEF Others
      <4> QED BY <2>1, <3>1, <4>1 DEF Unsynced, Exists
    <3> QED BY <3>2, <3>3
  <2>3. ASSUME NEW w \in Workers, Due(w)'
        PROVE  listed'[w] = WorkingOn(row', w)
    <3>1. Due(w)
          BY <2>1, <2>2, <2>3 DEF Due, Registered
    <3> QED BY <1>d, <2>1, <3>1
  <2> QED BY <1>k, <1>p, <1>u, <2>1, <2>3
<1> QED BY Shapes, <1>1, <1>2, <1>3, <1>4, <1>5, <1>6 DEF Shape

(* The loads that placements, moves and rebalances decide on are the rows  *)
(* of the table, except for a worker whose sync is pending or was cut off. *)
THEOREM LoadsAreTrue == Spec => []LoadIsTrue
<1>1. Init => KnownCalls /\ LoadInv
  <2> SUFFICES ASSUME Init PROVE KnownCalls /\ LoadInv
      OBVIOUS
  <2>1. KnownCalls
        BY DEF Init, KnownCalls, Knows, Idle, NoSnapshot
  <2>2. Assignments = {}
        BY DEF Init, Assignments
  <2>3. \A w \in Workers : worker[w] = "unknown" /\ listed[w] = {}
        BY DEF Init
  <2> QED BY <2>1, <2>2, <2>3 DEF LoadInv, LoadIsTrue, Registered
<1>2. LoadInv => LoadIsTrue
      BY DEF LoadInv
<1> QED BY <1>1, <1>2, KnownStep, LoadStep, TypeCorrect, PTL DEF Spec
-----------------------------------------------------------------------------
(* A deleted row has a successor, or its move is on its way, or lost.      *)
LEMMA KeptStep == TypeOK /\ KnownCalls /\ ModuleKept /\ [Next]_vars => ModuleKept'
<1> SUFFICES ASSUME TypeOK, KnownCalls, ModuleKept, [Next]_vars,
                    NEW a \in Assignments', row'[a].status = "deleted"
             PROVE  \/ \E b \in Assignments' : Exists(b)' /\ row'[b].module = row'[a].module
                    \/ row'[a].module \in Held' \cup lost'
    BY DEF ModuleKept
<1> DEFINE Kept(m) == \/ \E b \in Assignments' : Exists(b)' /\ row'[b].module = m
                      \/ m \in Held' \cup lost'
<1>r. \A b \in Assignments : row[b].worker \in Workers /\ row[b].module \in Modules
      BY RowFacts
<1>h. ASSUME a \in Assignments, row[a].status = "deleted", row'[a].module = row[a].module,
             \A b \in Assignments : Exists(b) => Kept(row[b].module),
             \A m \in Held \cup lost : Kept(m)
      PROVE  Kept(row'[a].module)
      BY <1>h DEF ModuleKept
<1>1. CASE Quiet
  <2>1. /\ UNCHANGED <<row, lost>> /\ Held \subseteq Held'
        BY <1>1 DEF Quiet, Held, Busy
  <2>2. Assignments' = Assignments /\ \A b \in Assignments : Exists(b)' = Exists(b)
        BY <2>1 DEF Assignments, Exists
  <2> QED BY <1>h, <2>1, <2>2
<1>2. ASSUME NEW th \in Threads, NEW c \in Assignments, NEW s \in RowStatuses, StatusSet(th, c, s)
      PROVE  Kept(row'[a].module)
  <2>1. /\ UNCHANGED lost /\ row' = [row EXCEPT ![c].status = s] /\ Exists(c)
        /\ Others(th) /\ call'[th].row = c /\ call[th].at \notin {"resync", "create"}
        /\ s = "deleted" => call'[th].at = "resync"
        BY <1>2 DEF StatusSet, Busy
  <2>2. /\ Assignments' = Assignments
        /\ \A b \in Assignments : /\ row'[b].module = row[b].module
                                  /\ row'[b].status = IF b = c THEN s ELSE row[b].status
        BY <2>1, StatusFacts
  <2>3. Held \subseteq Held'
    <3> SUFFICES ASSUME NEW m \in Held PROVE m \in Held'
        OBVIOUS
    <3>1. PICK t \in Threads : call[t].at \in {"resync", "create"} /\ m = row[call[t].row].module
          BY DEF Held
    <3>2. call'[t] = call[t] /\ call[t].row \in Assignments
          BY <2>1, <3>1, CallFacts DEF Others, Handling
    <3> QED BY <2>2, <3>1, <3>2 DEF Held
  <2>4. s = "deleted" => row[c].module \in Held'
        BY <2>1, <2>2 DEF Held
  <2>5. \A b \in Assignments : Exists(b) => Kept(row[b].module)
        BY <2>2, <2>4 DEF Exists
  <2>6. \A m \in Held \cup lost : Kept(m)
        BY <2>1, <2>3
  <2>7. CASE a = c
        BY <2>2, <2>4, <2>7
  <2>8. CASE a # c
        BY <1>h, <2>2, <2>5, <2>6, <2>8
  <2> QED BY <2>7, <2>8
<1>3. ASSUME NEW th \in Threads, Synced(th)
      PROVE  Kept(row'[a].module)
  <2>1. UNCHANGED <<row, lost>> /\ Others(th)
        BY <1>3 DEF Synced
  <2>2. Held \subseteq Held'
    <3> SUFFICES ASSUME NEW m \in Held PROVE m \in Held'
        OBVIOUS
    <3>1. PICK t \in Threads : call[t].at \in {"resync", "create"} /\ m = row[call[t].row].module
          BY DEF Held
    <3>2. call'[t].at \in {"resync", "create"} /\ call'[t].row = call[t].row
          BY <1>3, <3>1 DEF Synced, Others
    <3> QED BY <2>1, <3>1, <3>2 DEF Held
  <2>3. Assignments' = Assignments /\ \A b \in Assignments : Exists(b)' = Exists(b)
        BY <2>1 DEF Assignments, Exists
  <2> QED BY <1>h, <2>1, <2>2, <2>3
<1>4. ASSUME NEW w \in Workers, NEW m \in Modules, Insert(w, m)
      PROVE  /\ \E b \in Assignments' : Exists(b)' /\ row'[b].module = m
             /\ \A b \in Assignments : b \in Assignments' /\ row'[b] = row[b] /\ Exists(b)' = Exists(b)
             /\ a \in Assignments /\ row[a].status = "deleted"
  <2>1. /\ Assignments' = Assignments \cup {Len(row) + 1}
        /\ \A b \in Assignments : row'[b] = row[b]
        /\ row'[Len(row) + 1] = [worker |-> w, module |-> m, status |-> "assigned"]
        BY <1>4, InsertFacts
  <2>2. row'[Len(row) + 1].status = "assigned" /\ row'[Len(row) + 1].module = m
        BY <2>1
  <2> QED BY <2>1, <2>2 DEF Exists
<1>5. ASSUME NEW w \in Workers, NEW m \in Modules, Inserted(w, m)
      PROVE  Kept(row'[a].module)
  <2>1. Insert(w, m) /\ UNCHANGED lost
        BY <1>5 DEF Inserted
  <2>2. \A k \in Held : Kept(k)
    <3> SUFFICES ASSUME NEW k \in Held PROVE Kept(k)
        OBVIOUS
    <3>1. PICK t \in Threads : call[t].at \in {"resync", "create"} /\ k = row[call[t].row].module
          BY DEF Held
    <3>2. CASE call'[t] = call[t]
      <4>1. call[t].row \in Assignments
            BY <3>1, CallFacts DEF Handling
      <4>2. row'[call[t].row] = row[call[t].row]
            BY <1>4, <2>1, <4>1
      <4> QED BY <3>1, <3>2, <4>2 DEF Held
    <3>3. CASE call'[t] # call[t]
      <4>1. k = m
            BY <1>5, <3>1, <3>3 DEF Inserted, Busy
      <4> QED BY <1>4, <2>1, <4>1
    <3> QED BY <3>2, <3>3
  <2>3. \A b \in Assignments : Exists(b) => Kept(row[b].module)
        BY <1>4, <2>1
  <2> QED BY <1>h, <1>4, <2>1, <2>2, <2>3
<1>6. CASE Crashed
  <2>1. lost' = lost \cup Held
        BY <1>6 DEF Crashed
  <2>2. CASE UNCHANGED row
    <3>1. Assignments' = Assignments /\ \A b \in Assignments : Exists(b)' = Exists(b)
          BY <2>2 DEF Assignments, Exists
    <3> QED BY <1>h, <2>1, <2>2, <3>1
  <2>3. ASSUME NEW w \in Workers, NEW m \in Modules, Insert(w, m)
        PROVE  Kept(row'[a].module)
    <3>1. \A b \in Assignments : Exists(b) => Kept(row[b].module)
          BY <1>4, <2>3
    <3> QED BY <1>h, <1>4, <2>1, <2>3, <3>1
  <2> QED BY <1>6, <2>2, <2>3 DEF Crashed
<1>7. ASSUME NEW th \in Threads, Refused(th)
      PROVE  Kept(row'[a].module)
  <2>1. /\ UNCHANGED row /\ Others(th) /\ lost \subseteq lost'
        /\ call[th].at \in {"resync", "create"} => row[call[th].row].module \in lost'
        BY <1>7 DEF Refused
  <2>2. Assignments' = Assignments /\ \A b \in Assignments : Exists(b)' = Exists(b)
        BY <2>1 DEF Assignments, Exists
  <2>3. Held \subseteq Held' \cup lost'
    <3> SUFFICES ASSUME NEW m \in Held PROVE m \in Held' \cup lost'
        OBVIOUS
    <3>1. PICK t \in Threads : call[t].at \in {"resync", "create"} /\ m = row[call[t].row].module
          BY DEF Held
    <3>2. CASE t = th
          BY <2>1, <3>1, <3>2
    <3>3. CASE t # th
      <4>1. call'[t] = call[t]
            BY <2>1, <3>3 DEF Others
      <4> QED BY <2>1, <3>1, <4>1 DEF Held
    <3> QED BY <3>2, <3>3
  <2> QED BY <1>h, <2>1, <2>2, <2>3
<1> QED BY Shapes, <1>1, <1>2, <1>3, <1>5, <1>6, <1>7 DEF Shape

(* No module drops out of the fleet, whatever shutdowns, rebalances and    *)
(* updates run at once, unless a restart or a refusal cuts off its move.   *)
THEOREM ModulesAreKept == Spec => []ModuleKept
<1>1. Init => KnownCalls /\ ModuleKept
  <2> SUFFICES ASSUME Init PROVE KnownCalls /\ ModuleKept
      OBVIOUS
  <2>1. KnownCalls
        BY DEF Init, KnownCalls, Knows, Idle, NoSnapshot
  <2>2. Assignments = {}
        BY DEF Init, Assignments
  <2> QED BY <2>1, <2>2 DEF ModuleKept
<1> QED BY <1>1, KnownStep, KeptStep, TypeCorrect, PTL DEF Spec
-----------------------------------------------------------------------------
(***************************************************************************)
(* One builder.  For a module that is not contended, at most one           *)
(* orchestration runs, what it has listed is still the only row of the     *)
(* module that can be worked on, and what it is about to place has none.   *)
(***************************************************************************)
Alone(rows, a) ==
    \A b \in DOMAIN rows :
        rows[b].module = rows[a].module /\ rows[b].status \in Working => b = a

Unbuilt(rows, m) == \A b \in DOMAIN rows : rows[b].module = m => rows[b].status \notin Working

Single(rows, cont) ==
    \A a \in DOMAIN rows :
        rows[a].module \notin cont /\ rows[a].status \in Working => Alone(rows, a)

\* Steps of a move, from the choice of its target on.
Moving == {"delete", "resync", "create"}

\* A listed row is the only one of its module, in the table and in the list.
ListSound(c, rows, cont) ==
    \A a \in c.todo : rows[a].module \notin cont =>
        /\ Alone(rows, a)
        /\ \A b \in c.todo : rows[b].module = rows[a].module => b = a
        /\ c.at \in Moving => rows[c.row].module # rows[a].module

\* What is moved is built by no other row, and by none once its row is deleted.
MoveSound(c, rows, cont) ==
    c.at \in Moving /\ rows[c.row].module \notin cont =>
        /\ c.at = "delete" => Alone(rows, c.row)
        /\ c.at \in {"resync", "create"} => Unbuilt(rows, rows[c.row].module)

\* The queries leave only modules nobody builds.
PlaceSound(c, rows, cont) ==
    \A m \in c.mods \ cont :
        /\ c.at = "list_in_progress" =>
               \A b \in DOMAIN rows : rows[b].module = m => rows[b].status # "assigned"
        /\ c.at = "assign" => Unbuilt(rows, m)

Sound(c, rows, cont) ==
    ListSound(c, rows, cont) /\ MoveSound(c, rows, cont) /\ PlaceSound(c, rows, cont)

\* Only an orchestration has a list, and only a move or a shutdown uses it.
Staged(c) ==
    /\ c.op \in {"idle", "update"} => c.at \in {"idle", "sync"} /\ c.todo = {}
    /\ c.at = "sync" => c.op # "idle"
    /\ c.at \in {"list_assigned", "list_in_progress", "assign"} => c.todo = {}

OneAtATime == \A t, u \in Orchestrating : t = u \/ contended = Modules

BuildInv ==
    /\ Single(row, contended) /\ OneAtATime
    /\ \A th \in Threads : Staged(call[th]) /\ Sound(call[th], row, contended)

LEMMA SingleIsOneBuilder == Single(row, contended) <=> OneBuilder
BY DEF Single, Alone, OneBuilder, Assignments

(* A call that no longer moves or places anything keeps a sound list.      *)
LEMMA Onward ==
    ASSUME NEW rows, NEW cont, NEW c, NEW d, Sound(c, rows, cont), d.todo \subseteq c.todo,
           d.at \notin Moving \cup {"list_in_progress", "assign"}
    PROVE  Sound(d, rows, cont)
BY DEF Sound, ListSound, MoveSound, PlaceSound

LEMMA EmptyIsSound ==
    ASSUME NEW rows, NEW cont, NEW d, d.todo = {},
           d.at \notin Moving \cup {"list_in_progress", "assign"}
    PROVE  Sound(d, rows, cont)
BY DEF Sound, ListSound, MoveSound, PlaceSound

(* What a list is made of when it is read.                                 *)
LEMMA ListedIsSound ==
    ASSUME NEW rows, NEW cont, NEW d, Single(rows, cont),
           \A a \in d.todo : a \in DOMAIN rows /\ rows[a].status \in Working,
           d.at \notin Moving \cup {"list_in_progress", "assign"}
    PROVE  Sound(d, rows, cont)
<1>1. MoveSound(d, rows, cont) /\ PlaceSound(d, rows, cont)
      BY DEF MoveSound, PlaceSound
<1>2. ListSound(d, rows, cont)
      BY DEF ListSound, Single, Alone
<1> QED BY <1>1, <1>2 DEF Sound

(* Taking up a row of the list.                                            *)
LEMMA TakenIsSound ==
    ASSUME NEW rows, NEW cont, NEW c, NEW d, NEW a \in c.todo, Sound(c, rows, cont),
           d.todo = c.todo \ {a}, d.row = a, d.at = "delete"
    PROVE  Sound(d, rows, cont)
<1>1. ListSound(d, rows, cont)
      BY DEF Sound, ListSound, Moving
<1>2. MoveSound(d, rows, cont)
      BY DEF Sound, ListSound, MoveSound
<1>3. PlaceSound(d, rows, cont)
      BY DEF PlaceSound
<1> QED BY <1>1, <1>2, <1>3 DEF Sound

(* The next step of a move, when its row is no longer worked on.           *)
LEMMA MovedIsSound ==
    ASSUME NEW rows, NEW cont, NEW c, NEW d, Sound(c, rows, cont), c.at \in Moving,
           c.row \in DOMAIN rows, rows[c.row].status \notin Working,
           d.todo = c.todo, d.row = c.row, d.at \in {"resync", "create"}
    PROVE  Sound(d, rows, cont)
<1>1. ListSound(d, rows, cont)
      BY DEF Sound, ListSound, Moving
<1>2. MoveSound(d, rows, cont)
      BY DEF Sound, MoveSound, Alone, Unbuilt, Moving
<1>3. PlaceSound(d, rows, cont)
      BY DEF PlaceSound
<1> QED BY <1>1, <1>2, <1>3 DEF Sound

(* A change of the table that gives no uncontended module a row to build,  *)
(* nor sets one back to assigned between the two queries of a placement.   *)
Calm(rows, cont, next, ncont, between) ==
    /\ cont \subseteq ncont /\ DOMAIN rows \subseteq DOMAIN next
    /\ \A b \in DOMAIN rows : next[b].module = rows[b].module
    /\ \A b \in DOMAIN next : next[b].module \notin ncont =>
          /\ next[b].status \in Working => b \in DOMAIN rows /\ rows[b].status \in Working
          /\ between /\ next[b].status = "assigned" =>
                b \in DOMAIN rows /\ rows[b].status = "assigned"

LEMMA CalmAlone ==
    ASSUME NEW rows, NEW cont, NEW next, NEW ncont, NEW between,
           Calm(rows, cont, next, ncont, between),
           NEW a \in DOMAIN rows, Alone(rows, a), rows[a].module \notin ncont
    PROVE  Alone(next, a)
BY DEF Calm, Alone

LEMMA CalmUnbuilt ==
    ASSUME NEW rows, NEW cont, NEW next, NEW ncont, NEW between,
           Calm(rows, cont, next, ncont, between), NEW m, Unbuilt(rows, m), m \notin ncont
    PROVE  Unbuilt(next, m)
BY DEF Calm, Unbuilt

LEMMA CalmSingle ==
    ASSUME NEW rows, NEW cont, NEW next, NEW ncont, NEW between,
           Calm(rows, cont, next, ncont, between), Single(rows, cont)
    PROVE  Single(next, ncont)
<1> SUFFICES ASSUME NEW a \in DOMAIN next, next[a].module \notin ncont,
                    next[a].status \in Working
             PROVE  Alone(next, a)
    BY DEF Single
<1>1. /\ a \in DOMAIN rows /\ rows[a].status \in Working
      /\ rows[a].module \notin cont /\ rows[a].module \notin ncont
      BY DEF Calm
<1>2. Alone(rows, a)
      BY <1>1 DEF Single
<1> QED BY <1>1, <1>2, CalmAlone

LEMMA CalmSound ==
    ASSUME NEW rows, NEW cont, NEW next, NEW ncont, NEW between, NEW c,
           Calm(rows, cont, next, ncont, between), Sound(c, rows, cont),
           c.todo \subseteq DOMAIN rows, c.at \in Moving => c.row \in DOMAIN rows,
           c.at = "list_in_progress" => between
    PROVE  Sound(c, next, ncont)
<1>c. /\ cont \subseteq ncont
      /\ \A b \in DOMAIN rows : next[b].module = rows[b].module
      BY DEF Calm
<1>1. ListSound(c, next, ncont)
  <2> SUFFICES ASSUME NEW a \in c.todo, next[a].module \notin ncont
               PROVE  /\ Alone(next, a)
                      /\ \A b \in c.todo : next[b].module = next[a].module => b = a
                      /\ c.at \in Moving => next[c.row].module # next[a].module
      BY DEF ListSound
  <2>1. a \in DOMAIN rows /\ rows[a].module \notin cont /\ rows[a].module \notin ncont
        BY <1>c
  <2>2. /\ Alone(rows, a)
        /\ \A b \in c.todo : rows[b].module = rows[a].module => b = a
        /\ c.at \in Moving => rows[c.row].module # rows[a].module
        BY <2>1 DEF Sound, ListSound
  <2>3. Alone(next, a)
        BY <2>1, <2>2, CalmAlone
  <2>4. \A b \in c.todo : next[b].module = next[a].module => b = a
        BY <1>c, <2>1, <2>2
  <2>5. c.at \in Moving => next[c.row].module # next[a].module
        BY <1>c, <2>1, <2>2
  <2> QED BY <2>3, <2>4, <2>5
<1>2. MoveSound(c, next, ncont)
  <2> SUFFICES ASSUME c.at \in Moving, next[c.row].module \notin ncont
               PROVE  /\ c.at = "delete" => Alone(next, c.row)
                      /\ c.at \in {"resync", "create"} => Unbuilt(next, next[c.row].module)
      BY DEF MoveSound
  <2>1. /\ c.row \in DOMAIN rows /\ next[c.row].module = rows[c.row].module
        /\ rows[c.row].module \notin cont
        BY <1>c
  <2>2. /\ c.at = "delete" => Alone(rows, c.row)
        /\ c.at \in {"resync", "create"} => Unbuilt(rows, rows[c.row].module)
        BY <2>1 DEF Sound, MoveSound
  <2> QED BY <2>1, <2>2, CalmAlone, CalmUnbuilt
<1>3. PlaceSound(c, next, ncont)
  <2> SUFFICES ASSUME NEW m \in c.mods, m \notin ncont
               PROVE  /\ c.at = "list_in_progress" =>
                           \A b \in DOMAIN next : next[b].module = m => next[b].status # "assigned"
                      /\ c.at = "assign" => Unbuilt(next, m)
      BY DEF PlaceSound
  <2>1. /\ m \notin cont
        /\ c.at = "list_in_progress" =>
             \A b \in DOMAIN rows : rows[b].module = m => rows[b].status # "assigned"
        /\ c.at = "assign" => Unbuilt(rows, m)
        BY <1>c DEF Sound, PlaceSound
  <2>2. c.at = "list_in_progress" =>
          \A b \in DOMAIN next : next[b].module = m => next[b].status # "assigned"
        BY <2>1 DEF Calm
  <2> QED BY <2>1, <2>2, CalmUnbuilt
<1> QED BY <1>1, <1>2, <1>3 DEF Sound
-----------------------------------------------------------------------------
(* Goto leaves the list, the modules and the operation as they are.        *)
LEMMA GotoKeeps ==
    ASSUME TypeOK, NEW th \in Threads, NEW at \in Steps, Goto(th, at)
    PROVE  /\ at = "idle" => call'[th] = Idle
           /\ at # "idle" => /\ call'[th].op = call[th].op /\ call'[th].todo = call[th].todo
                             /\ call'[th].mods = call[th].mods
<1>1. call[th] \in CallRecords(Len(row)) /\ call \in [Threads -> Calls(Len(row))]
      BY CallsAre DEF TypeOK
<1>2. CASE at = "idle"
      BY <1>1, <1>2 DEF Goto
<1>3. CASE at = "next"
  <2>1. call'[th] = [call[th] EXCEPT !.at = at, !.row = 0, !.target = NoWorker]
        BY <1>1, <1>3 DEF Goto
  <2> QED BY <1>1, <1>3, <2>1 DEF CallRecords
<1>4. CASE at \notin {"idle", "next"}
  <2>1. call'[th] = [call[th] EXCEPT !.at = at]
        BY <1>1, <1>4 DEF Goto
  <2> QED BY <1>1, <1>4, <2>1 DEF CallRecords
<1> QED BY <1>2, <1>3, <1>4

LEMMA IdleIsSound ==
    /\ Staged(Idle) /\ Idle.op = "idle" /\ Idle.at = "idle" /\ Idle.todo = {} /\ Idle.mods = {}
    /\ \A rows, cont : Sound(Idle, rows, cont)
<1>1. Idle.op = "idle" /\ Idle.at = "idle" /\ Idle.todo = {} /\ Idle.mods = {}
      BY DEF Idle
<1>2. Idle.at \notin Moving \cup {"list_in_progress", "assign"}
      BY <1>1 DEF Moving
<1> HIDE DEF Idle
<1> QED BY <1>1, <1>2, EmptyIsSound DEF Staged

(* A step of one call keeps the invariant when the table stays sound for   *)
(* the other calls, and its own call is staged and sound afterwards.       *)
LEMMA BuildFrom ==
    ASSUME TypeOK, BuildInv, NEW th \in Threads, Others(th),
           contended \subseteq contended', contended' \subseteq Modules,
           Single(row', contended'),
           \A t \in Threads \ {th} : Sound(call[t], row', contended'),
           Staged(call'[th]), Sound(call'[th], row', contended'),
           \/ call'[th].op \in {call[th].op, "idle", "update"}
           \/ Orchestrating = {} \/ contended' = Modules
    PROVE  BuildInv'
<1>1. \A t \in Threads : Staged(call'[t]) /\ Sound(call'[t], row', contended')
      BY DEF Others, BuildInv
<1>2. OneAtATime'
  <2> SUFFICES ASSUME NEW t \in Threads, NEW u \in Threads, t # u, contended' # Modules,
                      call'[t].op \in {"shutdown", "rebalance", "auto_assign"},
                      call'[u].op \in {"shutdown", "rebalance", "auto_assign"}
               PROVE  FALSE
      BY DEF OneAtATime, Orchestrating
  <2>1. contended # Modules
        OBVIOUS
  <2>2. \A v \in Threads \ {th} : call'[v] = call[v]
        BY DEF Others
  <2>3. Orchestrating # {}
        BY <2>2 DEF Orchestrating
  <2>4. t \in Orchestrating /\ u \in Orchestrating
        BY <2>2, <2>3 DEF Orchestrating
  <2> QED BY <2>1, <2>4 DEF BuildInv, OneAtATime
<1> QED BY <1>1, <1>2 DEF BuildInv

(* A calm step is sound for every call as it stands.                       *)
LEMMA CalmStep ==
    ASSUME TypeOK, BuildInv, NEW between, Calm(row, contended, row', contended', between),
           \A t \in Threads : call[t].at = "list_in_progress" => between
    PROVE  /\ Single(row', contended')
           /\ \A t \in Threads : Sound(call[t], row', contended')
<1>1. Single(row', contended')
      BY CalmSingle DEF BuildInv
<1>2. ASSUME NEW t \in Threads PROVE Sound(call[t], row', contended')
  <2>1. /\ call[t].todo \subseteq DOMAIN row
        /\ call[t].at \in Moving => call[t].row \in DOMAIN row
        BY CallFacts DEF Assignments, Moving, Handling
  <2>2. Sound(call[t], row, contended)
        BY DEF BuildInv
  <2> QED BY <2>1, <2>2, CalmSound
<1> QED BY <1>1, <1>2

LEMMA StillIsCalm ==
    ASSUME UNCHANGED row, contended \subseteq contended'
    PROVE  Calm(row, contended, row', contended', TRUE)
BY DEF Calm

(* A step of one call that leaves the table alone.                         *)
LEMMA OwnStep ==
    ASSUME TypeOK, BuildInv, NEW th \in Threads, Others(th), UNCHANGED row,
           contended \subseteq contended', contended' \subseteq Modules, Staged(call'[th]),
           Single(row', contended') /\ Sound(call[th], row', contended') =>
               Sound(call'[th], row', contended'),
           \/ call'[th].op \in {call[th].op, "idle", "update"}
           \/ Orchestrating = {} \/ contended' = Modules
    PROVE  BuildInv'
<1>1. /\ Single(row', contended')
      /\ \A t \in Threads : Sound(call[t], row', contended')
      BY StillIsCalm, CalmStep
<1> QED BY <1>1, BuildFrom

(* A change of status.                                                     *)
LEMMA StatusIsCalm ==
    ASSUME TypeOK, NEW a \in Assignments, NEW s \in RowStatuses, NEW between,
           row' = [row EXCEPT ![a].status = s], contended \subseteq contended',
           s \in Working => /\ row[a].status \in Working \/ row[a].module \in contended'
                            /\ between => row[a].module \in contended'
    PROVE  Calm(row, contended, row', contended', between)
<1>1. /\ Assignments' = Assignments
      /\ \A b \in Assignments : /\ row'[b].module = row[b].module
                                /\ row'[b].status = IF b = a THEN s ELSE row[b].status
      BY StatusFacts
<1>2. "assigned" \in Working
      BY DEF Working
<1> QED BY <1>1, <1>2 DEF Calm, Assignments

(* A new assignment.                                                       *)
LEMMA InsertIs ==
    ASSUME TypeOK, NEW w \in Workers, NEW m \in Modules, Insert(w, m)
    PROVE  \E n : /\ n \notin DOMAIN row /\ DOMAIN row' = DOMAIN row \cup {n}
                  /\ \A b \in DOMAIN row : row'[b] = row[b]
                  /\ row'[n].module = m /\ row'[n].status = "assigned"
<1>1. /\ Assignments' = Assignments \cup {Len(row) + 1}
      /\ \A b \in Assignments : row'[b] = row[b]
      /\ row'[Len(row) + 1] = [worker |-> w, module |-> m, status |-> "assigned"]
      BY InsertFacts
<1>2. Len(row) + 1 \notin Assignments
      BY RowFacts
<1> QED BY <1>1, <1>2 DEF Assignments

LEMMA InsertIsCalm ==
    ASSUME TypeOK, NEW w \in Workers, NEW m \in Modules, Insert(w, m),
           contended \subseteq contended', m \in contended'
    PROVE  Calm(row, contended, row', contended', TRUE)
<1>1. PICK n : /\ DOMAIN row' = DOMAIN row \cup {n}
               /\ \A b \in DOMAIN row : row'[b] = row[b]
               /\ row'[n].module = m
      BY InsertIs
<1> QED BY <1>1 DEF Calm

LEMMA InsertIsSingle ==
    ASSUME TypeOK, NEW w \in Workers, NEW m \in Modules, Insert(w, m), UNCHANGED contended,
           Single(row, contended), Unbuilt(row, m)
    PROVE  Single(row', contended')
<1>1. PICK n : /\ n \notin DOMAIN row /\ DOMAIN row' = DOMAIN row \cup {n}
               /\ \A b \in DOMAIN row : row'[b] = row[b]
               /\ row'[n].module = m /\ row'[n].status = "assigned"
      BY InsertIs
<1> SUFFICES ASSUME NEW a \in DOMAIN row', row'[a].module \notin contended,
                    row'[a].status \in Working, NEW b \in DOMAIN row',
                    row'[b].module = row'[a].module, row'[b].status \in Working
             PROVE  b = a
    BY DEF Single, Alone
<1>2. CASE a = n \/ b = n
      BY <1>1, <1>2 DEF Unbuilt
<1>3. CASE a # n /\ b # n
      BY <1>1, <1>3 DEF Single, Alone
<1> QED BY <1>2, <1>3

(* While one orchestration handles an uncontended module, the other calls  *)
(* list and place nothing.                                                 *)
LEMMA Bystanders ==
    ASSUME TypeOK, BuildInv, NEW S \in SUBSET Threads, Orchestrating \subseteq S,
           NEW rows, NEW cont
    PROVE  \A t \in Threads \ S : Sound(call[t], rows, cont)
<1> SUFFICES ASSUME NEW t \in Threads \ S PROVE Sound(call[t], rows, cont)
    OBVIOUS
<1>1. call[t].op \in {"idle", "update"}
      BY CallFacts DEF Orchestrating, Ops
<1>2. call[t].at \in {"idle", "sync"} /\ call[t].todo = {}
      BY <1>1 DEF BuildInv, Staged
<1> QED BY <1>2, EmptyIsSound DEF Moving
-----------------------------------------------------------------------------
(* The steps that read the table, sync a worker or end a call.             *)
LEMMA BuildReads ==
    ASSUME TypeOK, TypeOK', BuildInv, NEW th \in Threads,
           \/ SyncUpdated(th) \/ PickTarget(th) \/ FinishShutdown(th) \/ SyncDeleted(th)
           \/ ListOverflow(th) \/ PickUnderloaded(th) \/ FinishRebalance(th)
           \/ ListAssigned(th) \/ ListInProgress(th) \/ FinishAutoAssign(th) \/ StatementRefused(th)
    PROVE  BuildInv'
<1>0. /\ UNCHANGED <<row, contended>> /\ contended' \subseteq Modules
      BY DEF SyncUpdated, PickTarget, FinishShutdown, SyncDeleted, ListOverflow, PickUnderloaded,
             FinishRebalance, ListAssigned, ListInProgress, FinishAutoAssign, StatementRefused, TypeOK
<1>c. /\ call[th] \in CallRecords(Len(row)) /\ call \in [Threads -> Calls(Len(row))]
      /\ Staged(call[th]) /\ call[th].op \in Ops /\ call[th].at \in Steps
      BY CallsAre, CallFacts DEF TypeOK, BuildInv
<1>o. ASSUME Others(th), Staged(call'[th]), call'[th].op \in {call[th].op, "idle"},
             Single(row', contended') /\ Sound(call[th], row', contended') =>
                 Sound(call'[th], row', contended')
      PROVE  BuildInv'
      BY <1>0, <1>o, OwnStep
<1>i. ASSUME Goto(th, "idle") PROVE BuildInv'
  <2>1. Others(th) /\ call'[th] = Idle
        BY <1>i, GotoShape, GotoKeeps DEF Steps
  <2> QED BY <1>o, <2>1, IdleIsSound
<1>1. CASE SyncUpdated(th)
  <2>1. call[th].at = "sync"
        BY <1>1 DEF SyncUpdated
  <2>2. CASE call[th].op = "update"
        BY <1>1, <1>i, <2>2 DEF SyncUpdated
  <2>3. CASE call[th].op # "update"
    <3>1. Goto(th, "next")
          BY <1>1, <2>3 DEF SyncUpdated
    <3>2. /\ Others(th) /\ call'[th].at = "next" /\ call'[th].op = call[th].op
          /\ call'[th].todo = call[th].todo
          BY <3>1, GotoShape, GotoKeeps DEF Steps
    <3>3. Staged(call'[th])
          BY <1>c, <2>1, <2>3, <3>2 DEF Staged
    <3>4. Sound(call[th], row', contended') => Sound(call'[th], row', contended')
          BY <3>2, Onward DEF Moving
    <3> QED BY <1>o, <3>2, <3>3, <3>4
  <2> QED BY <2>2, <2>3
<1>2. CASE PickTarget(th) \/ PickUnderloaded(th)
  <2>1. /\ call[th].at = "next" /\ call[th].op \in {"shutdown", "rebalance"}
        BY <1>2 DEF PickTarget, PickUnderloaded
  <2>2. \E a \in call[th].todo :
          \/ \E v \in Workers : TakeUp(th, a, "delete", v)
          \/ TakeUp(th, a, "block", NoWorker)
          \/ call' = [call EXCEPT ![th].todo = @ \ {a}]
        BY <1>2, LoadTypes, CallFacts DEF PickTarget, PickUnderloaded, LeastLoaded
  <2>3. ASSUME NEW a \in call[th].todo, NEW v, NEW at \in {"block", "delete"}, TakeUp(th, a, at, v)
        PROVE  BuildInv'
    <3>1. /\ Others(th) /\ call'[th] = [call[th] EXCEPT !.at = at, !.row = a, !.target = v,
                                                        !.todo = call[th].todo \ {a}]
          BY <1>c, <2>3 DEF TakeUp, Others
    <3>2. /\ call'[th].at = at /\ call'[th].row = a /\ call'[th].op = call[th].op
          /\ call'[th].todo = call[th].todo \ {a}
          BY <1>c, <3>1 DEF CallRecords
    <3>3. Staged(call'[th])
          BY <2>1, <3>2 DEF Staged
    <3>4. Sound(call[th], row', contended') => Sound(call'[th], row', contended')
          BY <3>2, Onward, TakenIsSound DEF Moving
    <3> QED BY <1>o, <3>1, <3>2, <3>3, <3>4
  <2>4. ASSUME NEW a \in call[th].todo, call' = [call EXCEPT ![th].todo = @ \ {a}]
        PROVE  BuildInv'
    <3>1. /\ Others(th) /\ call'[th] = [call[th] EXCEPT !.todo = call[th].todo \ {a}]
          BY <1>c, <2>4 DEF Others
    <3>2. /\ call'[th].at = call[th].at /\ call'[th].op = call[th].op
          /\ call'[th].todo = call[th].todo \ {a}
          BY <1>c, <3>1 DEF CallRecords
    <3>3. Staged(call'[th])
          BY <2>1, <3>2 DEF Staged
    <3>4. Sound(call[th], row', contended') => Sound(call'[th], row', contended')
          BY <2>1, <3>2, Onward DEF Moving
    <3> QED BY <1>o, <3>1, <3>2, <3>3, <3>4
  <2> QED BY <2>2, <2>3, <2>4
<1>3. CASE SyncDeleted(th)
  <2>1. call[th].at = "resync" /\ Goto(th, "create")
        BY <1>3 DEF SyncDeleted
  <2>2. /\ Others(th) /\ call'[th].at = "create" /\ call'[th].row = call[th].row
        /\ call'[th].op = call[th].op /\ call'[th].todo = call[th].todo
        /\ call'[th].mods = call[th].mods
        BY <2>1, GotoShape, GotoKeeps DEF Steps
  <2>3. Staged(call'[th])
        BY <1>c, <2>1, <2>2 DEF Staged
  <2>4. Sound(call[th], row', contended') => Sound(call'[th], row', contended')
        BY <2>1, <2>2 DEF Sound, ListSound, MoveSound, PlaceSound, Moving
  <2> QED BY <1>o, <2>2, <2>3, <2>4
<1>4. CASE ListOverflow(th)
  <2>1. call[th].op = "rebalance"
        BY <1>4 DEF ListOverflow
  <2>2. PICK todo \in SUBSET UNION {{a \in Assignments : row[a].worker = w
                                                     /\ row[a].status = "assigned"} :
                        w \in {v \in DOMAIN call[th].seen : call[th].seen[v] > Capacity[v]}} :
          Goto(th, "idle") \/ call' = [call EXCEPT ![th].at = "next", ![th].todo = todo]
        BY <1>4 DEF ListOverflow
  <2>g. CASE Goto(th, "idle")
        BY <1>i, <2>g
  <2>n. CASE call' = [call EXCEPT ![th].at = "next", ![th].todo = todo]
    <3>3. \A a \in todo : a \in DOMAIN row /\ row[a].status \in Working
          BY <2>2 DEF Assignments, Working
    <3>4. Others(th) /\ call'[th] = [call[th] EXCEPT !.at = "next", !.todo = todo]
          BY <1>c, <2>n DEF Others
    <3>5. call'[th].at = "next" /\ call'[th].op = call[th].op /\ call'[th].todo = todo
          BY <1>c, <3>4 DEF CallRecords
    <3>6. Staged(call'[th])
          BY <2>1, <3>5 DEF Staged
    <3>7. Single(row', contended') => Sound(call'[th], row', contended')
          BY <1>0, <3>3, <3>5, ListedIsSound DEF Moving
    <3> QED BY <1>o, <3>4, <3>5, <3>6, <3>7
  <2> QED BY <2>2, <2>g, <2>n
<1>5. CASE ListAssigned(th)
  <2>1. /\ call[th].at = "list_assigned"
        /\ call' = [call EXCEPT ![th].at = "list_in_progress",
                                ![th].mods = @ \ ModulesIn("assigned")]
        BY <1>5 DEF ListAssigned
  <2>2. /\ Others(th)
        /\ call'[th] = [call[th] EXCEPT !.at = "list_in_progress",
                                        !.mods = call[th].mods \ ModulesIn("assigned")]
        BY <1>c, <2>1 DEF Others
  <2>3. /\ call'[th].at = "list_in_progress" /\ call'[th].op = call[th].op
        /\ call'[th].todo = call[th].todo
        /\ call'[th].mods = call[th].mods \ ModulesIn("assigned")
        BY <1>c, <2>2 DEF CallRecords
  <2>4. Staged(call'[th]) /\ call'[th].todo = {}
        BY <1>c, <2>1, <2>3 DEF Staged
  <2>5. \A b \in DOMAIN row : row[b].status = "assigned" => row[b].module \notin call'[th].mods
        BY <2>3 DEF ModulesIn, Assignments
  <2>6. Sound(call'[th], row', contended')
        BY <1>0, <2>3, <2>4, <2>5 DEF Sound, ListSound, MoveSound, PlaceSound, Moving
  <2> QED BY <1>o, <2>2, <2>3, <2>4, <2>6
<1>6. CASE ListInProgress(th)
  <2>g. CASE Goto(th, "idle")
        BY <1>i, <2>g
  <2>n. CASE ~Goto(th, "idle")
    <3>1. /\ call[th].at = "list_in_progress"
          /\ call' = [call EXCEPT ![th].at = "assign", ![th].mods = @ \ ModulesIn("in_progress")]
          BY <1>6, <2>n DEF ListInProgress
    <3>2. /\ Others(th)
          /\ call'[th] = [call[th] EXCEPT !.at = "assign",
                                          !.mods = call[th].mods \ ModulesIn("in_progress")]
          BY <1>c, <3>1 DEF Others
    <3>3. /\ call'[th].at = "assign" /\ call'[th].op = call[th].op
          /\ call'[th].todo = call[th].todo
          /\ call'[th].mods = call[th].mods \ ModulesIn("in_progress")
          BY <1>c, <3>2 DEF CallRecords
    <3>4. Staged(call'[th]) /\ call'[th].todo = {}
          BY <1>c, <3>1, <3>3 DEF Staged
    <3>5. \A b \in DOMAIN row : row[b].status = "in_progress" => row[b].module \notin call'[th].mods
          BY <3>3 DEF ModulesIn, Assignments
    <3>6. Sound(call[th], row', contended') => PlaceSound(call'[th], row', contended')
          BY <1>0, <3>1, <3>3, <3>5 DEF Sound, PlaceSound, Unbuilt, Working
    <3>7. Sound(call[th], row', contended') => Sound(call'[th], row', contended')
          BY <3>3, <3>4, <3>6 DEF Sound, ListSound, MoveSound, Moving
    <3> QED BY <1>o, <3>2, <3>3, <3>4, <3>7
  <2> QED BY <2>g, <2>n
<1>7. CASE FinishShutdown(th) \/ FinishRebalance(th) \/ FinishAutoAssign(th) \/ StatementRefused(th)
      BY <1>7, <1>i DEF FinishShutdown, FinishRebalance, FinishAutoAssign, StatementRefused
<1> QED BY <1>1, <1>2, <1>3, <1>4, <1>5, <1>6, <1>7

(* The steps that start an orchestration: beside another one, every module *)
(* becomes contended.                                                      *)
LEMMA BuildBegins ==
    ASSUME TypeOK, TypeOK', BuildInv, NEW th \in Threads,
           \/ \E w \in Workers : BeginShutdown(th, w)
           \/ BeginRebalance(th)
           \/ \E mods \in SUBSET Modules \ {{}} : BeginAutoAssign(th, mods)
    PROVE  BuildInv'
<1>1. /\ UNCHANGED row /\ contended' = contended \cup Overlap /\ contended' \subseteq Modules
      BY DEF BeginShutdown, BeginRebalance, BeginAutoAssign, TypeOK
<1>2. Orchestrating = {} \/ contended' = Modules
      BY <1>1 DEF Overlap, TypeOK
<1>3. \A c : call' = [call EXCEPT ![th] = c] => Others(th) /\ call'[th] = c
      BY DEF Others, TypeOK
<1>4. /\ Others(th)
      /\ call'[th].op \in {"shutdown", "rebalance", "auto_assign"}
      /\ call'[th].at \in {"next", "list", "list_assigned"}
      /\ call'[th].todo \in {{}} \cup {WorkingOn(row, w) : w \in Workers}
      /\ call'[th].at = "list_assigned" => call'[th].todo = {}
  <2>1. ASSUME NEW w \in Workers, BeginShutdown(th, w)
        PROVE  /\ Others(th) /\ call'[th].op = "shutdown" /\ call'[th].at = "next"
               /\ call'[th].todo = WorkingOn(row, w)
    <3> DEFINE c == [Idle EXCEPT !.op = "shutdown", !.at = "next", !.worker = w,
                                 !.todo = WorkingOn(row, w)]
    <3>1. call' = [call EXCEPT ![th] = c]
          BY <2>1 DEF BeginShutdown
    <3>2. c.op = "shutdown" /\ c.at = "next" /\ c.todo = WorkingOn(row, w)
          BY DEF Idle
    <3> HIDE DEF c
    <3> QED BY <1>3, <3>1, <3>2
  <2>2. ASSUME BeginRebalance(th)
        PROVE  /\ Others(th) /\ call'[th].op = "rebalance" /\ call'[th].at = "list"
               /\ call'[th].todo = {}
    <3> DEFINE c == [Idle EXCEPT !.op = "rebalance", !.at = "list", !.seen = ActiveLoads]
    <3>1. call' = [call EXCEPT ![th] = c]
          BY <2>2 DEF BeginRebalance
    <3>2. c.op = "rebalance" /\ c.at = "list" /\ c.todo = {}
          BY DEF Idle
    <3> HIDE DEF c
    <3> QED BY <1>3, <3>1, <3>2
  <2>3. ASSUME NEW mods \in SUBSET Modules, BeginAutoAssign(th, mods)
        PROVE  /\ Others(th) /\ call'[th].op = "auto_assign" /\ call'[th].at = "list_assigned"
               /\ call'[th].todo = {}
    <3> DEFINE c == [Idle EXCEPT !.op = "auto_assign", !.at = "list_assigned",
                                 !.mods = mods, !.seen = ActiveLoads]
    <3>1. call' = [call EXCEPT ![th] = c]
          BY <2>3 DEF BeginAutoAssign
    <3>2. c.op = "auto_assign" /\ c.at = "list_assigned" /\ c.todo = {}
          BY DEF Idle
    <3> HIDE DEF c
    <3> QED BY <1>3, <3>1, <3>2
  <2> QED BY <2>1, <2>2, <2>3
<1>5. \A a \in call'[th].todo : a \in DOMAIN row' /\ row'[a].status \in Working
      BY <1>1, <1>4 DEF WorkingOn
<1>6. Staged(call'[th])
      BY <1>4 DEF Staged
<1>7. Single(row', contended') => Sound(call'[th], row', contended')
      BY <1>4, <1>5, ListedIsSound DEF Moving
<1> QED BY <1>1, <1>2, <1>4, <1>6, <1>7, OwnStep

(* The steps that change a status.                                         *)
LEMMA BuildStatus ==
    ASSUME TypeOK, TypeOK', BuildInv, NEW th \in Threads,
           \/ \E a \in Assignments, s \in SetStatuses : UpdateAssignment(th, a, s)
           \/ BlockRow(th) \/ DeleteMoved(th)
    PROVE  BuildInv'
<1>c. /\ call[th] \in CallRecords(Len(row)) /\ call \in [Threads -> Calls(Len(row))]
      /\ Staged(call[th]) /\ contended' \subseteq Modules
      BY CallsAre DEF TypeOK, BuildInv
<1>1. ASSUME NEW a \in Assignments, NEW s \in SetStatuses, UpdateAssignment(th, a, s)
      PROVE  BuildInv'
  <2> DEFINE between == \E t \in Threads : call[t].at = "list_in_progress"
             c == [Idle EXCEPT !.op = "update", !.at = "sync", !.row = a]
  <2>1. /\ row' = [row EXCEPT ![a].status = s] /\ s \in RowStatuses
        /\ call' = [call EXCEPT ![th] = c] /\ contended \subseteq contended'
        /\ s \in Working => /\ row[a].status \in Working \/ row[a].module \in contended'
                            /\ between => row[a].module \in contended'
        BY <1>1, StatusAssumption DEF UpdateAssignment
  <2>2. c.op = "update" /\ c.at = "sync" /\ c.todo = {}
        BY DEF Idle
  <2>3. \A t \in Threads : call[t].at = "list_in_progress" => between
        OBVIOUS
  <2> HIDE DEF between, c
  <2>4. Calm(row, contended, row', contended', between)
        BY <2>1, StatusIsCalm
  <2>5. Single(row', contended') /\ \A t \in Threads : Sound(call[t], row', contended')
        BY <2>3, <2>4, CalmStep
  <2>6. Others(th) /\ call'[th] = c
        BY <1>c, <2>1 DEF Others
  <2>7. Staged(call'[th])
        BY <2>2, <2>6 DEF Staged
  <2>8. Sound(call'[th], row', contended')
        BY <2>2, <2>6, EmptyIsSound DEF Moving
  <2> QED BY <1>c, <2>1, <2>2, <2>5, <2>6, <2>7, <2>8, BuildFrom
<1>2. CASE BlockRow(th)
  <2>1. /\ call[th].row \in Assignments /\ contended' = contended /\ call[th].at = "block"
        /\ \/ row' = [row EXCEPT ![call[th].row].status = "blocked"] /\ Goto(th, "sync")
           \/ UNCHANGED row /\ Goto(th, "next")
        BY <1>2, CallFacts DEF BlockRow, Handling
  <2>2. Calm(row, contended, row', contended', TRUE)
        BY <2>1, StillIsCalm, StatusIsCalm DEF RowStatuses, Working
  <2>3. Single(row', contended') /\ \A t \in Threads : Sound(call[t], row', contended')
        BY <2>2, CalmStep
  <2>4. /\ Others(th) /\ call'[th].at \in {"sync", "next"} /\ call'[th].op = call[th].op
        /\ call'[th].todo = call[th].todo
        BY <2>1, GotoShape, GotoKeeps DEF Steps
  <2>5. Staged(call'[th])
        BY <1>c, <2>1, <2>4 DEF Staged
  <2>6. Sound(call'[th], row', contended')
        BY <2>3, <2>4, Onward DEF Moving
  <2> QED BY <1>c, <2>1, <2>3, <2>4, <2>5, <2>6, BuildFrom
<1>3. CASE DeleteMoved(th)
  <2>1. /\ call[th].row \in Assignments /\ contended' = contended /\ call[th].at = "delete"
        /\ \/ row' = [row EXCEPT ![call[th].row].status = "deleted"] /\ Goto(th, "resync")
           \/ UNCHANGED row /\ Goto(th, "create") /\ row[call[th].row].status = "deleted"
        BY <1>3, CallFacts DEF DeleteMoved, Handling, Exists
  <2>2. Calm(row, contended, row', contended', TRUE)
        BY <2>1, StillIsCalm, StatusIsCalm DEF RowStatuses, Working
  <2>3. Single(row', contended') /\ \A t \in Threads : Sound(call[t], row', contended')
        BY <2>2, CalmStep
  <2>4. /\ Others(th) /\ call'[th].at \in {"resync", "create"} /\ call'[th].op = call[th].op
        /\ call'[th].row = call[th].row /\ call'[th].todo = call[th].todo
        BY <2>1, GotoShape, GotoKeeps DEF Steps
  <2>5. call[th].row \in DOMAIN row' /\ row'[call[th].row].status \notin Working
    <3>1. "deleted" \in RowStatuses /\ "deleted" \notin Working
          BY DEF RowStatuses, Working
    <3>2. CASE row' = [row EXCEPT ![call[th].row].status = "deleted"]
      <4> DEFINE a == call[th].row
      <4>1. a \in Assignments /\ row' = [row EXCEPT ![a].status = "deleted"]
            BY <2>1, <3>2
      <4> HIDE DEF a
      <4>2. /\ Assignments' = Assignments
            /\ \A b \in Assignments : row'[b].status = IF b = a THEN "deleted" ELSE row[b].status
            BY <3>1, <4>1, StatusFacts
      <4>3. a \in DOMAIN row' /\ row'[a].status = "deleted"
            BY <4>1, <4>2 DEF Assignments
      <4> QED BY <3>1, <4>3 DEF a
    <3>3. CASE UNCHANGED row /\ row[call[th].row].status = "deleted"
          BY <2>1, <3>1, <3>3 DEF Assignments
    <3> QED BY <2>1, <3>2, <3>3
  <2>6. Staged(call'[th])
        BY <1>c, <2>1, <2>4 DEF Staged
  <2>7. Sound(call'[th], row', contended')
        BY <2>1, <2>3, <2>4, <2>5, MovedIsSound DEF Moving
  <2> QED BY <1>c, <2>1, <2>3, <2>4, <2>6, <2>7, BuildFrom
<1> QED BY <1>1, <1>2, <1>3

(* The steps of an orchestration that create an assignment.                *)
LEMMA BuildPlaces ==
    ASSUME TypeOK, TypeOK', BuildInv, NEW th \in Threads,
           CreateMoved(th) \/ \E m \in Modules, w \in Workers : AssignNext(th, m, w)
    PROVE  BuildInv'
<1>c. /\ call[th] \in CallRecords(Len(row)) /\ call \in [Threads -> Calls(Len(row))]
      /\ Staged(call[th]) /\ Sound(call[th], row, contended) /\ call[th].todo \subseteq DOMAIN row
      BY CallsAre, CallFacts DEF TypeOK, BuildInv, Assignments
<1>o. /\ contended' = contended /\ contended' \subseteq Modules
      /\ call[th].at \in {"create", "assign"} /\ th \in Orchestrating
  <2>1. contended' = contended /\ call[th].at \in {"create", "assign"}
        BY DEF CreateMoved, AssignNext
  <2>2. call[th].op \notin {"idle", "update"}
        BY <1>c, <2>1 DEF Staged
  <2> QED BY <2>1, <2>2, CallFacts DEF Orchestrating, Ops, TypeOK
\* Whoever creates it, the new row is sound for the calls of the others.
<1>n. ASSUME NEW w \in Workers, NEW m \in Modules, Insert(w, m),
             m \notin contended => Unbuilt(row, m)
      PROVE  /\ Single(row', contended')
             /\ \A t \in Threads \ {th} : Sound(call[t], row', contended')
  <2>1. CASE m \in contended
    <3>1. Calm(row, contended, row', contended', TRUE)
          BY <1>n, <1>o, <2>1, InsertIsCalm
    <3> QED BY <3>1, CalmStep
  <2>2. CASE m \notin contended
    <3>1. Orchestrating \subseteq {th}
          BY <1>o, <2>2 DEF BuildInv, OneAtATime
    <3>2. \A t \in Threads \ {th} : Sound(call[t], row', contended')
          BY <3>1, Bystanders
    <3>3. Single(row', contended')
          BY <1>n, <1>o, <2>2, InsertIsSingle DEF BuildInv
    <3> QED BY <3>2, <3>3
  <2> QED BY <2>1, <2>2
<1>1. CASE CreateMoved(th)
  <2> DEFINE m == row[call[th].row].module
             w == call[th].target
  <2>1. /\ call[th].at = "create" /\ Insert(w, m) /\ (Goto(th, "next") \/ Goto(th, "idle"))
        /\ w \in Workers /\ m \in Modules
        BY <1>1, CallFacts, RowFacts DEF CreateMoved, Handling
  <2>2. m \notin contended => Unbuilt(row, m)
        BY <1>c, <2>1 DEF Sound, MoveSound, Moving
  <2>3. \A a \in call[th].todo : row[a].module \notin contended =>
          /\ Alone(row, a) /\ m # row[a].module
          /\ \A b \in call[th].todo : row[b].module = row[a].module => b = a
        BY <1>c, <2>1 DEF Sound, ListSound, Moving
  <2> HIDE DEF m, w
  <2>4. /\ Single(row', contended')
        /\ \A t \in Threads \ {th} : Sound(call[t], row', contended')
        BY <1>n, <2>1, <2>2
  <2>i. CASE Goto(th, "idle")
    <3>1. Others(th) /\ call'[th] = Idle
          BY <2>i, GotoShape, GotoKeeps DEF Steps
    <3> QED BY <1>o, <2>4, <3>1, IdleIsSound, BuildFrom
  <2>n. SUFFICES ASSUME Goto(th, "next") PROVE BuildInv'
        BY <2>1, <2>i
  <2>5. /\ Others(th) /\ call'[th].at = "next" /\ call'[th].op = call[th].op
        /\ call'[th].todo = call[th].todo
        BY <2>n, GotoShape, GotoKeeps DEF Steps
  <2>6. Staged(call'[th])
        BY <1>c, <2>1, <2>5 DEF Staged
  <2>7. Sound(call'[th], row', contended')
    <3>1. PICK n : /\ DOMAIN row' = DOMAIN row \cup {n}
                   /\ \A b \in DOMAIN row : row'[b] = row[b]
                   /\ row'[n].module = m
          BY <2>1, InsertIs
    <3>2. ASSUME NEW a \in call[th].todo, row'[a].module \notin contended
          PROVE  /\ Alone(row', a)
                 /\ \A b \in call[th].todo : row'[b].module = row'[a].module => b = a
      <4>1. a \in DOMAIN row /\ row'[a] = row[a]
            BY <1>c, <3>1
      <4>2. /\ Alone(row, a) /\ m # row[a].module
            /\ \A b \in call[th].todo : row[b].module = row[a].module => b = a
            BY <2>3, <3>2, <4>1
      <4>3. Alone(row', a)
            BY <3>1, <4>1, <4>2 DEF Alone
      <4> QED BY <1>c, <3>1, <4>1, <4>2, <4>3
    <3>3. ListSound(call'[th], row', contended')
          BY <1>o, <2>5, <3>2 DEF ListSound, Moving
    <3> QED BY <2>5, <3>3 DEF Sound, MoveSound, PlaceSound, Moving
  <2> QED BY <1>o, <2>4, <2>5, <2>6, <2>7, BuildFrom
<1>2. ASSUME NEW m \in Modules, NEW w \in Workers, AssignNext(th, m, w)
      PROVE  BuildInv'
  <2>1. /\ call[th].at = "assign" /\ Insert(w, m) /\ m \in call[th].mods
        /\ \/ \E load : call' = [call EXCEPT ![th].mods = @ \ {m}, ![th].seen[w] = load]
           \/ call' = [call EXCEPT ![th].mods = @ \ {m}]
        BY <1>2 DEF AssignNext
  <2>2. \A k \in call[th].mods \ contended : Unbuilt(row, k)
        BY <1>c, <2>1 DEF Sound, PlaceSound
  <2>3. /\ Single(row', contended')
        /\ \A t \in Threads \ {th} : Sound(call[t], row', contended')
        BY <1>n, <2>1, <2>2
  <2>4. /\ Others(th) /\ call'[th].at = "assign" /\ call'[th].op = call[th].op
        /\ call'[th].todo = call[th].todo /\ call'[th].mods = call[th].mods \ {m}
        BY <1>c, <2>1 DEF Others, CallRecords
  <2>5. Staged(call'[th]) /\ call'[th].todo = {}
        BY <1>c, <2>1, <2>4 DEF Staged
  <2>6. Sound(call'[th], row', contended')
    <3>1. PICK n : /\ DOMAIN row' = DOMAIN row \cup {n}
                   /\ \A b \in DOMAIN row : row'[b] = row[b]
                   /\ row'[n].module = m
          BY <2>1, InsertIs
    <3>2. \A k \in call'[th].mods \ contended : Unbuilt(row', k)
          BY <2>2, <2>4, <3>1 DEF Unbuilt
    <3> QED BY <1>o, <2>4, <2>5, <3>2 DEF Sound, ListSound, MoveSound, PlaceSound, Moving
  <2> QED BY <1>o, <2>3, <2>4, <2>5, <2>6, BuildFrom
<1> QED BY <1>1, <1>2

LEMMA BuildStep == TypeOK /\ TypeOK' /\ BuildInv /\ [Next]_vars => BuildInv'
<1> SUFFICES ASSUME TypeOK, TypeOK', BuildInv, [Next]_vars PROVE BuildInv'
    OBVIOUS
<1>k. ASSUME UNCHANGED call, contended \subseteq contended',
             Single(row', contended'), \A t \in Threads : Sound(call[t], row', contended')
      PROVE  BuildInv'
  <2>1. Orchestrating' = Orchestrating
        BY <1>k DEF Orchestrating
  <2>2. contended = Modules => contended' = Modules
        BY <1>k DEF TypeOK
  <2>3. OneAtATime'
        BY <2>1, <2>2 DEF BuildInv, OneAtATime
  <2> QED BY <1>k, <2>3 DEF BuildInv
<1>1. ASSUME \/ UNCHANGED vars
             \/ \E w \in Workers : \/ RegisterWorker(w) \/ UnregisterWorker(w)
                                   \/ \E s \in SetStates : PatchWorker(w, s)
      PROVE  BuildInv'
  <2>1. UNCHANGED <<row, call, contended>>
        BY <1>1 DEF vars, RegisterWorker, UnregisterWorker, PatchWorker
  <2> QED BY <1>k, <2>1 DEF BuildInv
<1>2. ASSUME NEW w \in Workers, NEW m \in Modules, CreateAssignment(w, m)
      PROVE  BuildInv'
  <2>1. /\ Insert(w, m) /\ UNCHANGED call /\ contended \subseteq contended'
        /\ \/ m \in contended'
           \/ /\ UNCHANGED contended /\ Orchestrating = {}
              /\ \A s \in Working : m \notin ModulesIn(s)
        BY <1>2 DEF CreateAssignment
  <2>2. CASE m \in contended'
    <3>1. Calm(row, contended, row', contended', TRUE)
          BY <2>1, <2>2, InsertIsCalm
    <3> QED BY <1>k, <2>1, <3>1, CalmStep
  <2>3. CASE /\ UNCHANGED contended /\ Orchestrating = {}
             /\ \A s \in Working : m \notin ModulesIn(s)
    <3>1. Unbuilt(row, m)
          BY <2>3 DEF Unbuilt, ModulesIn, Assignments
    <3>2. Single(row', contended')
          BY <2>1, <2>3, <3>1, InsertIsSingle DEF BuildInv
    <3>3. \A t \in Threads : Sound(call[t], row', contended')
          BY <2>3, Bystanders
    <3> QED BY <1>k, <2>1, <3>2, <3>3
  <2> QED BY <2>1, <2>2, <2>3
<1>3. ASSUME Restart
      PROVE  BuildInv'
  <2>1. /\ call' = [t \in Threads |-> Idle] /\ contended \subseteq contended'
        /\ \/ UNCHANGED row
           \/ \E w \in Workers, m \in Modules :
                 /\ Insert(w, m)
                 /\ \/ m \in contended'
                    \/ /\ UNCHANGED contended
                       /\ \A s \in Working : m \notin ModulesIn(s)
        BY <1>3 DEF Restart, Crash, CrashInCreate
  <2>3. Single(row', contended')
    <3>1. CASE UNCHANGED row
          BY <2>1, <3>1, StillIsCalm, CalmStep
    <3>2. ASSUME NEW w \in Workers, NEW m \in Modules, Insert(w, m), m \in contended'
          PROVE  Single(row', contended')
          BY <2>1, <3>2, InsertIsCalm, CalmStep
    <3>3. ASSUME NEW w \in Workers, NEW m \in Modules, Insert(w, m), UNCHANGED contended,
                 \A s \in Working : m \notin ModulesIn(s)
          PROVE  Single(row', contended')
      <4>1. Unbuilt(row, m)
            BY <3>3 DEF Unbuilt, ModulesIn, Assignments
      <4> QED BY <3>3, <4>1, InsertIsSingle DEF BuildInv
    <3> QED BY <2>1, <3>1, <3>2, <3>3
  <2>4. \A t \in Threads : call'[t] = Idle
        BY <2>1
  <2>5. OneAtATime'
        BY <2>4, IdleIsSound DEF OneAtATime, Orchestrating
  <2> QED BY <2>3, <2>4, <2>5, IdleIsSound DEF BuildInv
<1>4. ASSUME NEW th \in Threads, Begin(th) \/ Continue(th)
      PROVE  BuildInv'
      BY <1>4, BuildReads, BuildBegins, BuildStatus, BuildPlaces DEF Begin, Continue
<1> QED BY <1>1, <1>2, <1>3, <1>4 DEF Next, Operator

(* While one orchestration handles a module at a time, no interleaving of  *)
(* shutdowns, rebalances, placements, updates and restarts ever leaves two *)
(* assignments of it for workers to build.                                 *)
THEOREM OneBuilderEach == Spec => []OneBuilder
<1>1. Init => BuildInv
  <2> SUFFICES ASSUME Init PROVE BuildInv
      OBVIOUS
  <2>1. DOMAIN row = {} /\ \A th \in Threads : call[th] = Idle
        BY DEF Init
  <2>2. Single(row, contended)
        BY <2>1 DEF Single
  <2>3. OneAtATime
        BY <2>1, IdleIsSound DEF OneAtATime, Orchestrating
  <2> QED BY <2>1, <2>2, <2>3, IdleIsSound DEF BuildInv
<1>2. BuildInv => OneBuilder
      BY SingleIsOneBuilder DEF BuildInv
<1> QED BY <1>1, <1>2, BuildStep, TypeCorrect, PTL DEF Spec
=============================================================================
