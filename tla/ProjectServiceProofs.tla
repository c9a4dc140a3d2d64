------------------------ MODULE ProjectServiceProofs ------------------------
(***************************************************************************)
(* projects.json follows the list: for any number of calls in flight, cut  *)
(* at their awaits and saved in any order, the settled file is the list    *)
(* unless saves overlapped or failed; no project is listed twice; and a    *)
(* launcher stopped in a lone save loses every project between the cut of  *)
(* the file and the write, and before the cut that change only.            *)
(***************************************************************************)
EXTENDS ProjectService, SequenceFilterTheorems, TLAPS

\* The fields of a task; what the lists and rows in it are does not matter here.
IsTask(r) ==
    r \in [pc : Steps, then : {"idle", "start"}, slot : {r.slot}, path : {r.path},
          shown : {r.shown}, data : {r.data}]

Shape ==
    /\ tasks = [t \in Tasks |-> tasks[t]]
    /\ \A t \in Tasks : IsTask(tasks[t])
    /\ muddled \in {"no", "mending", "yes"}

LoneSaver == muddled # "yes" => \A t, u \in Savers : t = u

\* Nothing changes the list between the encoding of a lone save and its end.
Encoded ==
    muddled # "yes" =>
      \A t \in Tasks : tasks[t].pc \in {"truncate", "write"} => tasks[t].data = projects

Emptied == muddled # "yes" => \A t \in Tasks : tasks[t].pc = "write" => file = NoFile

IInv == Shape /\ LoneSaver /\ Encoded /\ Emptied /\ SettledFile

\* The lists, wherever they are kept: in memory, in the file, in a task.
ListOK(l) == l \in Lists /\ Distinct(l.all)

\* A task, with what it may be about; a row's State that it still reads shows
\* what the row shows.
TaskOK(r) ==
    /\ r \in TaskRec
    /\ ListOK(r.data)
    /\ r.pc = "mkdir" => r.path \in Paths /\ r.shown = r.path
    /\ r.pc \in {"mkdir", "rmdir"} => r.slot = 0

Attached(r, rws) == r.slot # 0 => r.slot \in 1 .. Len(rws) /\ rws[r.slot] = r.shown

TInv ==
    /\ ListOK(projects)
    /\ ListOK(file.list) /\ file \in [list : Lists, size : Nat]
    /\ rows \in Seq(Paths \cup {NoRow})
    /\ tasks \in [Tasks -> TaskRec]
    /\ \A t \in Tasks : TaskOK(tasks[t]) /\ Attached(tasks[t], rows)
    /\ muddled \in {"no", "mending", "yes"}

\* The paths by which the file's list and the list in memory differ.
Difference ==
    {p \in Paths : ~(Has(projects.all, p) <=> Has(file.list.all, p))}

\* The path a save changes the list by; one begun by a launch, whose State may
\* come to show another project, changes it by none.
About(task) == IF task.slot = 0 THEN {task.shown} ELSE {}

\* The file is behind by what a lone save that has not opened it is about.
OneChange ==
    muddled = "no" => \A t \in Savers : tasks[t].pc # "write" =>
      Difference \subseteq About(tasks[t])

-----------------------------------------------------------------------------
\* Calls are made as tasks.
LEMMA CallIsTask ==
    ASSUME NEW pc \in Steps, NEW p PROVE IsTask(Call(pc, p)) /\ Call(pc, p).pc = pc
BY DEF Call, Idle, IsTask

LEMMA IdleIsTask == IsTask(Idle) /\ Idle.pc = "idle"
BY DEF Idle, IsTask, Steps

LEMMA InitIInv == Init => IInv
BY IdleIsTask DEF Init, IInv, Shape, LoneSaver, Encoded, Emptied, SettledFile, Savers,
   Saving, NoFile

\* A call that changes the list starts to save it at once: alone, it makes the
\* only saver, and with another saver under way the file is given up.
LEMMA StartSaveKeeps ==
    ASSUME IInv, NEW t \in Tasks, tasks[t].pc \notin Saving,
           NEW task, IsTask(task), StartSave(t, task), UNCHANGED file
    PROVE  IInv'
<1> DEFINE r == [task EXCEPT !.pc = "locate"]
<1>1. IsTask(r) /\ r.pc = "locate"
  BY DEF IsTask, Steps, Saving
<1> HIDE DEF r
<1>2. /\ tasks' = [u \in Tasks |-> IF u = t THEN r ELSE tasks[u]]
      /\ muddled' = IF \E u \in Tasks \ {t} : tasks[u].pc \in Saving THEN "yes"
                    ELSE IF muddled = "no" THEN "no" ELSE "mending"
  BY DEF StartSave, IInv, Shape, r
<1>3. tasks'[t] = r /\ \A u \in Tasks \ {t} : tasks'[u] = tasks[u]
  BY <1>2
<1>4. Shape'
  BY <1>1, <1>2, <1>3 DEF IInv, Shape
<1>5. t \in Savers'
  BY <1>1, <1>3 DEF Savers, Saving
<1>6. ASSUME muddled' # "yes"
      PROVE  \A u \in Tasks \ {t} : tasks'[u].pc \notin Saving
  BY <1>2, <1>3, <1>6
<1>7. LoneSaver'
  BY <1>6 DEF LoneSaver, Savers
<1>8. Encoded' /\ Emptied'
  BY <1>1, <1>3, <1>6 DEF Encoded, Emptied, Saving
<1>9. SettledFile'
  BY <1>5 DEF SettledFile
<1> QED BY <1>4, <1>7, <1>8, <1>9 DEF IInv

\* A step of one task outside of _save that leaves the list alone.
LEMMA OtherStepKeeps ==
    ASSUME IInv, NEW t \in Tasks, tasks[t].pc \notin Saving,
           NEW task, IsTask(task), task.pc \notin Saving,
           tasks' = [tasks EXCEPT ![t] = task], UNCHANGED <<projects, file, muddled>>
    PROVE  IInv'
<1>1. tasks' = [u \in Tasks |-> IF u = t THEN task ELSE tasks[u]]
  BY DEF IInv, Shape
<1>2. tasks'[t] = task /\ \A u \in Tasks \ {t} : tasks'[u] = tasks[u]
  BY <1>1
<1>3. Shape'
  BY <1>1, <1>2 DEF IInv, Shape
<1>4. Savers' = Savers
  BY <1>2 DEF Savers
<1>5. LoneSaver' /\ SettledFile'
  BY <1>4 DEF IInv, LoneSaver, SettledFile
<1>6. Encoded' /\ Emptied'
  BY <1>2 DEF IInv, Encoded, Emptied, Saving
<1> QED BY <1>3, <1>5, <1>6 DEF IInv

-----------------------------------------------------------------------------
\* Every call, every step of a save, a rebuild and a restart keep it.
LEMMA NextIInv == IInv /\ [Next]_vars => IInv'
<1> SUFFICES ASSUME IInv, [Next]_vars PROVE IInv'
  OBVIOUS
<1>t. ASSUME NEW t \in Tasks
      PROVE  IsTask(tasks[t])
  BY DEF IInv, Shape
<1>e. ASSUME NEW t \in Tasks, NEW r, IsTask(r), tasks' = [tasks EXCEPT ![t] = r]
      PROVE  /\ tasks' = [u \in Tasks |-> tasks'[u]]
             /\ \A u \in Tasks : IsTask(tasks'[u])
             /\ tasks'[t] = r /\ \A u \in Tasks \ {t} : tasks'[u] = tasks[u]
  <2>1. tasks' = [u \in Tasks |-> IF u = t THEN r ELSE tasks[u]]
    BY <1>e DEF IInv, Shape
  <2>2. tasks'[t] = r /\ \A u \in Tasks \ {t} : tasks'[u] = tasks[u]
    BY <2>1
  <2> QED BY <1>e, <1>t, <2>1, <2>2
<1>1. ASSUME NEW t \in Tasks, NEW p \in Paths, add(t, p) PROVE IInv'
  <2>1. IsTask(Call("locate", p))
    BY CallIsTask DEF Steps, Saving
  <2> QED BY <1>1, <2>1, StartSaveKeeps DEF add, Free, Saving
<1>2. ASSUME NEW t \in Tasks, NEW p \in Paths, create(t, p) PROVE IInv'
  <2>1. IsTask(Call("mkdir", p)) /\ Call("mkdir", p).pc = "mkdir"
    BY CallIsTask DEF Steps
  <2> QED BY <1>2, <2>1, OtherStepKeeps DEF create, Free, Saving
<1>3. ASSUME NEW t \in Tasks, createEntry(t) PROVE IInv'
  BY <1>3, <1>t, IdleIsTask, StartSaveKeeps, OtherStepKeeps DEF createEntry, Saving
<1>4. ASSUME NEW t \in Tasks, NEW i \in 1 .. Len(rows), launch(t, i) PROVE IInv'
  <2> DEFINE row == [Call("start", rows[i]) EXCEPT !.slot = i, !.then = "start"]
  <2>1. IsTask(row) /\ row.pc = "start"
    BY <1>t DEF IsTask, Steps, Saving, Modal, Call, Idle
  <2>2. tasks[t].pc \notin Saving /\ UNCHANGED file
    BY <1>4 DEF launch, Free, Saving
  <2>3. StartSave(t, row) \/ (tasks' = [tasks EXCEPT ![t] = row] /\ UNCHANGED <<projects, muddled>>)
    BY <1>4 DEF launch
  <2> HIDE DEF row
  <2> QED BY <2>1, <2>2, <2>3, StartSaveKeeps, OtherStepKeeps DEF Saving
<1>5. ASSUME NEW t \in Tasks, NEW i \in 1 .. Len(rows), showContextMenu(t, i) PROVE IInv'
  <2> DEFINE r == [Call("menu", rows[i]) EXCEPT !.slot = i]
  <2>1. IsTask(r) /\ r.pc = "menu"
    BY <1>t DEF IsTask, Steps, Saving, Modal, Call, Idle
  <2>2. tasks' = [tasks EXCEPT ![t] = r]
    BY <1>5 DEF showContextMenu
  <2> HIDE DEF r
  <2> QED BY <1>5, <2>1, <2>2, OtherStepKeeps DEF showContextMenu, Free, Saving
<1>6. ASSUME NEW t \in Tasks, startEditor(t) \/ dismiss(t) PROVE IInv'
  BY <1>6, IdleIsTask, OtherStepKeeps DEF startEditor, dismiss, Modal, Saving
<1>7. ASSUME NEW t \in Tasks, remove(t) PROVE IInv'
  <2> DEFINE r == [tasks[t] EXCEPT !.slot = 0]
  <2>1. IsTask(r)
    BY <1>t DEF IsTask, Steps, Saving, Modal
  <2>2. StartSave(t, r)
    BY <1>7 DEF remove
  <2> HIDE DEF r
  <2> QED BY <1>7, <2>1, <2>2, StartSaveKeeps DEF remove, Saving
<1>8. ASSUME NEW t \in Tasks, confirmDelete(t) PROVE IInv'
  <2> DEFINE r == [tasks[t] EXCEPT !.pc = "confirm", !.path = tasks[t].shown]
  <2>1. IsTask(r) /\ r.pc = "confirm"
    BY <1>t DEF IsTask, Steps, Saving, Modal
  <2>2. tasks' = [tasks EXCEPT ![t] = Idle] \/ tasks' = [tasks EXCEPT ![t] = r]
    BY <1>8 DEF confirmDelete
  <2> HIDE DEF r
  <2> QED BY <1>8, <2>1, <2>2, IdleIsTask, OtherStepKeeps DEF confirmDelete, Saving
<1>9. ASSUME NEW t \in Tasks, delete(t) PROVE IInv'
  <2> DEFINE r == [tasks[t] EXCEPT !.pc = "rmdir", !.slot = 0]
  <2>1. IsTask(r) /\ r.pc = "rmdir"
    BY <1>t DEF IsTask, Steps, Saving, Modal
  <2>2. tasks' = [tasks EXCEPT ![t] = r]
    BY <1>9 DEF delete, IInv, Shape
  <2> HIDE DEF r
  <2> QED BY <1>9, <2>1, <2>2, OtherStepKeeps DEF delete, Saving
<1>10. ASSUME NEW t \in Tasks, deleteEntry(t) PROVE IInv'
  BY <1>10, <1>t, StartSaveKeeps DEF deleteEntry, Saving
<1>11. ASSUME NEW t \in Tasks, saveEncode(t) PROVE IInv'
  <2> DEFINE r == [tasks[t] EXCEPT !.pc = "truncate", !.data = projects]
  <2>1. IsTask(r) /\ r.pc = "truncate" /\ r.data = projects
    BY <1>t DEF IsTask, Steps, Saving, Modal
  <2>2. tasks' = [tasks EXCEPT ![t] = r]
    BY <1>11 DEF saveEncode, IInv, Shape
  <2> HIDE DEF r
  <2>3. /\ tasks' = [u \in Tasks |-> tasks'[u]] /\ \A u \in Tasks : IsTask(tasks'[u])
        /\ tasks'[t] = r /\ \A u \in Tasks \ {t} : tasks'[u] = tasks[u]
    BY <1>e, <2>1, <2>2
  <2>4. Savers' = Savers
    BY <1>11, <2>1, <2>3 DEF saveEncode, Savers, Saving
  <2> QED BY <1>11, <2>1, <2>3, <2>4 DEF saveEncode, IInv, Shape, LoneSaver, Encoded, Emptied,
             SettledFile
<1>12. ASSUME NEW t \in Tasks, saveTruncate(t) PROVE IInv'
  <2> DEFINE r == [tasks[t] EXCEPT !.pc = "write"]
  <2>1. IsTask(r) /\ r.pc = "write" /\ r.data = tasks[t].data
    BY <1>t DEF IsTask, Steps, Saving, Modal
  <2>2. tasks' = [tasks EXCEPT ![t] = r]
    BY <1>12 DEF saveTruncate, IInv, Shape
  <2> HIDE DEF r
  <2>3. /\ tasks' = [u \in Tasks |-> tasks'[u]] /\ \A u \in Tasks : IsTask(tasks'[u])
        /\ tasks'[t] = r /\ \A u \in Tasks \ {t} : tasks'[u] = tasks[u]
    BY <1>e, <2>1, <2>2
  <2>4. Savers' = Savers /\ t \in Savers
    BY <1>12, <2>1, <2>3 DEF saveTruncate, Savers, Saving
  <2>5. Shape' /\ LoneSaver'
    BY <1>12, <2>3, <2>4 DEF saveTruncate, IInv, Shape, LoneSaver
  <2>6. Encoded'
    BY <1>12, <2>1, <2>3 DEF saveTruncate, IInv, Encoded
  <2>7. Emptied' /\ SettledFile'
    BY <1>12, <2>4 DEF saveTruncate, Emptied, SettledFile
  <2> QED BY <2>5, <2>6, <2>7 DEF IInv
<1>13. ASSUME NEW t \in Tasks, saveWrite(t) PROVE IInv'
  <2> DEFINE s == [tasks[t] EXCEPT !.pc = "start", !.data = NoProjects]
             r == IF tasks[t].then = "idle" THEN Idle ELSE s
  <2>1. IsTask(r) /\ r.pc \in {"idle", "start"}
    <3>1. IsTask(s) /\ s.pc = "start"
      BY <1>t DEF IsTask, Steps
    <3> HIDE DEF s
    <3> QED BY <3>1, IdleIsTask
  <2>2. tasks' = [tasks EXCEPT ![t] = r]
    BY <1>13 DEF saveWrite, IInv, Shape
  <2> HIDE DEF r
  <2>3. /\ tasks' = [u \in Tasks |-> tasks'[u]] /\ \A u \in Tasks : IsTask(tasks'[u])
        /\ tasks'[t] = r /\ \A u \in Tasks \ {t} : tasks'[u] = tasks[u]
    BY <1>e, <2>1, <2>2
  <2>4. t \in Savers /\ Savers' = Savers \ {t}
    BY <1>13, <2>1, <2>3 DEF saveWrite, Savers, Saving
  <2>5. muddled' \in {"no", "mending", "yes"} /\ (muddled' = "yes" <=> muddled = "yes")
    BY <1>13 DEF saveWrite, IInv, Shape
  <2>6. Shape' /\ LoneSaver'
    BY <2>3, <2>4, <2>5 DEF IInv, Shape, LoneSaver
  <2>7. muddled' # "yes" => Savers' = {}
    BY <2>4, <2>5 DEF IInv, LoneSaver
  <2>8. Encoded' /\ Emptied'
    BY <2>7 DEF Encoded, Emptied, Savers, Saving
  <2>9. muddled # "yes" => file' = [list |-> projects, size |-> SizeOf(projects)]
    BY <1>13 DEF saveWrite, Overwritten, NoFile, IInv, Encoded, Emptied
  <2>10. SettledFile'
    BY <1>13, <2>5, <2>9 DEF saveWrite, SettledFile
  <2> QED BY <2>6, <2>8, <2>10 DEF IInv
<1>14. ASSUME NEW t \in Tasks, saveFails(t) PROVE IInv'
  <2>1. /\ tasks' = [u \in Tasks |-> tasks'[u]] /\ \A u \in Tasks : IsTask(tasks'[u])
    BY <1>14, <1>e, IdleIsTask DEF saveFails
  <2>2. muddled' = "yes"
    BY <1>14 DEF saveFails
  <2> QED BY <2>1, <2>2 DEF IInv, Shape, LoneSaver, Encoded, Emptied, SettledFile
<1>15. CASE rebuild
  <2>1. ASSUME NEW t \in Tasks
        PROVE  /\ IsTask(tasks'[t]) /\ tasks'[t].pc = tasks[t].pc
               /\ tasks'[t].data = tasks[t].data
    <3>1. PICK x : tasks'[t] = [tasks[t] EXCEPT !.shown = x] \/ tasks'[t] = [tasks[t] EXCEPT !.slot = x]
      BY <1>15 DEF rebuild
    <3> QED BY <1>t, <3>1 DEF IsTask
  <2>2. tasks' = [t \in Tasks |-> tasks'[t]] /\ UNCHANGED <<projects, file, muddled>>
    BY <1>15 DEF rebuild
  <2>3. Savers' = Savers
    BY <2>1 DEF Savers
  <2> QED BY <2>1, <2>2, <2>3 DEF IInv, Shape, LoneSaver, Encoded, Emptied, SettledFile
<1>16. CASE restart
  BY <1>16, IdleIsTask DEF restart, IInv, Shape, LoneSaver, Encoded, Emptied, SettledFile, Savers,
     Saving
<1>17. CASE UNCHANGED vars
  BY <1>17 DEF vars, IInv, Shape, LoneSaver, Encoded, Emptied, SettledFile, Savers
<1> QED BY <1>1, <1>2, <1>3, <1>4, <1>5, <1>6, <1>7, <1>8, <1>9, <1>10, <1>11, <1>12, <1>13,
           <1>14, <1>15, <1>16, <1>17 DEF Next

-----------------------------------------------------------------------------
\* A new path is appended, a touched one keeps its place, a dropped one leaves.
LEMMA WithNewOK ==
  ASSUME NEW l, ListOK(l), NEW p \in Paths, ~Has(l.all, p)
  PROVE  /\ ListOK(WithNew(l, p))
         /\ \A q \in Paths : Has(WithNew(l, p).all, q) <=> Has(l.all, q) \/ p = q
<1>1. l.all \in Seq(Paths) /\ l.recent \in Seq(Paths) /\ Distinct(l.all)
  BY DEF ListOK, Lists
<1>2. Append(l.all, p) \in Seq(Paths) /\ <<p>> \o l.recent \in Seq(Paths)
  BY <1>1
<1>3. WithNew(l, p) \in Lists /\ WithNew(l, p).all = Append(l.all, p)
  BY <1>2 DEF WithNew, Lists
<1>4. Distinct(Append(l.all, p)) /\ \A q \in Paths : Has(Append(l.all, p), q) <=> Has(l.all, q) \/ p = q
  BY <1>1, DistinctAppend, HasAppend
<1> QED BY <1>3, <1>4 DEF ListOK

LEMMA WithoutOK ==
  ASSUME NEW s \in Seq(Paths), NEW p
  PROVE  /\ Without(s, p) \in Seq(Paths)
         /\ Distinct(s) => Distinct(Without(s, p))
         /\ \A q \in Paths : Has(Without(s, p), q) <=> Has(s, q) /\ p # q
<1>1. Without(s, p) \in Seq(Paths) /\ (Distinct(s) => Distinct(Without(s, p)))
  BY KeptType, KeptDistinct DEF Without
<1>2. ASSUME NEW q \in Paths PROVE Has(Without(s, p), q) <=> Has(s, q) /\ p # q
  BY KeptElements DEF Without
<1> QED BY <1>1, <1>2

LEMMA TouchedOK ==
  ASSUME NEW l, ListOK(l), NEW p \in Paths
  PROVE  ListOK(Touched(l, p)) /\ Touched(l, p).all = l.all
<1>1. l.all \in Seq(Paths) /\ l.recent \in Seq(Paths) /\ Distinct(l.all)
  BY DEF ListOK, Lists
<1>2. Without(l.recent, p) \in Seq(Paths)
  BY <1>1, WithoutOK
<1>3. <<p>> \o Without(l.recent, p) \in Seq(Paths)
  BY <1>2
<1>4. Touched(l, p) \in Lists /\ Touched(l, p).all = l.all
  BY <1>3 DEF Touched, ListOK, Lists
<1> QED BY <1>1, <1>4 DEF ListOK

LEMMA DroppedOK ==
  ASSUME NEW l, ListOK(l), NEW p
  PROVE  /\ ListOK(Dropped(l, p))
         /\ \A q \in Paths : Has(Dropped(l, p).all, q) <=> Has(l.all, q) /\ p # q
<1>1. l.all \in Seq(Paths) /\ l.recent \in Seq(Paths) /\ Distinct(l.all)
  BY DEF ListOK, Lists
<1>2. /\ Without(l.all, p) \in Seq(Paths) /\ Distinct(Without(l.all, p))
      /\ \A q \in Paths : Has(Without(l.all, p), q) <=> Has(l.all, q) /\ p # q
      /\ Without(l.recent, p) \in Seq(Paths)
  BY <1>1, WithoutOK
<1> QED BY <1>2 DEF ListOK, Lists, Dropped

LEMMA NoProjectsOK == ListOK(NoProjects)
<1>1. <<>> \in Seq(Paths) /\ Distinct(<<>>)
  BY DEF Distinct
<1> QED BY <1>1 DEF ListOK, Lists, NoProjects

LEMMA ViewType ==
  ASSUME NEW l, ListOK(l) PROVE View(l) \in Seq(Paths \cup {NoRow})
<1> DEFINE R == Paths \cup {NoRow}
           n == IF Len(l.recent) < RecentLimit THEN Len(l.recent) ELSE RecentLimit
<1>1. l.all \in Seq(R) /\ l.recent \in Seq(R)
  <2>1. l.all \in Seq(Paths) /\ l.recent \in Seq(Paths)
    BY DEF ListOK, Lists
  <2> QED BY <2>1
<1>2. n \in 0 .. Len(l.recent)
  BY <1>1, LauncherAssumption
<1>3. NoRow \in R
  OBVIOUS
<1> HIDE DEF R, n
<1>4. SubSeq(l.recent, 1, n) \in Seq(R)
  BY <1>1, <1>2
<1>5. <<>> \in Seq(R) /\ <<NoRow>> \in Seq(R) /\ <<NoRow, NoRow>> \in Seq(R)
  BY <1>3
<1>6. <<NoRow>> \o SubSeq(l.recent, 1, n) \o <<NoRow, NoRow>> \o l.all \in Seq(R)
  BY <1>1, <1>4, <1>5
<1>7. View(l) \in Seq(R)
  BY <1>5, <1>6 DEF View, n
<1> QED BY <1>7 DEF R

-----------------------------------------------------------------------------
\* What a call of a path is.
LEMMA CallOK ==
  ASSUME NEW pc \in Steps, NEW p \in Paths
  PROVE  TaskOK(Call(pc, p)) /\ Call(pc, p).slot = 0 /\ Call(pc, p).shown = p
<1>1. NoProjects \in Lists
  BY NoProjectsOK DEF ListOK
<1>2. /\ Call(pc, p) \in TaskRec
      /\ Call(pc, p).slot = 0 /\ Call(pc, p).path = p /\ Call(pc, p).shown = p
      /\ Call(pc, p).data = NoProjects
  BY <1>1 DEF Call, Idle, TaskRec
<1> QED BY <1>2, NoProjectsOK DEF TaskOK

LEMMA IdleOK == TaskOK(Idle) /\ Idle.slot = 0
<1>1. NoProjects \in Lists
  BY NoProjectsOK DEF ListOK
<1> QED BY <1>1, NoProjectsOK DEF Idle, TaskOK, TaskRec, Steps

\* A row's State is at its child of the list view.
LEMMA RowOK ==
  ASSUME rows \in Seq(Paths \cup {NoRow}), NEW i \in 1 .. Len(rows), rows[i] # NoRow,
         NEW pc \in Steps \ {"mkdir", "rmdir"}
  PROVE  LET r == [Call(pc, rows[i]) EXCEPT !.slot = i, !.then = "start"]
         IN TaskOK(r) /\ Attached(r, rows) /\ r.slot # 0 /\ r.pc = pc
<1> DEFINE r == [Call(pc, rows[i]) EXCEPT !.slot = i, !.then = "start"]
<1>1. rows[i] \in Paths /\ i \in Nat \ {0}
  OBVIOUS
<1>2. r \in TaskRec /\ r.pc = pc /\ r.slot = i /\ r.shown = rows[i] /\ r.data = NoProjects
  BY <1>1, NoProjectsOK DEF Call, Idle, TaskRec, ListOK
<1> HIDE DEF r
<1>3. TaskOK(r)
  BY <1>1, <1>2, NoProjectsOK DEF TaskOK
<1>4. Attached(r, rows) /\ r.slot # 0 /\ r.pc = pc
  BY <1>1, <1>2 DEF Attached
<1> QED BY <1>3, <1>4 DEF r

LEMMA TaskStep ==
  ASSUME TInv, NEW t \in Tasks, NEW r, TaskOK(r), Attached(r, rows),
         tasks' = [tasks EXCEPT ![t] = r], rows' = rows, ListOK(projects'),
         ListOK(file'.list), file' \in [list : Lists, size : Nat],
         muddled' \in {"no", "mending", "yes"}
  PROVE  TInv'
<1>1. tasks' = [u \in Tasks |-> IF u = t THEN r ELSE tasks[u]]
  BY DEF TInv
<1>2. r \in TaskRec
  BY DEF TaskOK
<1>3. tasks' \in [Tasks -> TaskRec]
  BY <1>1, <1>2 DEF TInv
<1>4. \A u \in Tasks : TaskOK(tasks'[u]) /\ Attached(tasks'[u], rows')
  BY <1>1 DEF TInv
<1> QED BY <1>3, <1>4 DEF TInv

\* A step of one task that leaves the list and the file alone.
LEMMA QuietStep ==
  ASSUME TInv, NEW t \in Tasks, NEW r, TaskOK(r), Attached(r, rows),
         tasks' = [tasks EXCEPT ![t] = r], UNCHANGED <<projects, file, rows>>,
         muddled' \in {"no", "mending", "yes"}
  PROVE  TInv'
BY TaskStep DEF TInv

LEMMA SaveStep ==
  ASSUME TInv, NEW t \in Tasks, NEW r, TaskOK(r), Attached(r, rows), StartSave(t, r),
         ListOK(projects'), UNCHANGED <<file, rows>>
  PROVE  TInv'
<1> DEFINE s == [r EXCEPT !.pc = "locate"]
<1>1. TaskOK(s) /\ Attached(s, rows)
  BY DEF TaskOK, TaskRec, Attached, Steps, Saving
<1>2. tasks' = [tasks EXCEPT ![t] = s] /\ muddled' \in {"no", "mending", "yes"}
  BY DEF StartSave
<1> HIDE DEF s
<1> QED BY <1>1, <1>2, TaskStep DEF TInv

LEMMA InitTInv == Init => TInv
<1> SUFFICES ASSUME Init PROVE TInv
  OBVIOUS
<1>1. ListOK(projects) /\ ListOK(file.list) /\ file \in [list : Lists, size : Nat]
  BY NoProjectsOK DEF Init, NoFile, ListOK
<1>2. rows \in Seq(Paths \cup {NoRow})
  BY DEF Init
<1>3. tasks \in [Tasks -> TaskRec] /\ \A t \in Tasks : TaskOK(tasks[t]) /\ Attached(tasks[t], rows)
  BY IdleOK DEF Init, TaskOK, Attached
<1> QED BY <1>1, <1>2, <1>3 DEF Init, TInv

\* The list and the rows keep their types and every path is listed once,
\* whatever the order in which calls resume.
LEMMA NextTInv == TInv /\ [Next]_vars => TInv'
<1> SUFFICES ASSUME TInv, [Next]_vars PROVE TInv'
  OBVIOUS
<1>p. /\ ListOK(projects) /\ ListOK(file.list) /\ file \in [list : Lists, size : Nat]
      /\ rows \in Seq(Paths \cup {NoRow}) /\ muddled \in {"no", "mending", "yes"}
  BY DEF TInv
<1>t. ASSUME NEW t \in Tasks
      PROVE  TaskOK(tasks[t]) /\ tasks[t] \in TaskRec /\ Attached(tasks[t], rows)
  BY DEF TInv, TaskOK
<1>i. TaskOK(Idle) /\ Attached(Idle, rows)
  BY IdleOK DEF Attached
<1>l. \A p : Listed(p) <=> Has(projects.all, p)
  BY DEF Listed, Has
<1>1. ASSUME NEW t \in Tasks, NEW p \in Paths, add(t, p) PROVE TInv'
  <2>1. ListOK(projects')
    BY <1>p, <1>l, <1>1, WithNewOK DEF add
  <2>2. TaskOK(Call("locate", p)) /\ Attached(Call("locate", p), rows)
    BY CallOK DEF Steps, Saving, Attached
  <2> QED BY <1>1, <2>1, <2>2, SaveStep DEF add
<1>2. ASSUME NEW t \in Tasks, NEW p \in Paths, create(t, p) PROVE TInv'
  <2>1. TaskOK(Call("mkdir", p)) /\ Attached(Call("mkdir", p), rows)
    BY CallOK DEF Steps, Attached
  <2> QED BY <1>p, <1>2, <2>1, QuietStep DEF create
<1>3. ASSUME NEW t \in Tasks, createEntry(t) PROVE TInv'
  <2>1. CASE ~Listed(tasks[t].path) /\ projects' = WithNew(projects, tasks[t].path)
                /\ StartSave(t, tasks[t])
    <3>1. tasks[t].path \in Paths
      BY <1>3, <1>t DEF createEntry, TaskOK
    <3>2. ListOK(projects')
      BY <1>p, <1>l, <2>1, <3>1, WithNewOK
    <3> QED BY <1>3, <1>t, <2>1, <3>2, SaveStep DEF createEntry
  <2>2. CASE tasks' = [tasks EXCEPT ![t] = Idle] /\ UNCHANGED <<projects, muddled>>
    BY <1>3, <1>p, <1>i, <2>2, QuietStep DEF createEntry
  <2> QED BY <1>3, <2>1, <2>2 DEF createEntry
<1>4. ASSUME NEW t \in Tasks, NEW i \in 1 .. Len(rows), launch(t, i) PROVE TInv'
  <2> DEFINE row == [Call("start", rows[i]) EXCEPT !.slot = i, !.then = "start"]
  <2>1. rows[i] # NoRow /\ rows[i] \in Paths
    BY <1>4, <1>p DEF launch
  <2>2. TaskOK(row) /\ Attached(row, rows)
    BY <1>p, <2>1, RowOK DEF Steps
  <2>3. \/ projects' = Touched(projects, rows[i]) /\ StartSave(t, row)
        \/ tasks' = [tasks EXCEPT ![t] = row] /\ UNCHANGED <<projects, muddled>>
    BY <1>4 DEF launch
  <2>4. UNCHANGED <<file, rows>>
    BY <1>4 DEF launch
  <2> HIDE DEF row
  <2>5. CASE projects' = Touched(projects, rows[i]) /\ StartSave(t, row)
    <3>1. ListOK(projects')
      BY <1>p, <2>1, <2>5, TouchedOK
    <3> QED BY <2>2, <2>4, <2>5, <3>1, SaveStep
  <2>6. CASE tasks' = [tasks EXCEPT ![t] = row] /\ UNCHANGED <<projects, muddled>>
    BY <1>p, <2>2, <2>4, <2>6, QuietStep
  <2> QED BY <2>3, <2>5, <2>6
<1>5. ASSUME NEW t \in Tasks, NEW i \in 1 .. Len(rows), showContextMenu(t, i) PROVE TInv'
  <2> DEFINE r == [Call("menu", rows[i]) EXCEPT !.slot = i]
  <2>1. rows[i] # NoRow /\ rows[i] \in Paths /\ i \in Nat \ {0}
    BY <1>5, <1>p DEF showContextMenu
  <2>2. r \in TaskRec /\ r.pc = "menu" /\ r.slot = i /\ r.shown = rows[i] /\ r.data = NoProjects
    BY <2>1, NoProjectsOK DEF Call, Idle, TaskRec, ListOK, Steps, Modal
  <2>3. TaskOK(r) /\ Attached(r, rows)
    <3> HIDE DEF r
    <3> QED BY <2>1, <2>2, NoProjectsOK DEF TaskOK, Attached
  <2>4. tasks' = [tasks EXCEPT ![t] = r] /\ UNCHANGED <<projects, file, rows, muddled>>
    BY <1>5 DEF showContextMenu
  <2> HIDE DEF r
  <2> QED BY <1>p, <2>3, <2>4, QuietStep
<1>6. ASSUME NEW t \in Tasks, startEditor(t) \/ dismiss(t) \/ saveFails(t) PROVE TInv'
  BY <1>p, <1>i, <1>6, QuietStep DEF startEditor, dismiss, saveFails
<1>7. ASSUME NEW t \in Tasks, remove(t) PROVE TInv'
  <2> DEFINE r == [tasks[t] EXCEPT !.slot = 0]
  <2>1. TaskOK(r) /\ Attached(r, rows)
    BY <1>7, <1>t DEF remove, TaskOK, TaskRec, Attached
  <2>2. projects' = Dropped(projects, tasks[t].shown) /\ StartSave(t, r) /\ UNCHANGED <<file, rows>>
    BY <1>7 DEF remove
  <2> HIDE DEF r
  <2>3. ListOK(projects')
    BY <1>p, <2>2, DroppedOK
  <2> QED BY <2>1, <2>2, <2>3, SaveStep
<1>8. ASSUME NEW t \in Tasks, confirmDelete(t) PROVE TInv'
  <2> DEFINE r == [tasks[t] EXCEPT !.pc = "confirm", !.path = tasks[t].shown]
  <2>1. TaskOK(r) /\ Attached(r, rows)
    BY <1>t DEF TaskOK, TaskRec, Attached, Steps, Modal
  <2>2. tasks' = [tasks EXCEPT ![t] = Idle] \/ tasks' = [tasks EXCEPT ![t] = r]
    BY <1>8 DEF confirmDelete
  <2> HIDE DEF r
  <2> QED BY <1>p, <1>8, <1>i, <2>1, <2>2, QuietStep DEF confirmDelete
<1>9. ASSUME NEW t \in Tasks, delete(t) PROVE TInv'
  <2> DEFINE r == [tasks[t] EXCEPT !.pc = "rmdir", !.slot = 0]
  <2>1. TaskOK(r) /\ Attached(r, rows)
    BY <1>t DEF TaskOK, TaskRec, Attached, Steps
  <2>2. tasks' = [tasks EXCEPT ![t] = r]
    BY <1>9 DEF delete, TInv
  <2> HIDE DEF r
  <2> QED BY <1>p, <1>9, <2>1, <2>2, QuietStep DEF delete
<1>10. ASSUME NEW t \in Tasks, deleteEntry(t) PROVE TInv'
  <2>1. ListOK(projects')
    BY <1>p, <1>10, DroppedOK DEF deleteEntry
  <2> QED BY <1>10, <1>t, <2>1, SaveStep DEF deleteEntry
<1>11. ASSUME NEW t \in Tasks, saveEncode(t) PROVE TInv'
  <2> DEFINE r == [tasks[t] EXCEPT !.pc = "truncate", !.data = projects]
  <2>1. TaskOK(r) /\ Attached(r, rows)
    BY <1>t, <1>p DEF TaskOK, TaskRec, Attached, Steps, Saving, ListOK
  <2>2. tasks' = [tasks EXCEPT ![t] = r]
    BY <1>11 DEF saveEncode, TInv
  <2> HIDE DEF r
  <2> QED BY <1>p, <1>11, <2>1, <2>2, QuietStep DEF saveEncode
<1>12. ASSUME NEW t \in Tasks, saveTruncate(t) PROVE TInv'
  <2> DEFINE r == [tasks[t] EXCEPT !.pc = "write"]
  <2>1. TaskOK(r) /\ Attached(r, rows)
    BY <1>t DEF TaskOK, TaskRec, Attached, Steps, Saving
  <2>2. tasks' = [tasks EXCEPT ![t] = r]
    BY <1>12 DEF saveTruncate, TInv
  <2>3. ListOK(file'.list) /\ file' \in [list : Lists, size : Nat]
    BY <1>12, NoProjectsOK DEF saveTruncate, NoFile, ListOK
  <2> HIDE DEF r
  <2> QED BY <1>p, <1>12, <2>1, <2>2, <2>3, TaskStep DEF saveTruncate
<1>13. ASSUME NEW t \in Tasks, saveWrite(t) PROVE TInv'
  <2> DEFINE s == [tasks[t] EXCEPT !.pc = "start", !.data = NoProjects]
             r == IF tasks[t].then = "idle" THEN Idle ELSE s
  <2>1. TaskOK(s) /\ Attached(s, rows)
    BY <1>t, NoProjectsOK DEF TaskOK, TaskRec, Attached, Steps, ListOK
  <2>2. tasks' = [tasks EXCEPT ![t] = r]
    BY <1>13 DEF saveWrite, TInv
  <2> HIDE DEF s
  <2>3. TaskOK(r) /\ Attached(r, rows)
    BY <1>i, <2>1
  <2> HIDE DEF r
  <2> DEFINE l == tasks[t].data
  <2>4. ListOK(l) /\ SizeOf(l) \in Nat
    BY <1>t DEF TaskOK, ListOK, Lists, SizeOf
  <2>5. file' = Overwritten(file, l)
    BY <1>13 DEF saveWrite
  <2> HIDE DEF l
  <2>6. ListOK(file'.list) /\ file' \in [list : Lists, size : Nat]
    BY <1>p, <2>4, <2>5, NoProjectsOK DEF Overwritten, ListOK
  <2>7. muddled' \in {"no", "mending", "yes"}
    BY <1>13, <1>p DEF saveWrite
  <2> QED BY <1>p, <1>13, <2>2, <2>3, <2>6, <2>7, TaskStep DEF saveWrite
<1>14. CASE rebuild
  <2>1. rows' \in Seq(Paths \cup {NoRow}) /\ UNCHANGED <<projects, file, muddled>>
    BY <1>p, <1>14, ViewType DEF rebuild
  <2>2. ASSUME NEW t \in Tasks
        PROVE  TaskOK(tasks'[t]) /\ Attached(tasks'[t], rows')
    <3> DEFINE i == tasks[t].slot
               a == [tasks[t] EXCEPT !.shown = rows'[i]]
               b == [tasks[t] EXCEPT !.slot = 0]
    <3>1. tasks'[t] = IF i \in 1 .. Len(rows') /\ rows'[i] # NoRow THEN a ELSE b
      BY <1>14 DEF rebuild
    <3>2. CASE i \in 1 .. Len(rows') /\ rows'[i] # NoRow
      <4>1. rows'[i] \in Paths /\ i # 0
        BY <2>1, <3>2
      <4>2. TaskOK(a) /\ Attached(a, rows')
        BY <1>t, <3>2, <4>1 DEF TaskOK, TaskRec, Attached
      <4> QED BY <3>1, <3>2, <4>2
    <3>3. CASE ~(i \in 1 .. Len(rows') /\ rows'[i] # NoRow)
      <4>1. TaskOK(b) /\ Attached(b, rows')
        BY <1>t DEF TaskOK, TaskRec, Attached
      <4> QED BY <3>1, <3>3, <4>1
    <3> QED BY <3>2, <3>3
  <2>3. tasks' \in [Tasks -> TaskRec]
    <3>1. tasks' = [t \in Tasks |-> tasks'[t]]
      BY <1>14 DEF rebuild
    <3>2. \A t \in Tasks : tasks'[t] \in TaskRec
      BY <2>2 DEF TaskOK
    <3> QED BY <3>1, <3>2
  <2> QED BY <1>p, <2>1, <2>2, <2>3 DEF TInv
<1>15. CASE restart
  <2>1. ListOK(projects') /\ UNCHANGED file
    BY <1>15, <1>p DEF restart
  <2>2. rows' \in Seq(Paths \cup {NoRow})
    BY <1>15, <2>1, ViewType DEF restart
  <2>3. tasks' \in [Tasks -> TaskRec] /\ \A t \in Tasks : TaskOK(tasks'[t]) /\ Attached(tasks'[t], rows')
    BY <1>15, IdleOK DEF restart, TaskOK, Attached
  <2> QED BY <1>15, <1>p, <2>1, <2>2, <2>3 DEF restart, TInv
<1>16. CASE UNCHANGED vars
  BY <1>16 DEF vars, TInv
<1> QED BY <1>1, <1>2, <1>3, <1>4, <1>5, <1>6, <1>7, <1>8, <1>9, <1>10, <1>11, <1>12, <1>13,
           <1>14, <1>15, <1>16 DEF Next

-----------------------------------------------------------------------------
\* A call that starts a save: undisturbed, it is the only one, and the file
\* holds the list as it was before the call.
LEMMA StartSaveOneChange ==
  ASSUME IInv, NEW t \in Tasks, tasks[t].pc \notin Saving, NEW task, StartSave(t, task),
         UNCHANGED file,
         \A q \in Paths : ~(Has(projects'.all, q) <=> Has(projects.all, q)) => q \in About(task)
  PROVE  OneChange'
<1> SUFFICES ASSUME muddled' = "no", NEW u \in Savers' PROVE Difference' \subseteq About(tasks'[u])
  BY DEF OneChange, About
<1> DEFINE r == [task EXCEPT !.pc = "locate"]
<1>1. /\ tasks' = [v \in Tasks |-> IF v = t THEN r ELSE tasks[v]]
      /\ \A v \in Tasks \ {t} : tasks[v].pc \notin Saving
      /\ muddled = "no"
  BY DEF StartSave, IInv, Shape
<1>2. u = t
  BY <1>1 DEF Savers
<1>3. Savers = {}
  BY <1>1 DEF Savers
<1>4. file.list = projects
  BY <1>1, <1>3 DEF IInv, SettledFile
<1>5. tasks'[u] = r
  BY <1>1, <1>2
<1>6. About(r) = About(task)
  BY DEF About
<1> HIDE DEF r
<1>7. ASSUME NEW q \in Difference' PROVE q \in About(task)
  BY <1>4, <1>7 DEF Difference
<1> QED BY <1>5, <1>6, <1>7

\* A step of one task that starts no save and leaves the list and the file.
LEMMA QuietOneChange ==
  ASSUME OneChange, Shape, NEW t \in Tasks, NEW r, tasks' = [tasks EXCEPT ![t] = r],
         UNCHANGED <<projects, file, muddled>>,
         r.pc \in Saving \ {"write"} => tasks[t].pc \in Saving \ {"write"} /\ About(r) = About(tasks[t])
  PROVE  OneChange'
<1> SUFFICES ASSUME muddled = "no", NEW u \in Savers', tasks'[u].pc # "write"
             PROVE  Difference \subseteq About(tasks'[u])
  BY DEF OneChange, About, Difference
<1>1. tasks' = [v \in Tasks |-> IF v = t THEN r ELSE tasks[v]]
  BY DEF Shape
<1>2. u \in Tasks /\ tasks'[u].pc \in Saving \ {"write"}
  BY DEF Savers
<1>3. u \in Savers /\ tasks[u].pc # "write" /\ About(tasks'[u]) = About(tasks[u])
  BY <1>1, <1>2 DEF Savers
<1> QED BY <1>3 DEF OneChange, About

LEMMA InitOneChange == Init => OneChange
BY DEF Init, OneChange, Savers, Idle, Saving

LEMMA NextOneChange == IInv /\ TInv /\ OneChange /\ [Next]_vars => OneChange'
<1> SUFFICES ASSUME IInv, TInv, OneChange, [Next]_vars PROVE OneChange'
  OBVIOUS
<1>s. Shape /\ ListOK(projects) /\ rows \in Seq(Paths \cup {NoRow})
  BY DEF IInv, TInv
<1>l. \A p : Listed(p) <=> Has(projects.all, p)
  BY DEF Listed, Has
<1>i. Idle.pc \notin Saving
  BY DEF Idle, Saving
<1>1. ASSUME NEW t \in Tasks, NEW p \in Paths, add(t, p) PROVE OneChange'
  <2>1. About(Call("locate", p)) = {p}
    BY DEF About, Call, Idle
  <2>2. \A q \in Paths : ~(Has(projects'.all, q) <=> Has(projects.all, q)) => q \in {p}
    BY <1>1, <1>s, <1>l, WithNewOK DEF add
  <2> QED BY <1>1, <2>1, <2>2, StartSaveOneChange DEF add, Free, Saving
<1>2. ASSUME NEW t \in Tasks, NEW p \in Paths, create(t, p) PROVE OneChange'
  <2>1. Call("mkdir", p).pc \notin Saving
    BY DEF Call, Idle, Saving
  <2> QED BY <1>2, <1>s, <2>1, QuietOneChange DEF create
<1>3. ASSUME NEW t \in Tasks, createEntry(t) PROVE OneChange'
  <2> DEFINE p == tasks[t].path
  <2>0. tasks[t].pc = "mkdir" /\ UNCHANGED file
    BY <1>3 DEF createEntry
  <2>1. p \in Paths /\ About(tasks[t]) = {p}
    BY <2>0 DEF TInv, TaskOK, About
  <2>2. CASE ~Listed(p) /\ projects' = WithNew(projects, p) /\ StartSave(t, tasks[t])
    <3>1. \A q \in Paths : ~(Has(projects'.all, q) <=> Has(projects.all, q)) => q \in About(tasks[t])
      BY <1>s, <1>l, <2>1, <2>2, WithNewOK
    <3> QED BY <2>0, <2>2, <3>1, StartSaveOneChange DEF Saving
  <2>3. CASE tasks' = [tasks EXCEPT ![t] = Idle] /\ UNCHANGED <<projects, muddled>>
    BY <1>s, <1>i, <2>0, <2>3, QuietOneChange
  <2> QED BY <1>3, <2>2, <2>3 DEF createEntry
<1>4. ASSUME NEW t \in Tasks, NEW i \in 1 .. Len(rows), launch(t, i) PROVE OneChange'
  <2> DEFINE row == [Call("start", rows[i]) EXCEPT !.slot = i, !.then = "start"]
  <2>1. rows[i] \in Paths /\ tasks[t].pc \notin Saving /\ UNCHANGED file
    BY <1>4, <1>s DEF launch, Free, Saving
  <2>2. row.pc \notin Saving
    BY DEF Call, Idle, Saving
  <2>3. \/ projects' = Touched(projects, rows[i]) /\ StartSave(t, row)
        \/ tasks' = [tasks EXCEPT ![t] = row] /\ UNCHANGED <<projects, muddled>>
    BY <1>4 DEF launch
  <2> HIDE DEF row
  <2>4. CASE projects' = Touched(projects, rows[i]) /\ StartSave(t, row)
    <3>1. \A q \in Paths : Has(projects'.all, q) <=> Has(projects.all, q)
      BY <1>s, <2>1, <2>4, TouchedOK
    <3> QED BY <2>1, <2>4, <3>1, StartSaveOneChange
  <2>5. CASE tasks' = [tasks EXCEPT ![t] = row] /\ UNCHANGED <<projects, muddled>>
    BY <1>s, <2>1, <2>2, <2>5, QuietOneChange
  <2> QED BY <2>3, <2>4, <2>5
<1>5. ASSUME NEW t \in Tasks, NEW i \in 1 .. Len(rows), showContextMenu(t, i) PROVE OneChange'
  <2> DEFINE r == [Call("menu", rows[i]) EXCEPT !.slot = i]
  <2>1. r.pc \notin Saving
    BY DEF Call, Idle, Saving
  <2>2. tasks' = [tasks EXCEPT ![t] = r] /\ UNCHANGED <<projects, file, muddled>>
    BY <1>5 DEF showContextMenu
  <2> HIDE DEF r
  <2> QED BY <1>s, <2>1, <2>2, QuietOneChange
<1>6. ASSUME NEW t \in Tasks, startEditor(t) \/ dismiss(t) PROVE OneChange'
  BY <1>s, <1>i, <1>6, QuietOneChange DEF startEditor, dismiss
<1>7. ASSUME NEW t \in Tasks, remove(t) PROVE OneChange'
  <2> DEFINE r == [tasks[t] EXCEPT !.slot = 0]
  <2>1. About(r) = {tasks[t].shown}
    BY DEF TInv, TaskRec, About
  <2>2. /\ tasks[t].pc = "menu" /\ projects' = Dropped(projects, tasks[t].shown)
        /\ StartSave(t, r) /\ UNCHANGED file
    BY <1>7 DEF remove
  <2> HIDE DEF r
  <2>3. \A q \in Paths : ~(Has(projects'.all, q) <=> Has(projects.all, q)) => q \in About(r)
    BY <1>s, <2>1, <2>2, DroppedOK
  <2> QED BY <2>2, <2>3, StartSaveOneChange DEF Saving
<1>8. ASSUME NEW t \in Tasks, confirmDelete(t) PROVE OneChange'
  <2> DEFINE r == [tasks[t] EXCEPT !.pc = "confirm", !.path = tasks[t].shown]
  <2>1. r.pc \notin Saving
    BY DEF TInv, TaskRec, Saving
  <2>2. tasks' = [tasks EXCEPT ![t] = Idle] \/ tasks' = [tasks EXCEPT ![t] = r]
    BY <1>8 DEF confirmDelete
  <2> HIDE DEF r
  <2> QED BY <1>s, <1>i, <1>8, <2>1, <2>2, QuietOneChange DEF confirmDelete
<1>9. ASSUME NEW t \in Tasks, delete(t) PROVE OneChange'
  <2> DEFINE r == [tasks[t] EXCEPT !.pc = "rmdir", !.slot = 0]
  <2>1. r.pc \notin Saving
    BY DEF TInv, TaskRec, Saving
  <2>2. tasks' = [tasks EXCEPT ![t] = r]
    BY <1>9 DEF delete, TInv
  <2> HIDE DEF r
  <2> QED BY <1>s, <1>9, <2>1, <2>2, QuietOneChange DEF delete
<1>10. ASSUME NEW t \in Tasks, deleteEntry(t) PROVE OneChange'
  <2>1. tasks[t].pc = "rmdir" /\ About(tasks[t]) = {tasks[t].shown}
    BY <1>10 DEF deleteEntry, TInv, TaskOK, About
  <2>2. \A q \in Paths : ~(Has(projects'.all, q) <=> Has(projects.all, q)) => q \in About(tasks[t])
    BY <1>s, <1>10, <2>1, DroppedOK DEF deleteEntry
  <2> QED BY <1>10, <2>1, <2>2, StartSaveOneChange DEF deleteEntry, Saving
<1>11. ASSUME NEW t \in Tasks, saveEncode(t) PROVE OneChange'
  <2> DEFINE r == [tasks[t] EXCEPT !.pc = "truncate", !.data = projects]
  <2>1. About(r) = About(tasks[t]) /\ tasks[t].pc = "locate"
    BY <1>11 DEF TInv, TaskRec, About, saveEncode
  <2>2. tasks' = [tasks EXCEPT ![t] = r]
    BY <1>11 DEF saveEncode, TInv
  <2> HIDE DEF r
  <2> QED BY <1>s, <1>11, <2>1, <2>2, QuietOneChange DEF saveEncode, Saving
<1>12. ASSUME NEW t \in Tasks, saveTruncate(t) PROVE OneChange'
  <2> SUFFICES ASSUME muddled = "no", NEW u \in Savers', tasks'[u].pc # "write" PROVE FALSE
    BY <1>12 DEF OneChange, saveTruncate
  <2> DEFINE r == [tasks[t] EXCEPT !.pc = "write"]
  <2>1. r.pc = "write"
    BY DEF TInv, TaskRec
  <2>2. tasks' = [v \in Tasks |-> IF v = t THEN r ELSE tasks[v]]
    BY <1>12 DEF saveTruncate, TInv
  <2> HIDE DEF r
  <2>3. u # t /\ u \in Savers /\ t \in Savers
    BY <1>12, <2>1, <2>2 DEF saveTruncate, Savers, Saving
  <2> QED BY <2>3 DEF IInv, LoneSaver
<1>13. ASSUME NEW t \in Tasks, saveWrite(t) PROVE OneChange'
  <2> SUFFICES ASSUME muddled # "yes", NEW u \in Savers' PROVE FALSE
    BY <1>13 DEF OneChange, saveWrite
  <2> DEFINE s == [tasks[t] EXCEPT !.pc = "start", !.data = NoProjects]
             r == IF tasks[t].then = "idle" THEN Idle ELSE s
  <2>1. r.pc \notin Saving
    BY <1>i DEF TInv, TaskRec, Saving
  <2>2. tasks' = [v \in Tasks |-> IF v = t THEN r ELSE tasks[v]]
    BY <1>13 DEF saveWrite, TInv
  <2> HIDE DEF r
  <2>3. u # t /\ u \in Savers /\ t \in Savers
    BY <1>13, <2>1, <2>2 DEF saveWrite, Savers, Saving
  <2> QED BY <2>3 DEF IInv, LoneSaver
<1>14. ASSUME NEW t \in Tasks, saveFails(t) PROVE OneChange'
  BY <1>14 DEF saveFails, OneChange
<1>15. CASE rebuild
  <2> SUFFICES ASSUME muddled = "no", NEW u \in Savers', tasks'[u].pc # "write"
               PROVE  Difference \subseteq About(tasks'[u])
    BY <1>15 DEF rebuild, OneChange, About, Difference
  <2> DEFINE i == tasks[u].slot
             a == [tasks[u] EXCEPT !.shown = rows'[i]]
             b == [tasks[u] EXCEPT !.slot = 0]
  <2>1. u \in Tasks /\ tasks[u] \in TaskRec
    BY DEF Savers, TInv
  <2>2. tasks'[u] = IF i \in 1 .. Len(rows') /\ rows'[i] # NoRow THEN a ELSE b
    BY <1>15, <2>1 DEF rebuild
  <2>3. a.pc = tasks[u].pc /\ b.pc = tasks[u].pc
    BY <2>1 DEF TaskRec
  <2>4. u \in Savers /\ tasks[u].pc # "write"
    BY <2>1, <2>2, <2>3 DEF Savers
  <2>5. Difference \subseteq About(tasks[u])
    BY <2>4 DEF OneChange, About
  <2>6. CASE i = 0
    <3>1. tasks'[u] = b /\ About(b) = About(tasks[u])
      BY <2>1, <2>2, <2>6 DEF About, TaskRec
    <3> QED BY <2>5, <3>1
  <2>7. CASE i # 0
    BY <2>5, <2>7 DEF About
  <2> QED BY <2>6, <2>7
<1>16. CASE restart
  BY <1>16, <1>i DEF restart, OneChange, Savers
<1>17. CASE UNCHANGED vars
  BY <1>17 DEF vars, OneChange, Savers, Difference
<1> QED BY <1>1, <1>2, <1>3, <1>4, <1>5, <1>6, <1>7, <1>8, <1>9, <1>10, <1>11, <1>12, <1>13,
           <1>14, <1>15, <1>16, <1>17 DEF Next

-----------------------------------------------------------------------------
\* For any projects and any number of calls in flight: between saves the file
\* holds the list, unless saves overlapped or failed and none has made up for it.
THEOREM SpecSettledFile == Spec => []SettledFile
<1>1. IInv => SettledFile
  BY DEF IInv
<1> QED BY InitIInv, NextIInv, <1>1, PTL DEF Spec

\* The list, the file, the rows and the calls keep their types, and a call that a
\* row began finds its State at a child that shows the project it acts on.
THEOREM SpecTypeOK == Spec => []TypeOK
<1>1. TInv => TypeOK
  BY DEF TInv, TypeOK, ListOK, Attached
<1> QED BY InitTInv, NextTInv, <1>1, PTL DEF Spec

\* No project is ever listed twice, by any number of imports and creations under
\* way at once.
THEOREM SpecUniquePaths == Spec => []UniquePaths
<1>1. TInv => UniquePaths
  BY DEF TInv, UniquePaths, ListOK, Distinct
<1> QED BY InitTInv, NextTInv, <1>1, PTL DEF Spec

\* For any projects and calls in flight: a launcher killed between the cut of the
\* file and the write of a lone save comes up with no project; killed before the
\* cut, with its list but for the project of the save; killed at rest, with its list.
THEOREM SpecInterruptedSave == Spec => InterruptedSave
<1> DEFINE Cost == restart /\ muddled = "no" =>
                     IF \E t \in Tasks : tasks[t].pc = "write"
                     THEN projects' = NoProjects
                     ELSE \A p \in Paths :
                            Listed(p) # Listed(p)' => \E t \in Savers : tasks[t].shown = p
<1>1. ASSUME IInv, OneChange, [Next]_vars PROVE [Cost]_vars
  <2>1. CASE \E t \in Tasks : tasks[t].pc = "write"
    <3> SUFFICES ASSUME restart, muddled = "no" PROVE projects' = NoProjects
      BY <2>1
    <3>1. file = NoFile
      BY <1>1, <2>1 DEF IInv, Emptied
    <3> QED BY <3>1 DEF restart, NoFile
  <2>2. CASE ~ \E t \in Tasks : tasks[t].pc = "write"
    <3> SUFFICES ASSUME restart, muddled = "no", NEW p \in Paths, Listed(p) # Listed(p)'
                 PROVE  \E t \in Savers : tasks[t].shown = p
      BY <2>2
    <3>1. projects' = file.list
      BY DEF restart
    <3>2. p \in Difference
      BY <3>1 DEF Difference, Listed, Has
    <3>3. Savers # {}
      <4> SUFFICES ASSUME Savers = {} PROVE FALSE
        OBVIOUS
      <4>1. projects' = projects
        BY <1>1, <3>1 DEF IInv, SettledFile
      <4>2. Listed(p)' = Listed(p)
        BY <4>1 DEF Listed
      <4> QED BY <4>2
    <3>4. PICK t \in Savers : tasks[t].pc # "write"
      BY <2>2, <3>3 DEF Savers
    <3>5. p \in About(tasks[t])
      <4>1. Difference \subseteq About(tasks[t])
        BY <1>1, <3>4 DEF OneChange, About
      <4> QED BY <3>2, <4>1
    <3> QED BY <3>4, <3>5 DEF About
  <2> QED BY <2>1, <2>2
<1> QED BY InitIInv, NextIInv, InitTInv, NextTInv, InitOneChange, NextOneChange, <1>1, PTL
        DEF Spec, InterruptedSave
=============================================================================
