--------------------------- MODULE ProjectService ---------------------------
(***************************************************************************)
(* The project launcher: ProjectService keeps the list of projects and     *)
(* writes it to projects.json after every change, and ProjectList shows    *)
(* it as rows that start, remove and delete projects.                      *)
(*                                                                         *)
(* Each call of the service is a Dart future.  It runs to its next await   *)
(* without interruption; between two awaits the futures of other calls,    *)
(* the user and the framework's rebuild take their turns.  A task is one   *)
(* such call, `pc' names the step it resumes with.                         *)
(***************************************************************************)
EXTENDS SequenceFilter

CONSTANTS Paths,        \* project folders; the name shown is a part of the path
          NoRow,        \* a child of the list view that is a label or a gap
          Tasks,        \* identities for the calls in flight (bounds their number)
          RecentLimit   \* how many rows "recent" shows: 3 in the code

ASSUME LauncherAssumption == NoRow \notin Paths /\ RecentLimit \in Nat \ {0}

VARIABLES projects,     \* _projects, with the order that lastOpened gives
          file,         \* projects.json
          rows,         \* the children of the list view as last built
          tasks,        \* the calls in flight
          muddled       \* history: whether a save has failed or met another
                        \* one since the last save that went undisturbed

vars == <<projects, file, rows, tasks, muddled>>

-----------------------------------------------------------------------------
(* The list.  `all' is the list as stored; `recent' holds the same paths,  *)
(* the last opened first: it is all that the times in the list are for.    *)

Lists == [all : Seq(Paths), recent : Seq(Paths)]
NoProjects == [all |-> <<>>, recent |-> <<>>]
Listed(p) == \E i \in 1..Len(projects.all) : projects.all[i] = p
Without(s, p) == Kept(s, Paths \ {p})

WithNew(l, p) == [all |-> Append(l.all, p), recent |-> <<p>> \o l.recent]
Touched(l, p) == [l EXCEPT !.recent = <<p>> \o Without(l.recent, p)]
Dropped(l, p) == [all |-> Without(l.all, p), recent |-> Without(l.recent, p)]

(* The file: the list that load finds in it, and its length.  A file that  *)
(* is missing, empty or damaged is taken for no projects, since load       *)
(* catches every error and drops it.                                       *)
NoFile == [list |-> NoProjects, size |-> 0]
SizeOf(l) == Len(l.all) + 1

(* What a write of l makes of a file that was cut to nothing when it was   *)
(* opened, and that another save may have filled since: the shorter text   *)
(* over the longer one leaves the rest of the longer one behind it.        *)
Overwritten(f, l) ==
    IF f.size # 0 /\ SizeOf(l) < f.size THEN [f EXCEPT !.list = NoProjects]
    ELSE [list |-> l, size |-> SizeOf(l)]

(* The children of the list view: a label and the recent rows, a gap, a    *)
(* label and all rows; nothing of it when there are no projects.           *)
View(l) ==
    IF l.all = <<>> THEN <<>>
    ELSE LET n == IF Len(l.recent) < RecentLimit THEN Len(l.recent) ELSE RecentLimit
         IN <<NoRow>> \o SubSeq(l.recent, 1, n) \o <<NoRow, NoRow>> \o l.all

-----------------------------------------------------------------------------
(* Tasks.  A task a row has started belongs to the State at `slot' in the  *)
(* list view; `shown' is what that State's widget.project is now, and      *)
(* `path' what it was when the user chose.  slot = 0 when the State is     *)
(* gone, or is not read again.                                             *)

Saving == {"locate", "truncate", "write"}
Modal == {"menu", "confirm"}
Steps == {"idle", "mkdir", "rmdir", "start"} \cup Saving \cup Modal
TaskRec == [pc : Steps, then : {"idle", "start"}, slot : Nat, path : Paths \cup {NoRow},
            shown : Paths \cup {NoRow}, data : Lists]
Idle == [pc |-> "idle", then |-> "idle", slot |-> 0, path |-> NoRow,
         shown |-> NoRow, data |-> NoProjects]

Blocked == \E t \in Tasks : tasks[t].pc \in Modal
Free(t) == tasks[t].pc = "idle" /\ ~Blocked
Call(pc, p) == [Idle EXCEPT !.pc = pc, !.path = p, !.shown = p]

(* A call of _save; its caller has just changed the list.                  *)
StartSave(t, task) ==
    /\ tasks' = [tasks EXCEPT ![t] = [task EXCEPT !.pc = "locate"]]
    /\ muddled' = IF \E u \in Tasks \ {t} : tasks[u].pc \in Saving THEN "yes"
                  ELSE IF muddled = "no" THEN "no" ELSE "mending"

Init ==
    /\ projects = NoProjects
    /\ file = NoFile
    /\ rows = <<>>
    /\ tasks = [t \in Tasks |-> Idle]
    /\ muddled = "no"

-----------------------------------------------------------------------------
(* The calls of the service.                                               *)

(* The user imports a folder.  The file picker is a window of the system's *)
(* and leaves the launcher's own open to the user: its answer may come     *)
(* under a menu or a dialog.                                               *)
add(t, p) ==
    /\ tasks[t].pc = "idle" /\ ~Listed(p)
    /\ projects' = WithNew(projects, p)
    /\ StartSave(t, Call("locate", p))
    /\ UNCHANGED <<file, rows>>

(* The user submits the dialog for a new project.                          *)
create(t, p) ==
    /\ Free(t)
    /\ tasks' = [tasks EXCEPT ![t] = Call("mkdir", p)]
    /\ UNCHANGED <<projects, file, rows, muddled>>

\* A defect for the mutation check: the path is looked for before the awaits only.
createEntryUnchecked(t) ==
    /\ tasks[t].pc = "mkdir"
    /\ projects' = WithNew(projects, tasks[t].path)
    /\ StartSave(t, tasks[t])
    /\ UNCHANGED <<file, rows>>

(* The folder and its project.json are made, in four awaits, and the path  *)
(* is looked for in the list only then; any of them may throw.             *)
createEntry(t) ==
    /\ tasks[t].pc = "mkdir"
    /\ \/ /\ ~Listed(tasks[t].path)
          /\ projects' = WithNew(projects, tasks[t].path)
          /\ StartSave(t, tasks[t])
       \/ /\ tasks' = [tasks EXCEPT ![t] = Idle]       \* listed already, or an error
          /\ UNCHANGED <<projects, muddled>>
    /\ UNCHANGED <<file, rows>>

(* A tap on a row: open, then start the editor on widget.project.          *)
launch(t, i) ==
    /\ Free(t) /\ rows[i] # NoRow
    /\ LET row == [Call("start", rows[i]) EXCEPT !.slot = i, !.then = "start"]
       IN IF Listed(rows[i])
          THEN /\ projects' = Touched(projects, rows[i])
               /\ StartSave(t, row)
          ELSE /\ tasks' = [tasks EXCEPT ![t] = row]
               /\ UNCHANGED <<projects, muddled>>
    /\ UNCHANGED <<file, rows>>

startEditor(t) ==
    /\ tasks[t].pc = "start"
    /\ tasks' = [tasks EXCEPT ![t] = Idle]
    /\ UNCHANGED <<projects, file, rows, muddled>>

(* The menu of a row, and the answers it can get.                          *)
showContextMenu(t, i) ==
    /\ Free(t) /\ rows[i] # NoRow
    /\ tasks' = [tasks EXCEPT ![t] = [Call("menu", rows[i]) EXCEPT !.slot = i]]
    /\ UNCHANGED <<projects, file, rows, muddled>>

dismiss(t) ==
    /\ tasks[t].pc \in Modal
    /\ tasks' = [tasks EXCEPT ![t] = Idle]
    /\ UNCHANGED <<projects, file, rows, muddled>>

remove(t) ==
    /\ tasks[t].pc = "menu"
    /\ projects' = Dropped(projects, tasks[t].shown)
    /\ StartSave(t, [tasks[t] EXCEPT !.slot = 0])
    /\ UNCHANGED <<file, rows>>

(* The dialog names the project its row shows when the dialog is built: in *)
(* a frame, which builds all rows that are due as well.                    *)
confirmDelete(t) ==
    /\ tasks[t].pc = "menu" /\ rows = View(projects)
    /\ tasks' = [tasks EXCEPT ![t] =
                   IF @.slot = 0 THEN Idle ELSE [tasks[t] EXCEPT !.pc = "confirm", !.path = tasks[t].shown]]
    /\ UNCHANGED <<projects, file, rows, muddled>>

delete(t) ==
    /\ tasks[t].pc = "confirm"
    /\ tasks' = [tasks EXCEPT ![t].pc = "rmdir", ![t].slot = 0]
    /\ UNCHANGED <<projects, file, rows, muddled>>

\* A defect for the mutation check: the list is not saved.
deleteEntryUnsaved(t) ==
    /\ tasks[t].pc = "rmdir"
    /\ projects' = Dropped(projects, tasks[t].shown)
    /\ tasks' = [tasks EXCEPT ![t] = Idle]
    /\ UNCHANGED <<file, rows, muddled>>

(* The folder is gone by now, or could not be deleted: that error is       *)
(* dropped.                                                                *)
deleteEntry(t) ==
    /\ tasks[t].pc = "rmdir"
    /\ projects' = Dropped(projects, tasks[t].shown)
    /\ StartSave(t, tasks[t])
    /\ UNCHANGED <<file, rows>>

-----------------------------------------------------------------------------
(* _save: find the file; encode the list as it is by then and open the     *)
(* file, which cuts it; write.                                             *)

\* A defect for the mutation check: the file is opened before the list is encoded.
saveEncodeTruncating(t) ==
    /\ tasks[t].pc = "locate"
    /\ file' = NoFile
    /\ tasks' = [tasks EXCEPT ![t].pc = "truncate", ![t].data = projects]
    /\ UNCHANGED <<projects, rows, muddled>>

saveEncode(t) ==
    /\ tasks[t].pc = "locate"
    /\ tasks' = [tasks EXCEPT ![t].pc = "truncate", ![t].data = projects]
    /\ UNCHANGED <<projects, file, rows, muddled>>

saveTruncate(t) ==
    /\ tasks[t].pc = "truncate"
    /\ file' = NoFile
    /\ tasks' = [tasks EXCEPT ![t].pc = "write"]
    /\ UNCHANGED <<projects, rows, muddled>>

saveWrite(t) ==
    /\ tasks[t].pc = "write"
    /\ file' = Overwritten(file, tasks[t].data)
    /\ tasks' = [tasks EXCEPT ![t] =
                   IF @.then = "idle" THEN Idle ELSE [tasks[t] EXCEPT !.pc = "start", !.data = NoProjects]]
    /\ muddled' = IF muddled = "mending" THEN "no" ELSE muddled
    /\ UNCHANGED <<projects, rows>>

(* Opening or writing fails: the future of the call ends with an error     *)
(* that nobody handles.                                                    *)
saveFails(t) ==
    /\ tasks[t].pc \in {"truncate", "write"}
    /\ tasks' = [tasks EXCEPT ![t] = Idle]
    /\ muddled' = "yes"
    /\ UNCHANGED <<projects, file, rows>>

-----------------------------------------------------------------------------
\* A defect for the mutation check: a State outlives its row.
rebuildKeepingStates ==
    /\ rows # View(projects)
    /\ rows' = View(projects)
    /\ UNCHANGED <<projects, file, tasks, muddled>>

(* The framework rebuilds the list view.  Its rows have no keys, so the    *)
(* State at an index lives on under whatever project is there now, unless  *)
(* the child there is no row any more.                                     *)
rebuild ==
    /\ rows # View(projects)
    /\ rows' = View(projects)
    /\ tasks' = [t \in Tasks |->
         LET i == tasks[t].slot
         IN IF i \in 1..Len(rows') /\ rows'[i] # NoRow
            THEN [tasks[t] EXCEPT !.shown = rows'[i]]
            ELSE [tasks[t] EXCEPT !.slot = 0]]
    /\ UNCHANGED <<projects, file, muddled>>

(* The launcher is closed or killed, and started again: main awaits load   *)
(* before the first frame.                                                 *)
restart ==
    /\ projects' = file.list
    /\ rows' = View(projects')
    /\ tasks' = [t \in Tasks |-> Idle]
    /\ muddled' = "no"
    /\ UNCHANGED file

Next ==
    \/ \E t \in Tasks :
         \/ \E p \in Paths : add(t, p) \/ create(t, p)
         \/ \E i \in 1..Len(rows) : launch(t, i) \/ showContextMenu(t, i)
         \/ createEntry(t) \/ startEditor(t)
         \/ dismiss(t) \/ remove(t) \/ confirmDelete(t) \/ delete(t)
         \/ deleteEntry(t)
         \/ saveEncode(t) \/ saveTruncate(t) \/ saveWrite(t) \/ saveFails(t)
    \/ rebuild
    \/ restart

Spec == Init /\ [][Next]_vars

-----------------------------------------------------------------------------
TypeOK ==
    /\ projects \in Lists
    /\ file \in [list : Lists, size : Nat]
    /\ rows \in Seq(Paths \cup {NoRow})
    /\ tasks \in [Tasks -> TaskRec]
    /\ \A t \in Tasks : tasks[t].slot # 0 =>
         tasks[t].slot \in 1..Len(rows) /\ rows[tasks[t].slot] = tasks[t].shown
    /\ muddled \in {"no", "mending", "yes"}

(* No project is listed twice, although create looks for its path only     *)
(* after two awaits, in which an import or another create of the same path *)
(* may have listed it.                                                     *)
UniquePaths ==
    \A i, j \in 1..Len(projects.all) : projects.all[i] = projects.all[j] => i = j

Savers == {t \in Tasks : tasks[t].pc \in Saving}

(* When no save is under way the file holds the list, unless saves         *)
(* overlapped or failed and no undisturbed one has followed.  Every call   *)
(* changes the list first and encodes it only two awaits later, by when    *)
(* other calls may have changed it again.                                  *)
SettledFile == Savers = {} /\ muddled = "no" => file.list = projects

(* What a launcher that is closed or killed costs, when saves neither      *)
(* overlap nor fail.  Between the cut of the file and the write, it costs  *)
(* all projects: the next one comes up with none.  Before the cut, with a  *)
(* save under way, it costs no more than the project of that save.  At any *)
(* other time it costs nothing.                                            *)
InterruptedSave ==
    [][restart /\ muddled = "no" =>
         IF \E t \in Tasks : tasks[t].pc = "write"
         THEN projects' = NoProjects
         ELSE \A p \in Paths : Listed(p) # Listed(p)' => \E t \in Savers : tasks[t].shown = p]_vars
=============================================================================
