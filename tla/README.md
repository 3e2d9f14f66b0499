# FAManagement: TLA+ models and proofs

FAManagement is a Windows tray program. After a login it watches `D:\` and
`C:\` and writes one row per file event into the MySQL table `FILE_LOG`; two more
workers, a packet filter on the WinDivert device and a poller for notices, are
started from hidden buttons (their start at login is commented out). Each worker
is a thread of its own; the dialog's thread starts and stops them through plain
members of the worker objects, without locks and without joining a thread. The
rest happens in the dialog's thread: the login window, the menu of the tray icon,
a dialog in which notices are read, and the MySQL calls these make; its handlers
nest in each other's message loops.

This directory holds TLA+ models of the workers, of the dialogs and of the
database connector, the TLC runs that check them, and TLAPS proofs of the safety
properties and of the refinements.

Sources are named relative to `src/FAManagement/`.

## 1. Inventory

| Component | State | Operations | What makes it correct |
|---|---|---|---|
| `CFileSystemWatcher::Run` and its callback (`FileSystemWatcher.cpp`) | two local watcher objects (handle, monitor with the buffer of records, handlers), the thread's place in the loop, its APC queue | `Open`, `SetEventHandler`, `Heartbeat`, `FileSystemWatcherCallback`, the four handlers, `Close` | rows tell what happened, nothing vanishes without a reason, one owner of each buffer, no callback after free, a stop ends the thread unless it is kept busy or a message box waits |
| lifecycle of `m_FSW` (`FileSystemWatcher.cpp`, `FAManagementDlg.cpp`) | `StopBit`, `m_WatcherUid`, `m_cLife`; per thread the copies of the user's name; `uid`, `m_Loginbit` of the dialog | login, logout, exit, buttons 3 and 4, `StartThread`, `Update` | who is logged in is watched, rows carry the right user, a logout ends the threads whose heartbeats return |
| `CDBConnector` (`DBConnector.cpp`) | the members `con`, `stmt`, `pstmt`, `res` of each of its objects; the connections the server has given out | `FileLog`, `GetNotice`, `ReadNotice`, `GetFlag`, and `login` and `dbConnector`, which nobody calls | no stale pointer is followed, a connection stays open only for a reason, TRUE means done, the row agrees with the event |
| `PacketFilter` (`PacketFilter.cpp`) | globals `handle` and `packet`; `Stopbit` | buttons 1 and 2, `StartThread`, `StopThread`, `Update`, `Run` | a packet taken off the network goes on once, in order, with its own header; handles are closed |
| `CUserNotice` with `CDBConnector::GetNotice` | `m_UID`, `StopBit`, the members `con` and `res` of `m_Db` | buttons 5 and 6, `SetInit`, `StartThread`, `Run`, `GetNotice`, `TrayIconTooltip` | unread notices are announced to their user, connections are accounted for |
| `UserNoticeDlg` with `ReadNotice` (`UserNoticeDlg.cpp`) | `m_NoticeList` and its selection mark, `m_Allbutton`, the text shown, a copy of `uid`; the tables NOTICE and NOTICE_CHECK on two servers | open, click on a row and beside the rows, arrow keys, the check box, close | marks are made for notices of the reader, no unread notice leaves the list without a reason, the list follows the tables |
| `CTaryIconConMgr` with `GetFlag` (`TaryIconConMgr.cpp`) | `m_bExist`, `m_bHide` | `MakePopupMenu` and its commands, tooltip, add and remove the icon | the menu tells the right user that use is not possible |
| `CFAManagementDlg` | `m_Loginbit`, `uid`, the worker objects; its window and the messages posted to it | login, logout, cancel, system menu, exit, the buttons of the workers | who is logged out can log in, nobody logs in over somebody else, a logout stops the workers and shows the window |
| `CFAManagementApp`, `divert*.h`, MySQL headers, dumps | none of their own | | |

They interact through shared members (the dialog writes the flags and names that
the threads read), through callbacks (the kernel calls the watcher's thread while
it sleeps alertably), through the servers, and through message boxes, which stop
the thread that shows one until somebody dismisses it.

The hard behaviours: starts that overlap threads of earlier starts; a stop flag
that belongs to the object and not to a thread; names read at several moments;
completions, overflows and split renames in the change notification; callbacks that
nest in the blocking calls of another, and a sleep that need not end; buffers,
handles and pointers shared by threads; connections that are given up on early
returns; message boxes in worker threads; menus, dialogs and message boxes that
dispatch messages while they wait, so that a handler finds its state changed when
it goes on. `PROJECT.json` lists each at its line.

## 2. Modules

```
AuditTrail     <-implements- FileSystemWatcher <-extends- MCFileSystemWatcher
Heartbeats        the control of the same thread, without the data
StopFlagWorker <-implements- WatcherThreads
      ^        <-implements- PacketFilter
      |        <-implements- UserNotice        <-extends- MCUserNotice
DatabaseCalls  <-implements- DBConnector
MainDialog     <-extends-    NoticeDialog
```

The proofs about M are in M_proofs, which extends M: `AuditTrail_proofs`,
`FileSystemWatcher_proofs`, `StopFlagWorker_proofs`, `WatcherThreads_proofs`,
`PacketFilter_proofs`, `UserNotice_proofs`, `DBConnector_proofs`, `NoticeDialog_proofs`.
The proofs about a module that implements an abstract one instantiate the proofs of
that one as well (`TrailFacts`, `WorkerFacts`), so that what is proved of the
abstract module is said of the detailed one.

**FileSystemWatcher** is one thread of `Run`. `Open`, `SetEventHandlers`,
`CheckStopBit`, `Heartbeat`, `SleepExReturns` and `Close` are the steps of `Run`;
`DeliverApc`, `RememberOldName`, `HandleEvent`, `HandleEventFails` and `Repost` are
those of `FileSystemWatcherCallback`, one action per record since the kernel and
the users go on while it runs. `HandleEvent` is the whole of a handler:
`GetFileAttributes`, `ShowAttributes` and the insert of `FileLog`, with the columns as
`FileLog` fills them (`RowOf`). `ExtractFileName` models the conversion to the ANSI
code page, `Combine` the path. The kernel's half is external:
- between two requests it records up to `Capacity` records; one more and it forgets
  all and completes the next request with no bytes, as success or as
  `ERROR_NOTIFY_ENUM_DIR`. The buffer then holds what it held before, and the
  callback, which does not look at `bytesTransferred`, walks it again;
- while a request is outstanding the records are handed over before they overflow;
- a rename is two records that may come in different buffers;
- `GetFileAttributes` fails only for a file that is not there or a name with a
  question mark; best-fit characters and names of more than 1023 bytes are left out.

`Ended` is the process living on after the thread.

**Heartbeats** is the control of the same thread, for the two questions that
FileSystemWatcher cannot ask because its changes are bounded and its callbacks run
one after the other. A completion is a number of records to walk, and `dirty` says that
the kernel has something to report of a volume; users change files for ever. The row
that FileLog inserts is itself a change if the database is on a watched volume
(`database`, chosen at the start). FileLog is two steps, the call and the answer: the
MySQL client waits for the server in blocking socket calls, which are alertable, so
that between the two a queued completion starts a callback within the callback (`walks` is
the stack of them). A message box is no alertable wait. `SleepExReturns` needs an empty
queue, since SleepEx runs what was queued meanwhile before it returns.

FileSystemWatcher leaves the nesting out, and its properties about one volume do not
depend on it: a watcher posts its next request only after its walk (`WalksAreSeparate`),
so a nested callback is always of another watcher, whose buffer, records, rows and
trail are its own. To the outer callback it is a delay.

**AuditTrail** is what the watcher promises about the table: per volume, a
row is written only for a change that happened. As long as nothing of a volume
was lost (`broken`, which the refinement maps to "a change is in `lost`") its trail is
the history itself; afterwards it goes back at most once per overflow.

**StopFlagWorker** is the pattern of all three workers: a start raises the
flag and then creates a thread, a stop lowers the flag, a thread leaves its loop
when it reads 0. `Overlap` is a start being called over a live thread. `SpawnFails` is a
`_beginthreadex` that fails: no start looks at its result, so the flag stays up with
no thread for it (`unmanned`); in the workers it is `CreateThreadFails`.

**WatcherThreads** is `m_FSW` with any number of threads. `StartThread` is split
into its three assignments; the `std::string` assignment itself takes time, and a
copy taken meanwhile is `Torn`. What a thread does in its heartbeats is `LogRow`
and `HeartbeatsReturn`; the detail is in FileSystemWatcher. The login accepts
everybody (`if(1)`, `FAManagementDlg.cpp:265`). The model allows the login over
somebody who is logged in, which `OnBnClickedOk` does not exclude; that the window is
gone by then is `LoginOnlyWhenLoggedOut` of NoticeDialog. `devUsed`
remembers that one of the hidden buttons 3 and 4 was used, which start and stop
without a login. After `CreateThreadFails` a thread of an earlier start that has not yet
read its stop goes on under the new name. `StopBit` and `m_cLife` are not
initialised by any constructor and start with any value.

**PacketFilter** is `m_PF` with its shared globals. A packet is its number and
what `DivertHelperParse` finds in it; the copy with TOS 168 is `marked`. Parsing and
sending is one step. The dump file, the console and header contents are left out.
`DivertOpenFails` is `exit(EXIT_FAILURE)` from the worker. `StopThread` is
button 2 and `OnLOGOUT`.

**UserNotice** is `m_Un`. The calls of `GetNotice` are single steps because
`con` and `res` are members that all threads of `m_Un` share. `returned` holds the
connections given up by the `return` of line 351 and by the catch clause. Using
what another thread deleted is undefined behaviour: the process ends or the thread
goes on (`UseAfterDelete`). The NOTICE tables are one flag per user that anybody may
turn (`Notices`). `OnBnClickedButton6` is button 6 and `OnLOGOUT`.

**DBConnector** is one CDBConnector object with the server it calls. The six
methods are one sequence of calls of the MySQL client with small differences, so
each is a record: does it insert, does it query, with which values does it
return from inside its result loop or right behind it (past the deletes), and what does it
return at the end and after an exception. `dbConnector`'s 9999 inserts are one
`ExecuteUpdate`. `Throw` is possible at every call. The catch clauses delete nothing;
their message box dispatches messages, so that in `Call` the same object may be called
again while it is up (`waiting`). The heap is the four sets of objects that were
created and not deleted; `left` remembers the connections that calls went past.

**DatabaseCalls** is what the servers see of it: a call takes one connection and
gives it back or abandons it for good, and never closes another's.

**MainDialog** is the dialog's thread: the login window, the tray menu, and what
they do to each other. `modal` is the stack of the loops that wait (menus, dialogs,
message boxes); only the innermost takes input, only an empty stack lets input
through to the main dialog, posted messages are served before input, and the
tray icon's own messages come through always. `visible` is the window itself,
`m_bHide` what the tray object thinks of it, and `hiddenPopup` that it was hidden by a
`WM_SHOWWINDOW`, as the default handler of that message treats popup windows.
`MenuLoggedIn` and `DismissFlagBox` are the two halves of `MakePopupMenu` around the
message box of `GetFlag`, the second of which reads `m_Loginbit` again. `Calls` is what a
method of DBConnector looks like from here: its answer, whether a connection stays
open, and whether a message box comes up: `AfxMessageBox(text, errNo)` passes the
error code as the style of the box, and not every number is one. A dialog
with notices that is opened over another window may take that one for the main dialog
(`GetParent`) and cast it; its user is then `Garbage`.

**NoticeDialog** extends it with `UserNoticeDlg`. The list comes from 192.168.0.1 and
what was read is written to 192.168.0.254; whether the two are one database (`copied`) is
chosen at the start. `OnNMClickList1` is the whole click: `ReadNotice`, and the list deleted
and fetched again whatever `ReadNotice` returned; with a message box of `ReadNotice`
the second half is `DismissReadBox`. A click beside the rows takes the selection
mark that is there, or marks notice 0. Of several such dialogs over each other
only the one directly over the main dialog has its list in the model; what the others
mark is `OtherDialogReads`. The poller's connections to 192.168.0.1 are in
UserNotice, not here. An empty number is taken for 0 as MySQL does outside its
strict mode.

In WatcherThreads, MainDialog and NoticeDialog the end of the process is part of
the model; in the other modules behaviours simply stop there.

Operators whose comment starts with "Mutation:" are not part of the
specifications: each is the definition after it with a plausible bug, kept to show
that the properties notice it.

## 3. Runs

| Run | Instance | What it shows |
|---|---|---|
| `watcher_overflow` | 1 watcher, 3 names of which one is not in the code page, buffer of 2, 3 changes, 1 fault | what the rows say, what can be missing and why, buffer ownership, refinement of AuditTrail with losses |
| `watcher_two_volumes` | 2 watchers, 1 name, buffer of 1, 2 changes each, 1 fault | completions of two watchers; every change is logged unless it was lost for one of the named reasons |
| `heartbeats` | 2 watchers, buffer of 2, changes without end, the database on any of the volumes | callbacks of one volume never meet; a stop ends the thread unless it is kept busy for ever or a message box waits |
| `stop_flag` | 4 starts, any of which may get no thread | the pattern itself |
| `threads` | 2 users, 2 starts, buttons 3 and 4 | login, logout, exit and the threads in every order: the newest login is watched, rows carry the right user, refinement of StopFlagWorker, a logout ends the threads whose heartbeats return |
| `packet_filter` | 2 starts, 2 packets, queue of 1, 1 fault | handles and packets; refinement of StopFlagWorker; a stop ends the threads or waits for a packet |
| `notice_one_thread` | 2 users, 2 starts, 2 connections, 1 fault | connections, tooltips, refinement of StopFlagWorker |
| `notice_liveness` | 1 user, 2 starts, 2 connections | announcements, stop |
| `db_connector` | 2 connections, 2 rows, 1 nested call | pointers, connections and results of every method on one object; refinement of DatabaseCalls |
| `desktop` | 1 user, known and blocked, 2 notices, servers with 1 connection each, 2 loops that wait, 1 fault | window, menu and dialogs against each other; what is marked and listed |
| `rename_old_name` | 1 watcher, 1 change | **violated**, see below |
| `thread_life` | 1 start | **violated**, see below |

Type invariants that are proved (section 4) are not run again, but for the
two of the largest states, `TypeOK` of FileSystemWatcher and `NoticeTypeOK`.

Bounds. Two records in the buffer and three changes are the least with which a
buffer overflows, is replayed and is then filled again, and with which a rename
is split. Two watchers suffice since they share nothing but the thread. Overlapping is a
matter of two starts; that "newest" differs from "second", and a thread outlives two
later ones, is seen with the four of `stop_flag`, which the workers implement, and in the
proofs. Two packets
overflow a queue of one, and can be in the hands of two threads. Two connections let one leak and one be in use, and then
the server refuse. One fault of each kind is placed at every possible point. `FILE_LOG`
growing through its own inserts (the database is on this machine) is in `heartbeats`,
whose state is finite without a bound on the changes; in FileSystemWatcher it is cut by
`MaxChanges`. In `db_connector` the second
connection lets a call run while another is leaked or waits in its box; one nested
call is enough for a method to find every member changed when it goes on; two rows
tell a return at the first from one after the last. In `desktop` one connection per
server makes the second call meet a full server after one leak; a waiting loop on
top of another gives every pair of handlers that can meet, and a message box may
come on top of these; two notices tell the row from the number of the notice. The user is
one since `uid` is the only one the dialog knows, and `NoUser`, which is known to no
table, is the other that can log in. Names and users are interchangeable where a run says SYMMETRY,
which no run with a liveness property does.

Deadlock is not checked where the process may exit or where `MaxStarts` is used
up (`CHECK_DEADLOCK FALSE`); the runs of FileSystemWatcher and DBConnector check it.

Many properties are stated under `~overlapped`: no start was called while a
thread was alive. The program does not ensure this; the properties say what holds
as long as the user leaves a thread the time to end, and cannot show what threads that
overlap do to each other; NewestRuns, LoggedInMeansWatched and NoNameFromThePast, the
refinements and the liveness properties hold without that.

Fairness. The scheduler runs every thread that can go on, and the handler of a
button to its end (weak fairness per thread). Every message loop dispatches what was
posted, that of a menu or a message box too (`ShowWindowMessage`). The kernel completes a request that
has something to report and reports both halves of a rename. Nobody has to dismiss a message box, to change a file, to
send a packet, to click or to log out.

Heartbeats of the file watcher need not return, and WatcherThreads assumes no
fairness for `HeartbeatsReturn`: `LogoutEndsThreads` holds of each thread that does not
stay in its heartbeats for ever. What can keep it there is in Heartbeats: a message
box of FileLog; files that change so fast that each new request completes before
SleepEx finds the queue empty; requests that fail again and again; and rows that change
the database's own files. `StopEndsTheThread` allows these, and no more: without the
last disjunct of `Disturbed` TLC shows a thread that was told to stop and goes on
logging its own rows, one completion for each.

### Disagreements found

- `rename_old_name`: `FileLog` computes the file name of the old path but assigns it
  to `New_file_name` (`DBConnector.cpp:253`), so `OLD_FILE_NAME` is always empty. The
  sample rows of `res/Setup/DBRestore/FAdbDump.sql:60` carry the old name.
- `thread_life`: `m_cLife`, "the state of the thread" (`FileSystemWatcher.h:89`), is
  only ever set to `LIFE_LIVE` (`FileSystemWatcher.cpp:361`).

## 4. Proofs

All theorems hold for every value of the constants that satisfies the named
assumptions of the modules (bounds are numbers, special strings are no users), which
TLC evaluates in the runs.

**StopFlagWorker.** TypeOK is inductive; relative to it NewestRuns and
OneThread (without an overlap there is one thread at a time) each are.

**WatcherThreads.** The three safety properties are not inductive. `IndInv` adds
what they rest on: outside its assignment `m_WatcherUid` is the dialog's `uid`
(`UidAssigned`), and one of the names the last thread was started or, by starts that
got no thread, restarted for; a login has raised `StopBit` by the time its thread is created and
only a logout lowers it (`LoginRaises`); the newest thread has not seen a stop while
there is none, if the last start created it (`NewestInLoop`); without an overlap a live
thread is the newest and its copies are what
`m_WatcherUid` holds (`AloneAndCurrent`). Each action preserves each part; from
`[]IndInv` follow `TypeCorrect`, `LoggedInCorrect`, `RowsCorrect` and `NamesCorrect`.

**FileSystemWatcher.** The invariant is built in layers, each preserved relative to
those before it. `Types` is what TypeOK needs to be preserved. `Control` ties the place of the
thread to its watchers: a callback runs only inside `SleepEx`, and until `Close` every
watcher with a request or a completion is open (`NoCallbackAfterFree`). `Exclusive` and `Hearing`
say who has a watcher's buffer, and that an open watcher is out of requests only
after a fault (`OneOwnerOfBuffer`). `RecordsTell`: every record in the kernel, in a
request's buffer or in the replayed contents tells a change that happened, and the
halves of a rename keep their change. With `OldNameKept`, about the local variable
of the callback, every row tells its change (`RowsTell`, `RowsTellWhatHappened`). `RenameRows`
sharpens this for each step: rows are only appended, and the row of a rename lacks the old
name exactly if its second half is the first record of the buffer that is walked. For
`NothingVanishes` the strengthening `AllAccounted` says where a change is that has no
row yet: in the hands of the kernel, in a buffer at or after the callback's place, or in the
callback. It follows the second half of a rename, since the row is written for
that one and the first may be dropped. `FilesRemain` and `GoneRows`
(a file that is there, is there until a change takes it away) give `AllYesMeansGone`.

**PacketFilter.** `ThreadInv`: without overlapping starts only the newest thread lives
(`NewestAlone`), an open handle is its handle, and after a stop it has at most
the packet that it waits for (`StopSeen`). `OrderInv` adds that only the open handle has a queue and that
the queue, the packet in hand and the wire together are in the order of capture
(`PacketsInOrder`), so that none is in two of them; `Accounted`, that every packet is
in one of them or was dropped for a reason that is recorded (`PacketsForwardedOnce`).

**UserNotice.** `IndInv`: the control of the dialog and the threads; the heap (results
have their connections, and a result of the current connection is the current result); `m_UID` is the user of the last start (`UidAssigned`); without
overlapping starts there is one thread and it is the current one (`AloneAndCurrent`); a
stop is seen after at most one more tooltip (`StopSeen`); a connection is open because
a call uses it or gave it up (`ConnInv`); what was shown was shown to its user.

**DBConnector.** `IndInv` is TypeOK with UsesOwnObjects, LeftOpen, NoOrphans and two
facts about the call under way: it has no result before its query, and past its insert
the insert was done. The lemma `MethodTable` evaluates the records of the methods once, so
that the other proofs need no cases over methods.

**NoticeDialog**, with MainDialog. `ModalInv` is about the stack of waiting loops, counted
from the main dialog (`Stacked`): a menu offers the commands of somebody logged in or
out as the dialog's state is, for the menu ends before that state changes; only one menu
waits at a time; the box of a failed ReadNotice is over the dialog with notices and
nothing else; only such a dialog above another window has the wrong user name
(`FrameOk`). `FlagIsRight` and `NoticesOfTheUser` follow. `Window`: a WM_SHOWWINDOW under
way is that of the last login or logout, and the window is as that message finds it;
with `m_bHide` and `m_bExist` that gives `CanLogIn` and `LoginOnlyWhenLoggedOut`.
`NoticeInv`: the list has only notices to the user who is logged in and is empty
without a dialog, so every click marks one of the user's own notices
(`MarksAreOfOwnNotices`). With these, `NextList` shows the two halves of
`ListFollowsTables` for each step that fetches the list.

**AuditTrail.** `Faithful` is what a reader of FILE_LOG can rely on: rows are of changes that
happened; while nothing is lost they are the first changes, all of them, in order;
without an overflow they are never repeated or out of order; and a change has at most one
row more than there were overflows. Two facts about trails carry it: to repeat a
change the trail must step back to it (`RowsNeedSteps`), and a trail without steps
back rises (`NoStepsInOrder`). Each is preserved when a row is appended (`StepBack`, from
the cardinalities of the sets of places), and with the bound of `Log` they give
`FaithfulCorrect`.

**Refinements.** `Refinement` shows, action by action, that WatcherThreads, PacketFilter
and UserNotice each implement StopFlagWorker and that DBConnector implements
DatabaseCalls. `WorkerPromises` then says of each worker what was proved of
StopFlagWorker: its newest thread runs while the flag is up, if the last start got one, and
its threads share the object only after a start over a live one. The lemmas about `WorkerState` say which of the
worker's threads an action of the detailed module moves, and how.

`AuditTrailImplemented` is the refinement of the file watcher: a change in the kernel is
`Happen` (also one that no longer fits the buffer), the second half of a rename and a
failed insert are `Forget`, the completion that reports an overflow is `Overflow`, the insert
of a row `Log`, and everything else a stutter. That a row may be logged where it is, is
what the invariant `TrailInv` is for. Its parts, per volume:

- `Rising`: the events in the buffer, and those recorded in the kernel, are of ever later
  changes. The first half of a rename is no event, as no row is written for it.
- `RowsFirst` and `BufferFirst`: what is recorded came after every row and after the
  buffer. Without them the next completed request could take the trail back.
- `HalfTold`: between its two halves nothing tells of a rename. Without it the second
  half would not be the latest event when it is recorded.
- `Past` and `LoggedRows`: rows are of changes that happened, and the trail is theirs.
- `OverflowLoses`: an overflow loses a change, which is `Overflow`'s guard.
- `ToWalk`: what the callback still has to walk is ahead of the last row (`Ahead`), or the
  trail has stepped back less often than there were overflows (`Affordable`). This is
  the heart of it. An overflow completes a request with the buffer as it was, and the
  callback walks it again from its first record: the step back that this costs is
  paid for by the overflow, once, and after it the rest of the walk is ahead again.
- `Exact`: while nothing is lost the k-th row is of change k. A handler that skipped a
  change would break it; that none does follows from `AllAccounted`, for the
  change after the last row is in the buffer that is being walked and nothing before
  it is.

The trail of a volume is a recursive function of the table (`LoggedChanges`). That
an insert appends to it (`RowLogged`) is shown by induction over the table's
length; the induction theorems of the library take an operator and cannot be cited, so
`AllNumbers` derives what is needed from `WFMin`, the least element of a
well-founded relation. `FaithfulTrail` is the conclusion: `Faithful` holds of the table
that the watcher of this program writes, for every number of volumes and changes, every
size of the buffer, and all overflows and faults.

Only model-checked: the liveness properties (`EveryChangeIsLogged`, `StopEndsTheThread`,
`StopEndsAll`, `StopEndsOrWaits`, `StopEndsThreads`, `LogoutEndsThreads`,
`UnreadIsAnnounced`, `LogoutShowsWindow`), for which the prover used has no rules: they
need ENABLED; and `WalksAreSeparate` of Heartbeats. Every other safety property that a
passing run checks is the statement of a theorem, type invariants included; `OneThread` is
proved only. `TrailInv` and `Trail!Faithful` were
checked with TLC on the instances of watcher_overflow and watcher_two_volumes before
they were proved.

## 5. Not modelled

- Commented-out code, which is half of `PacketFilter.cpp` (from line 539), a third of
  `DBConnector.cpp` (from line 468) and the test program at the end of
  `FileSystemWatcher.cpp` (from line 597).
- `divert*.h`, the MySQL connector's headers and binaries: third-party. Their
  behaviour appears as external actions and as the calls that may throw.
- The values of the seventeen attribute flags (a row has the actual ones, all, or
  none), the contents and lengths of packets (a packet longer than the 1700 bytes of a
  TCPPACKET is among the hazards without a property), the text of messages.
- What the records of nested callbacks and the rows about FILE_LOG's own files say:
  Heartbeats has their control only.
- Painting, the colours of the rows, fonts, the layout; `CFAManagementApp` beyond the end
  of the process; the rest of the MFC boilerplate.
- The database dumps and the installation files: data.

## 6. Plan

Done: the workers (AuditTrail, FileSystemWatcher, Heartbeats, StopFlagWorker, WatcherThreads,
PacketFilter, UserNotice), the connector (DatabaseCalls, DBConnector), the desktop
(MainDialog, NoticeDialog), and proofs of the safety of all of them but Heartbeats, and
of every refinement. Left, in this order:

1. `WalksAreSeparate` as a theorem.
2. The composition of one logout with the three workers, from three
   instances of StopFlagWorker.
3. `ShowAttributes` as an operator on flag sets, against `INVALID_FILE_ATTRIBUTES`.
