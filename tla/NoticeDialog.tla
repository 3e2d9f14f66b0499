---------------------------- MODULE NoticeDialog ----------------------------
(***************************************************************************)
(* The dialog in which a user reads notices, on top of MainDialog, whose   *)
(* tray menu opens it.  Its list is fetched from the server 192.168.0.1;   *)
(* that a notice has been read is written to 192.168.0.254.  Whether these *)
(* are one database is up to the installation (copied).                    *)
(*                                                                         *)
(* The menu can open further such dialogs over a window that waits.  Only  *)
(* the one directly over the main dialog has its list modelled; what the   *)
(* others mark as read shows in it when it is fetched again.               *)
(***************************************************************************)
EXTENDS MainDialog, SequencesExt

CONSTANTS Everybody,   \* the addressee of a notice with NOTICE = YES
          MaxNotices   \* bound: notices sent

ASSUME NoticeAssumption == Everybody \notin Names \cup {Garbage} /\ MaxNotices \in Nat

VARIABLES
  \* UserNoticeDlg
  m_NoticeList,   \* the notices in the list, by IDX, which is also their order
  mark,           \* the row with the selection mark, 0 if there is none
  m_Allbutton,    \* the check box: show notices that were read, too
  text,           \* the notice whose title and content are shown, 0 for blank
  \* the tables
  NOTICE,         \* NOTICE[n]: to whom notice n is addressed
  NOTICE_CHECK,   \* pairs of a notice and the user who read it
  copied          \* 192.168.0.1 sees what is written to 192.168.0.254

notice == <<m_NoticeList, mark, m_Allbutton, text>>
tables == <<NOTICE, NOTICE_CHECK, copied>>
vars == <<mainVars, notice, tables>>

Init ==
  /\ MainInit
  /\ m_NoticeList = {} /\ mark = 0 /\ m_Allbutton = FALSE /\ text = 0
  /\ NOTICE = <<>> /\ NOTICE_CHECK = {} /\ copied \in BOOLEAN

\* An administrator writes a notice.
SendNotice(to) ==
  /\ Len(NOTICE) < MaxNotices
  /\ NOTICE' = Append(NOTICE, to)
  /\ UNCHANGED <<mainVars, notice, NOTICE_CHECK, copied>>

-----------------------------------------------------------------------------
IsOpen == modal # <<>> /\ Last(modal).kind = "notices"
Reader == Last(modal).user    \* the dialog's copy of uid

\* The dialog takes the input.
OnlyDialog == ~exited /\ posted = <<>> /\ IsOpen /\ Len(modal) = 1

ForUser(u) == {n \in DOMAIN NOTICE : NOTICE[n] \in {u, Everybody}}

\* The rows of GetNotice's query.
SelectNotices(u, ALL, checks) ==
  {n \in ForUser(u) : ALL \/ ~(copied /\ <<n, u>> \in checks)}

\* What GetNotice puts into the list, newest first: after an error what came till then.
Listed(found, call) ==
  IF call.ok THEN {found}
  ELSE {{}} \cup {{n \in found : n >= first} : first \in found}

ListBox(call) == IF call.box THEN <<Waiting("list_box")>> ELSE <<>>

\* Mutation: the selection mark outlives the row.
FetchKeepsMark(u, ALL, checks, call) ==
  /\ m_NoticeList' \in Listed(SelectNotices(u, ALL, checks), call)
  /\ UNCHANGED mark

\* DeleteAllItems and GetNotice.
Fetch(u, ALL, checks, call) ==
  /\ m_NoticeList' \in Listed(SelectNotices(u, ALL, checks), call)
  /\ mark' = 0

OnInitDialog ==
  /\ \E call \in Calls(1) :
       /\ OnCreatorNotice(call)
       /\ IF Tail(modal) = <<>>
          THEN Fetch(uid, FALSE, NOTICE_CHECK, call) /\ UNCHANGED <<m_Allbutton, text>>
          ELSE UNCHANGED notice
  /\ UNCHANGED tables

\* It is called by OnNMClickList1 as well.
OnBnClickedCheck1(all, checks, call) ==
  /\ Fetch(Reader, all, checks, call)
  /\ modal' = ListBox(call) \o <<Last(modal)>>

ClickCheck1 ==
  /\ OnlyDialog
  /\ m_Allbutton' = ~m_Allbutton
  /\ \E call \in Calls(1) : OnBnClickedCheck1(~m_Allbutton, NOTICE_CHECK, call) /\ Made(1, call)
  /\ UNCHANGED <<dialog, window, m_Tray, text, tables>>

\* The arrow keys move the selection mark.
SelectByKey ==
  /\ OnlyDialog
  /\ mark' \in m_NoticeList
  /\ UNCHANGED <<mainVars, m_NoticeList, m_Allbutton, text, tables>>

\* Mutation: the number of the row in place of that of the notice.
ReadNoticeByRow(n, u, call) ==
  NOTICE_CHECK' \in
    (IF call.ok THEN {} ELSE {NOTICE_CHECK})
      \cup (IF call.ok \/ call.leak = 1
            THEN {NOTICE_CHECK \cup {<<Cardinality({k \in m_NoticeList : k > n}), u>>}}
            ELSE {})

\* The row may be there after an error of the connection, too.
ReadNotice(n, u, call) ==
  NOTICE_CHECK' \in
    (IF call.ok THEN {} ELSE {NOTICE_CHECK})
      \cup (IF call.ok \/ call.leak = 1 THEN {NOTICE_CHECK \cup {<<n, u>>}} ELSE {})

\* A click on a row moves the selection mark there; one beside the rows leaves it, and
\* without a mark the number of the notice is the empty string, which becomes 0.
Clickable == m_NoticeList \cup {mark}

OnNMClickList1(n) ==
  /\ OnlyDialog /\ n \in Clickable
  /\ text' = n
  /\ \E read \in Calls(254), list \in Calls(1) :
       /\ ReadNotice(n, Reader, read) /\ ~read.box
       /\ faults' = faults + read.fault + list.fault /\ faults' <= MaxFaults
       /\ leaked' = [leaked EXCEPT ![254] = @ + read.leak, ![1] = @ + list.leak]
       /\ OnBnClickedCheck1(m_Allbutton, NOTICE_CHECK', list)
  /\ UNCHANGED <<dialog, window, m_Tray, m_Allbutton, NOTICE, copied>>

\* Mutation: the list is deleted first.
ReadNoticeFailsDeletes(n) ==
  /\ OnlyDialog /\ n \in Clickable
  /\ text' = n /\ mark' = 0 /\ m_NoticeList' = {}
  /\ \E read \in Calls(254) :
       /\ ReadNotice(n, Reader, read) /\ read.box
       /\ Made(254, read)
  /\ modal' = <<Waiting("read_box")>> \o modal
  /\ UNCHANGED <<dialog, window, m_Tray, m_Allbutton, NOTICE, copied>>

\* ReadNotice shows a message box: the list is not touched before that is dismissed.
ReadNoticeFails(n) ==
  /\ OnlyDialog /\ n \in Clickable
  /\ text' = n /\ mark' = n
  /\ \E read \in Calls(254) :
       /\ ReadNotice(n, Reader, read) /\ read.box
       /\ Made(254, read)
  /\ modal' = <<Waiting("read_box")>> \o modal
  /\ UNCHANGED <<dialog, window, m_Tray, m_NoticeList, m_Allbutton, NOTICE, copied>>

DismissReadBox ==
  /\ ~exited /\ posted = <<>> /\ OnTop("read_box")
  /\ \E call \in Calls(1) : OnBnClickedCheck1(m_Allbutton, NOTICE_CHECK, call) /\ Made(1, call)
  /\ UNCHANGED <<dialog, window, m_Tray, m_Allbutton, text, tables>>

\* Another such dialog marks a notice read.
OtherDialogReads ==
  /\ ~exited /\ posted = <<>> /\ OnTop("notices") /\ Len(modal) > 1
  /\ Head(modal).user \in Names
  /\ \E n \in ForUser(Head(modal).user) : \E read \in Calls(254) :
       ReadNotice(n, Head(modal).user, read) /\ Made(254, read)
  /\ UNCHANGED <<dialog, window, m_Tray, modal, notice, NOTICE, copied>>

\* The dialog's window and its controls are gone when it is closed.
Elsewhere ==
  /\ MainNext
  /\ IF IsOpen /\ modal' = <<>>
     THEN m_NoticeList' = {} /\ mark' = 0 /\ m_Allbutton' = FALSE /\ text' = 0
     ELSE UNCHANGED notice
  /\ UNCHANGED tables

Next ==
  \/ Elsewhere
  \/ \E to \in Users \cup {Everybody} : SendNotice(to)
  \/ OnInitDialog
  \/ ClickCheck1 \/ SelectByKey
  \/ \E n \in 0 .. MaxNotices : OnNMClickList1(n) \/ ReadNoticeFails(n)
  \/ DismissReadBox \/ OtherDialogReads

Spec == Init /\ [][Next]_vars

\* Every loop dispatches the messages posted to its thread; nobody has to click.
FairSpec == Spec /\ WF_vars(ShowWindowMessage /\ UNCHANGED <<notice, tables>>)

-----------------------------------------------------------------------------
(***************************************************************************)
(* Properties.                                                             *)
(***************************************************************************)

\* The type of the state, with that of the main dialog.
NoticeTypeOK ==
  /\ TypeOK
  /\ m_NoticeList \subseteq 1 .. MaxNotices
  /\ mark \in m_NoticeList \cup {0}
  /\ m_Allbutton \in BOOLEAN /\ text \in 0 .. MaxNotices
  /\ NOTICE \in Seq(Names \cup {Everybody}) /\ Len(NOTICE) <= MaxNotices
  /\ NOTICE_CHECK \subseteq (0 .. MaxNotices) \X Names
  /\ copied \in BOOLEAN

\* Only notices that were sent to a user can be marked as read by that user.  The mark
\* a click beside the rows makes is for a number that no notice has.
MarksAreOfOwnNotices ==
  \A check \in NOTICE_CHECK : check[1] = 0 \/ check[1] \in ForUser(check[2])

\* A notice leaves the list only when it is marked as read or when the list could not
\* be fetched: a failed ReadNotice, before or after which the list is deleted, loses
\* none.
UnreadStaysListed ==
  IsOpen /\ IsOpen' =>
    \A n \in m_NoticeList \ m_NoticeList' :
      <<n, Reader>> \in NOTICE_CHECK' \/ faults' > faults \/ leaked[1] = Slots

\* Where the servers share their tables, whenever the list changes and shows unread
\* notices only, none of them is marked as read: a click is enough to be rid of one.
ListChangesToUnread ==
  m_NoticeList' # m_NoticeList /\ ~m_Allbutton' /\ copied /\ IsOpen' =>
    \A n \in m_NoticeList' : <<n, Reader'>> \notin NOTICE_CHECK'

\* The list and the tables agree in both directions.
ListFollowsTables == [][UnreadStaysListed /\ ListChangesToUnread]_vars
=============================================================================
