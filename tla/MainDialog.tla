----------------------------- MODULE MainDialog -----------------------------
(***************************************************************************)
(* The main dialog, which is the login window, and the menu of its tray    *)
(* icon.  One thread runs them, but not one after the other: a menu, a     *)
(* modal dialog and a message box each dispatch messages while they wait,  *)
(* so handlers nest.  The variable modal is the stack of those that wait,  *)
(* innermost first.                                                        *)
(*                                                                         *)
(* A modal dialog and a message box disable the main dialog, but not the   *)
(* tray icon.  Windows serves posted messages before input, except that    *)
(* the tray icon's own messages are posted too.                            *)
(*                                                                         *)
(* The workers that a login starts and a logout stops are the subject of   *)
(* WatcherThreads, PacketFilter and UserNotice.                            *)
(***************************************************************************)
EXTENDS Naturals, Sequences, FiniteSets

CONSTANTS Users,
          NoUser,     \* the empty string: a login with an empty field
          Garbage,    \* what a bad cast reads as user name
          Known,      \* the users in the table SGdb.USER
          Blocked,    \* those whose BLACK_FLAG is Y
          Slots,      \* connections that each MySQL server accepts
          MaxModal,   \* bound: loops that wait, one more for a message box
          MaxFaults   \* bound: calls of the MySQL client that fail

ASSUME ConstantsAssumption ==
  /\ Blocked \subseteq Known /\ Known \subseteq Users
  /\ NoUser \notin Users /\ Garbage \notin Users /\ Garbage # NoUser
  /\ Slots \in Nat /\ MaxModal \in Nat /\ MaxFaults \in Nat

Names == Users \cup {NoUser}
Servers == {1, 254}    \* 192.168.0.1 and 192.168.0.254

Commands == {"DIALOG_SHOW", "APP_EXIT", "ABOUTBOX", "NOTICE", "NONE", "LOGOUT"}

VARIABLES
  \* CFAManagementDlg
  m_Loginbit,
  uid,
  posted,       \* WM_SHOWWINDOW messages under way: the window is to be shown
  exited,
  \* its window
  visible,
  hiddenPopup,  \* it was hidden by such a message
  \* m_Tray
  m_bExist,
  m_bHide,
  \* the loops that wait
  modal,
  \* the servers
  leaked,       \* leaked[s]: connections to s that will never be closed
  faults        \* faults so far

dialog == <<m_Loginbit, uid, posted, exited>>
window == <<visible, hiddenPopup>>
m_Tray == <<m_bExist, m_bHide>>
servers == <<leaked, faults>>
mainVars == <<dialog, window, m_Tray, modal, servers>>

(***************************************************************************)
(* What waits: a menu with its commands and what it says about the user    *)
(* (flag), a dialog, or the method of CDBConnector whose message box is    *)
(* up.  The dialog with the notices has a copy of the user's name; what it *)
(* shows is the subject of NoticeDialog, which extends this module.        *)
(***************************************************************************)
Flags == {"none", "blocked", "normal", "failed"}
Frame == [kind : {"menu", "about", "notices", "flag_box", "list_box", "read_box"},
          items : SUBSET Commands, flag : Flags, user : Names \cup {Garbage}]

Waiting(kind) == [kind |-> kind, items |-> {}, flag |-> "none", user |-> NoUser]

OnTop(kind) == modal # <<>> /\ Head(modal).kind = kind

\* The shell may refuse the icon, which nobody looks at.
AddTrayIcon == m_bExist \in BOOLEAN

MainInit ==
  /\ m_Loginbit = FALSE /\ uid = NoUser /\ posted = <<>> /\ exited = FALSE
  /\ visible = TRUE /\ hiddenPopup = FALSE
  /\ AddTrayIcon /\ m_bHide = TRUE
  /\ modal = <<>>
  /\ leaked = [s \in Servers |-> 0] /\ faults = 0

-----------------------------------------------------------------------------
(***************************************************************************)
(* The window.                                                             *)
(***************************************************************************)
PostShowWindow(show) == posted' = Append(posted, show)

\* The default handler of WM_SHOWWINDOW hides a popup window that is visible, and
\* shows one that was hidden this way.
ShowWindowMessage ==
  /\ ~exited /\ posted # <<>>
  /\ posted' = Tail(posted)
  /\ CASE ~Head(posted) /\ visible -> visible' = FALSE /\ hiddenPopup' = TRUE
       [] Head(posted) /\ ~visible /\ hiddenPopup -> visible' = TRUE /\ hiddenPopup' = FALSE
       [] OTHER -> UNCHANGED window
  /\ UNCHANGED <<m_Loginbit, uid, exited, m_Tray, modal, servers>>

\* A click or a key that reaches the main dialog.
Input == ~exited /\ modal = <<>> /\ posted = <<>> /\ visible

\* Mutation: the window stays where it is.
OnBnClickedOkStays(name) ==
  /\ Input
  /\ uid' = name
  /\ m_Loginbit' = TRUE
  /\ UNCHANGED <<posted, exited, window, m_Tray, modal, servers>>

\* The login, with the user name in the field.
OnBnClickedOk(name) ==
  /\ Input
  /\ uid' = name
  /\ m_Loginbit' = TRUE
  /\ PostShowWindow(FALSE)
  /\ UNCHANGED <<exited, window, m_Tray, modal, servers>>

\* The about box of the system menu.
OnSysCommand ==
  /\ Input
  /\ modal' = <<Waiting("about")>>
  /\ UNCHANGED <<dialog, window, m_Tray, servers>>

\* Mutation: a logout leaves the window hidden.
LoggedOutHidden ==
  /\ m_Loginbit' = FALSE
  /\ UNCHANGED posted

LoggedOut ==
  /\ m_Loginbit' = FALSE
  /\ PostShowWindow(TRUE)

\* Closing the dialog destroys its window: the process exits before DoModal returns.
OnDestroy ==
  /\ LoggedOut
  /\ exited' = TRUE

OnCancel ==
  /\ Input
  /\ OnDestroy
  /\ UNCHANGED <<uid, window, m_Tray, modal, servers>>

-----------------------------------------------------------------------------
(***************************************************************************)
(* The tray icon and its menu.                                             *)
(***************************************************************************)
(***************************************************************************)
(* How a call to server s ends: with or without an answer, with a          *)
(* connection that stays open or not, and with a message box or not: the   *)
(* error code is taken for the style of the box, and not every one is a    *)
(* style.  The code for too many connections is one.                       *)
(***************************************************************************)
Refused == [ok |-> FALSE, leak |-> 0, fault |-> 0, box |-> TRUE]
Faulty == [ok : {FALSE}, leak : {0, 1}, fault : {1}, box : BOOLEAN]

Calls(s) ==
  IF leaked[s] = Slots
  THEN {Refused}
  ELSE {[ok |-> TRUE, leak |-> 0, fault |-> 0, box |-> FALSE]}
         \cup {call \in Faulty : faults < MaxFaults}

Made(s, call) ==
  /\ leaked' = [leaked EXCEPT ![s] = @ + call.leak]
  /\ faults' = faults + call.fault

\* Mutation: the flag is compared with N.
BlackFlagInverted(u) == u \in Known \ Blocked

BlackFlag(u) == u \in Blocked

\* GetFlag returns from inside its loop when there is such a user, and false after an
\* error.
GetFlag(u) ==
  {[call EXCEPT !.leak = IF call.ok /\ u \in Known THEN 1 ELSE @] : call \in Calls(254)}

FlagOf(u, call) ==
  CASE ~call.ok -> "failed"
    [] call.ok /\ BlackFlag(u) -> "blocked"
    [] call.ok /\ ~BlackFlag(u) -> "normal"

\* The second half of MakePopupMenu, after the flag: it looks at m_Loginbit again.
Items(noticeItems) ==
  noticeItems
    \cup (IF m_Loginbit THEN {"LOGOUT"} ELSE {"DIALOG_SHOW"})
    \cup {"ABOUTBOX", "APP_EXIT"}

\* There is only one menu at a time: a second one is not shown.
TrackPopupMenu(below, noticeItems, flag) ==
  modal' = IF \E i \in 1 .. Len(below) : below[i].kind = "menu"
           THEN below
           ELSE <<[Waiting("menu") EXCEPT !.items = Items(noticeItems), !.flag = flag]>>
                  \o below

Clicked == ~exited /\ m_bExist /\ Len(modal) < MaxModal

MenuLoggedOut ==
  /\ Clicked /\ ~m_Loginbit
  /\ TrackPopupMenu(modal, {}, "none")
  /\ UNCHANGED <<dialog, window, m_Tray, servers>>

\* A message box of GetFlag is up in the middle of MakePopupMenu.
MenuLoggedIn ==
  /\ Clicked /\ m_Loginbit
  /\ \E call \in GetFlag(uid) :
       /\ Made(254, call)
       /\ IF call.box
          THEN modal' = <<Waiting("flag_box")>> \o modal
          ELSE TrackPopupMenu(modal, {"NOTICE", "NONE"}, FlagOf(uid, call))
  /\ UNCHANGED <<dialog, window, m_Tray>>

DismissFlagBox ==
  /\ ~exited /\ OnTop("flag_box")
  /\ TrackPopupMenu(Tail(modal), {"NOTICE", "NONE"}, "failed")
  /\ UNCHANGED <<dialog, window, m_Tray, servers>>

\* The menu goes away, with or without a command.
Choose(command) ==
  ~exited /\ posted = <<>> /\ OnTop("menu") /\ command \in Head(modal).items

MenuEnds ==
  /\ ~exited /\ OnTop("menu")
  /\ modal' = Tail(modal)
  /\ UNCHANGED <<dialog, window, m_Tray, servers>>

\* Mutation: the flag is set to what the window was.
OnDialogShowSwapped ==
  /\ Choose("DIALOG_SHOW")
  /\ visible' = ~m_bHide
  /\ hiddenPopup' = IF visible' THEN FALSE ELSE hiddenPopup
  /\ m_bHide' = m_bHide
  /\ modal' = Tail(modal)
  /\ UNCHANGED <<dialog, m_bExist, servers>>

\* m_bHide is TRUE while the dialog is shown.
OnDialogShow ==
  /\ Choose("DIALOG_SHOW")
  /\ visible' = ~m_bHide
  /\ hiddenPopup' = IF visible' THEN FALSE ELSE hiddenPopup
  /\ m_bHide' = ~m_bHide
  /\ modal' = Tail(modal)
  /\ UNCHANGED <<dialog, m_bExist, servers>>

OnCreatorInfo ==
  /\ Choose("ABOUTBOX")
  /\ modal' = <<Waiting("about")>> \o Tail(modal)
  /\ UNCHANGED <<dialog, window, m_Tray, servers>>

\* UserNoticeDlg has no parent given: its owner is the main dialog or, when another
\* window waits, perhaps that one, which the dialog takes for the main dialog.
\* The list is fetched when the dialog opens.
OnCreatorNotice(call) ==
  /\ Choose("NOTICE")
  /\ call \in Calls(1) /\ Made(1, call)
  /\ \E user \in {uid} \cup (IF Tail(modal) = <<>> THEN {} ELSE {Garbage}) :
       modal' = (IF call.box THEN <<Waiting("list_box")>> ELSE <<>>)
                  \o <<[Waiting("notices") EXCEPT !.user = user]>> \o Tail(modal)
  /\ UNCHANGED <<dialog, window, m_Tray>>

\* Mutation: the name goes with the user.
OnLOGOUTClears ==
  /\ Choose("LOGOUT")
  /\ LoggedOut
  /\ modal' = Tail(modal)
  /\ uid' = NoUser
  /\ UNCHANGED <<exited, window, m_Tray, servers>>

OnLOGOUT ==
  /\ Choose("LOGOUT")
  /\ LoggedOut
  /\ modal' = Tail(modal)
  /\ UNCHANGED <<uid, exited, window, m_Tray, servers>>

OnAppExit ==
  /\ Choose("APP_EXIT")
  /\ OnDestroy
  /\ modal' = Tail(modal)
  /\ UNCHANGED <<uid, window, m_Tray, servers>>

\* OK, Cancel or the close button of a dialog that waits, or of a message box after
\* which nothing is left to do.
CloseDialog ==
  /\ ~exited /\ posted = <<>> /\ modal # <<>>
  /\ Head(modal).kind \in {"about", "notices", "list_box"}
  /\ modal' = Tail(modal)
  /\ UNCHANGED <<dialog, window, m_Tray, servers>>

\* What happens beside the handlers of the dialog with the notices.
MainNext ==
  \/ ShowWindowMessage
  \/ \E name \in Names : OnBnClickedOk(name)
  \/ OnSysCommand \/ OnCancel
  \/ MenuLoggedOut \/ MenuLoggedIn \/ DismissFlagBox \/ MenuEnds
  \/ OnDialogShow \/ OnCreatorInfo \/ OnLOGOUT \/ OnAppExit
  \/ CloseDialog

-----------------------------------------------------------------------------
(***************************************************************************)
(* Properties.                                                             *)
(***************************************************************************)

\* The type of the state.
TypeOK ==
  /\ m_Loginbit \in BOOLEAN /\ uid \in Names /\ posted \in Seq(BOOLEAN) /\ exited \in BOOLEAN
  /\ visible \in BOOLEAN /\ hiddenPopup \in BOOLEAN
  /\ m_bExist \in BOOLEAN /\ m_bHide \in BOOLEAN
  /\ modal \in Seq(Frame) /\ Len(modal) <= MaxModal + 1
  /\ leaked \in [Servers -> 0 .. Slots] /\ faults \in 0 .. MaxFaults

\* Whoever is logged out can log in: when no message is under way, m_bHide tells the
\* truth about the login window, and a hidden one can be shown from the tray icon.
CanLogIn ==
  ~m_Loginbit /\ ~exited /\ posted = <<>> => visible = m_bHide /\ (visible \/ m_bExist)

\* Nobody logs in over somebody who is logged in, although OnBnClickedOk does not
\* look: the window is gone before the next click arrives.
LoginOnlyWhenLoggedOut ==
  [][(\E name \in Names : OnBnClickedOk(name)) => ~m_Loginbit]_mainVars

\* A dialog with notices, also one left open over a logout, is that of the user whose
\* name the main dialog has, unless it took another window for the main dialog.
NoticesOfTheUser ==
  \A i \in 1 .. Len(modal) :
    modal[i].kind = "notices" =>
      modal[i].user = uid \/ (modal[i].user = Garbage /\ i < Len(modal))

\* The menu tells a blocked user that use is not possible, and nobody else, unless
\* GetFlag failed; without a fault that takes all connections of the server, each
\* gone with an earlier menu.  The same goes for ReadNotice.
FlagIsRight ==
  \A i \in 1 .. Len(modal) :
    /\ modal[i].flag \in {"blocked", "normal"} => (modal[i].flag = "blocked" <=> uid \in Blocked)
    /\ modal[i].kind \in {"flag_box", "read_box"} \/ modal[i].flag = "failed" =>
         faults > 0 \/ leaked[254] = Slots

\* A logout brings the login window back, unless the user hides it.
LogoutShowsWindow ==
  ~m_Loginbit /\ m_bHide ~> (visible \/ m_Loginbit \/ ~m_bHide \/ exited)
=============================================================================
