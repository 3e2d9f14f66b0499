-------------------------- MODULE NoticeDialog_proofs --------------------------
(***************************************************************************)
(* The main dialog, its tray menu and the dialog with the notices: who can *)
(* log in, whose notices are shown and marked, what the menu says.         *)
(***************************************************************************)
EXTENDS NoticeDialog, SequenceTheorems, TLAPS

(***************************************************************************)
(* The loops that wait.  Places are counted from the innermost loop, which *)
(* is 1; the height of a loop is the number of loops up to it, counted     *)
(* from the main dialog.                                                   *)
(***************************************************************************)
\* A reason for a call to 192.168.0.254 to fail.
Strained == faults > 0 \/ leaked[254] = Slots

FlagFits(flag, who, strained) ==
  /\ flag \in {"blocked", "normal"} => (flag = "blocked" <=> who \in Blocked)
  /\ flag = "failed" => strained = TRUE

FrameOk(f, height, who, in, exist, strained) ==
  /\ f \in Frame
  /\ f.kind \in {"menu", "flag_box", "notices"} => height <= MaxModal
  /\ f.kind \in {"menu", "flag_box"} => exist = TRUE
  /\ f.kind = "menu" =>
       /\ "DIALOG_SHOW" \in f.items => in = FALSE
       /\ "LOGOUT" \in f.items => in = TRUE
  /\ f.kind = "notices" => f.user = who \/ (f.user = Garbage /\ height > 1)
  /\ FlagFits(f.flag, who, strained)
  /\ f.kind \in {"flag_box", "read_box"} => strained = TRUE

Stacked(m, who, in, exist, strained) ==
  /\ m \in Seq(Frame)
  /\ \A i \in 1 .. Len(m) : FrameOk(m[i], Len(m) + 1 - i, who, in, exist, strained)
  /\ \A i, j \in 1 .. Len(m) : m[i].kind = "menu" /\ m[j].kind = "menu" => i = j
  /\ \A i \in 1 .. Len(m) :
       m[i].kind = "read_box" => i + 1 = Len(m) /\ m[i + 1].kind = "notices"

ModalInv ==
  /\ Stacked(modal, uid, m_Loginbit, m_bExist, Strained)
  /\ Len(modal) <= MaxModal + 1

(***************************************************************************)
(* The login window.  A message under way is the one that the last login   *)
(* or logout posted, and the window is as that found it.                   *)
(***************************************************************************)
Window ==
  /\ m_Loginbit \in BOOLEAN /\ uid \in Names /\ exited \in BOOLEAN
  /\ visible \in BOOLEAN /\ hiddenPopup \in BOOLEAN
  /\ m_bExist \in BOOLEAN /\ m_bHide \in BOOLEAN
  /\ posted = <<>> \/ posted = <<m_Loginbit = FALSE>>
  /\ ~exited =>
       /\ m_Loginbit = TRUE /\ posted = <<>> => ~visible /\ hiddenPopup /\ m_bHide
       /\ m_Loginbit = TRUE /\ posted # <<>> => visible /\ m_bHide
       /\ m_Loginbit = FALSE /\ posted = <<>> => visible = m_bHide /\ (visible \/ m_bExist)
       /\ m_Loginbit = FALSE /\ posted # <<>> => ~visible /\ hiddenPopup /\ m_bHide

ServersInv ==
  leaked \in [Servers -> 0 .. Slots] /\ faults \in 0 .. MaxFaults

(***************************************************************************)
(* The notices: the list is one of the reader's notices.                   *)
(***************************************************************************)
NoticeInv ==
  /\ NOTICE \in Seq(Names \cup {Everybody}) /\ Len(NOTICE) <= MaxNotices
  /\ copied \in BOOLEAN /\ m_Allbutton \in BOOLEAN /\ text \in 0 .. MaxNotices
  /\ m_NoticeList \subseteq ForUser(uid)
  /\ mark \in m_NoticeList \cup {0}
  /\ ~IsOpen => m_NoticeList = {} /\ mark = 0
  /\ NOTICE_CHECK \subseteq (0 .. MaxNotices) \X Names
  /\ MarksAreOfOwnNotices

-----------------------------------------------------------------------------
(***************************************************************************)
(* The stack of loops.                                                     *)
(***************************************************************************)
LEMMA PushFacts ==
  ASSUME NEW m \in Seq(Frame), NEW f \in Frame
  PROVE  /\ <<f>> \o m \in Seq(Frame) /\ <<f>> \o m # <<>>
         /\ Len(m) \in Nat /\ Len(<<f>> \o m) = Len(m) + 1
         /\ (<<f>> \o m)[1] = f /\ Head(<<f>> \o m) = f
         /\ \A i \in 1 .. Len(m) : (<<f>> \o m)[i + 1] = m[i]
         /\ \A i \in 2 .. Len(m) + 1 : (<<f>> \o m)[i] = m[i - 1] /\ i - 1 \in 1 .. Len(m)
<1>1. <<f>> \in Seq(Frame) /\ Len(<<f>>) = 1 /\ <<f>>[1] = f
  OBVIOUS
<1>2. Len(m) \in Nat
  BY LenProperties
<1>3. /\ <<f>> \o m \in Seq(Frame) /\ Len(<<f>> \o m) = 1 + Len(m)
      /\ \A i \in 1 .. 1 + Len(m) :
           (<<f>> \o m)[i] = IF i <= 1 THEN <<f>>[i] ELSE m[i - 1]
  BY <1>1, ConcatProperties
<1>4. <<f>> \o m # <<>>
  BY <1>2, <1>3, EmptySeq
<1>5. Head(<<f>> \o m) = (<<f>> \o m)[1]
  BY <1>3, <1>4
<1> QED
  BY <1>1, <1>2, <1>3, <1>4, <1>5

LEMMA PopFacts ==
  ASSUME NEW m \in Seq(Frame), m # <<>>
  PROVE  /\ Tail(m) \in Seq(Frame) /\ Len(m) \in Nat /\ Len(m) >= 1
         /\ Len(Tail(m)) = Len(m) - 1
         /\ \A i \in 1 .. Len(m) - 1 : Tail(m)[i] = m[i + 1]
         /\ Head(m) = m[1] /\ Head(m) \in Frame
         /\ Tail(m) = <<>> <=> Len(m) = 1
<1>1. Len(m) \in Nat /\ Len(m) >= 1
  BY LenProperties, EmptySeq
<1>2. /\ Tail(m) \in Seq(Frame) /\ Len(Tail(m)) = Len(m) - 1 /\ Head(m) \in Frame
      /\ \A i \in 1 .. Len(Tail(m)) : Tail(m)[i] = m[i + 1]
  BY HeadTailProperties
<1>3. Tail(m) = <<>> <=> Len(Tail(m)) = 0
  BY <1>2, EmptySeq
<1> QED
  BY <1>1, <1>2, <1>3

LEMMA PushStacked ==
  ASSUME NEW m, NEW f \in Frame, NEW who, NEW in, NEW exist, NEW strained,
         Stacked(m, who, in, exist, strained),
         FrameOk(f, Len(m) + 1, who, in, exist, strained),
         f.kind = "menu" => \A i \in 1 .. Len(m) : m[i].kind # "menu",
         f.kind = "read_box" => Len(m) = 1 /\ m[1].kind = "notices"
  PROVE  Stacked(<<f>> \o m, who, in, exist, strained)
<1> DEFINE n == <<f>> \o m
<1>1. m \in Seq(Frame)
  BY DEF Stacked
<1>2. /\ n \in Seq(Frame) /\ Len(m) \in Nat /\ Len(n) = Len(m) + 1 /\ n[1] = f
      /\ \A i \in 1 .. Len(m) : n[i + 1] = m[i]
      /\ \A i \in 2 .. Len(m) + 1 : n[i] = m[i - 1] /\ i - 1 \in 1 .. Len(m)
  BY <1>1, PushFacts
<1> HIDE DEF n
<1>3. ASSUME NEW i \in 1 .. Len(n)
      PROVE  FrameOk(n[i], Len(n) + 1 - i, who, in, exist, strained)
  <2>1. CASE i = 1
    <3>1. Len(n) + 1 - i = Len(m) + 1 /\ n[i] = f
      BY <1>2, <2>1
    <3> QED
      BY <3>1
  <2>2. CASE i # 1
    <3>1. i \in 2 .. Len(m) + 1 /\ Len(n) + 1 - i = Len(m) + 1 - (i - 1)
      BY <1>2, <2>2
    <3>2. n[i] = m[i - 1] /\ i - 1 \in 1 .. Len(m)
      BY <1>2, <3>1
    <3>3. FrameOk(m[i - 1], Len(m) + 1 - (i - 1), who, in, exist, strained)
      BY <3>2 DEF Stacked
    <3> QED
      BY <3>1, <3>2, <3>3
  <2> QED
    BY <2>1, <2>2
<1>4. ASSUME NEW i \in 1 .. Len(n), NEW j \in 1 .. Len(n), n[i].kind = "menu", n[j].kind = "menu"
      PROVE  i = j
  <2>1. (i = 1 \/ i \in 2 .. Len(m) + 1) /\ (j = 1 \/ j \in 2 .. Len(m) + 1)
    BY <1>2
  <2>2. CASE i = 1 /\ j # 1
    BY <1>2, <1>4, <2>1, <2>2
  <2>3. CASE i # 1 /\ j = 1
    BY <1>2, <1>4, <2>1, <2>3
  <2>4. CASE i # 1 /\ j # 1
    <3>1. i - 1 = j - 1
      BY <1>2, <1>4, <2>1, <2>4 DEF Stacked
    <3> QED
      BY <3>1
  <2> QED
    BY <2>2, <2>3, <2>4
<1>5. ASSUME NEW i \in 1 .. Len(n), n[i].kind = "read_box"
      PROVE  i + 1 = Len(n) /\ n[i + 1].kind = "notices"
  <2>1. CASE i = 1
    BY <1>2, <1>5, <2>1
  <2>2. CASE i # 1
    <3>1. i \in 2 .. Len(m) + 1
      BY <1>2, <2>2
    <3>2. n[i] = m[i - 1] /\ i - 1 \in 1 .. Len(m)
      BY <1>2, <3>1
    <3>3. (i - 1) + 1 = Len(m) /\ m[(i - 1) + 1].kind = "notices"
      BY <1>5, <3>2 DEF Stacked
    <3> QED
      BY <1>2, <3>1, <3>3
  <2> QED
    BY <2>1, <2>2
<1>6. Stacked(n, who, in, exist, strained)
  BY <1>2, <1>3, <1>4, <1>5 DEF Stacked
<1> QED
  BY <1>6 DEF n

LEMMA PopStacked ==
  ASSUME NEW m, NEW who, NEW in, NEW exist, NEW strained,
         Stacked(m, who, in, exist, strained), m # <<>>
  PROVE  Stacked(Tail(m), who, in, exist, strained)
<1> DEFINE n == Tail(m)
<1>1. m \in Seq(Frame)
  BY DEF Stacked
<1>2. /\ n \in Seq(Frame) /\ Len(m) \in Nat /\ Len(n) = Len(m) - 1
      /\ \A i \in 1 .. Len(n) : n[i] = m[i + 1] /\ i + 1 \in 1 .. Len(m)
  BY <1>1, PopFacts
<1> HIDE DEF n
<1>3. ASSUME NEW i \in 1 .. Len(n)
      PROVE  FrameOk(n[i], Len(n) + 1 - i, who, in, exist, strained)
  <2>1. FrameOk(m[i + 1], Len(m) + 1 - (i + 1), who, in, exist, strained)
    BY <1>2 DEF Stacked
  <2>2. Len(m) + 1 - (i + 1) = Len(n) + 1 - i
    <3>1. Len(m) \in Nat /\ Len(n) = Len(m) - 1 /\ i \in Int
      BY <1>2
    <3> QED
      BY <3>1
  <2> QED
    BY <1>2, <2>1, <2>2
<1>4. ASSUME NEW i \in 1 .. Len(n), NEW j \in 1 .. Len(n), n[i].kind = "menu", n[j].kind = "menu"
      PROVE  i = j
  <2>1. i + 1 = j + 1
    BY <1>2, <1>4 DEF Stacked
  <2> QED
    BY <2>1
<1>5. ASSUME NEW i \in 1 .. Len(n), n[i].kind = "read_box"
      PROVE  i + 1 = Len(n) /\ n[i + 1].kind = "notices"
  <2>1. (i + 1) + 1 = Len(m) /\ m[(i + 1) + 1].kind = "notices"
    BY <1>2, <1>5 DEF Stacked
  <2> QED
    BY <1>2, <2>1
<1>6. Stacked(n, who, in, exist, strained)
  BY <1>2, <1>3, <1>4, <1>5 DEF Stacked
<1> QED
  BY <1>6 DEF n

\* A stack stays in order when strain comes, and without menus over a login or logout.
LEMMA StackLater ==
  ASSUME NEW m, NEW who, NEW in, NEW exist, NEW strained, NEW later, NEW strainedLater,
         Stacked(m, who, in, exist, strained),
         strained = TRUE => strainedLater = TRUE,
         later = in \/ \A i \in 1 .. Len(m) : m[i].kind # "menu"
  PROVE  Stacked(m, who, later, exist, strainedLater)
BY DEF Stacked, FrameOk, FlagFits

LEMMA EmptyStacked ==
  ASSUME NEW who, NEW in, NEW exist, NEW strained
  PROVE  Stacked(<<>>, who, in, exist, strained)
<1>1. <<>> \in Seq(Frame) /\ Len(<<>>) = 0
  BY EmptySeq
<1> QED
  BY <1>1 DEF Stacked

-----------------------------------------------------------------------------
(***************************************************************************)
(* The servers.                                                            *)
(***************************************************************************)
CallOk(s, call) ==
  /\ call.ok \in BOOLEAN /\ call.box \in BOOLEAN
  /\ call.leak \in {0, 1} /\ call.fault \in {0, 1}
  /\ call.ok = FALSE => call.fault = 1 \/ leaked[s] = Slots
  /\ call.fault = 1 => faults < MaxFaults
  /\ call.leak = 1 => leaked[s] # Slots
  /\ call.box = TRUE => call.ok = FALSE

\* How calls can end.
LEMMA CallCases ==
  ASSUME NEW s \in Servers, NEW call \in Calls(s)
  PROVE  \/ leaked[s] = Slots /\ call = [ok |-> FALSE, leak |-> 0, fault |-> 0, box |-> TRUE]
         \/ leaked[s] # Slots /\ call = [ok |-> TRUE, leak |-> 0, fault |-> 0, box |-> FALSE]
         \/ /\ leaked[s] # Slots /\ faults < MaxFaults
            /\ call \in [ok : {FALSE}, leak : {0, 1}, fault : {1}, box : BOOLEAN]
<1>1. CASE leaked[s] = Slots
  <2>1. Calls(s) = {Refused}
    BY <1>1 DEF Calls
  <2>2. call = Refused
    BY <2>1
  <2> QED
    BY <1>1, <2>2 DEF Refused
<1>2. CASE leaked[s] # Slots
  <2>1. Calls(s) = {[ok |-> TRUE, leak |-> 0, fault |-> 0, box |-> FALSE]}
                     \cup {c \in Faulty : faults < MaxFaults}
    BY <1>2 DEF Calls
  <2>2. \/ call = [ok |-> TRUE, leak |-> 0, fault |-> 0, box |-> FALSE]
        \/ call \in Faulty /\ faults < MaxFaults
    BY <2>1
  <2> QED
    BY <1>2, <2>2 DEF Faulty
<1> QED
  BY <1>1, <1>2

LEMMA CallFacts ==
  ASSUME NEW s \in Servers, NEW call \in Calls(s)
  PROVE  CallOk(s, call)
<1>1. CASE leaked[s] = Slots /\ call = [ok |-> FALSE, leak |-> 0, fault |-> 0, box |-> TRUE]
  BY <1>1 DEF CallOk
<1>2. CASE leaked[s] # Slots /\ call = [ok |-> TRUE, leak |-> 0, fault |-> 0, box |-> FALSE]
  BY <1>2 DEF CallOk
<1>3. CASE /\ leaked[s] # Slots /\ faults < MaxFaults
           /\ call \in [ok : {FALSE}, leak : {0, 1}, fault : {1}, box : BOOLEAN]
  BY <1>3 DEF CallOk
<1> QED
  BY <1>1, <1>2, <1>3, CallCases

LEMMA FlagCallFacts ==
  ASSUME NEW u, NEW call \in GetFlag(u)
  PROVE  CallOk(254, call)
<1>1. PICK c \in Calls(254) :
        call = [c EXCEPT !.leak = IF c.ok /\ u \in Known THEN 1 ELSE c.leak]
  BY DEF GetFlag
<1>2. CASE leaked[254] = Slots /\ c = [ok |-> FALSE, leak |-> 0, fault |-> 0, box |-> TRUE]
  BY <1>1, <1>2 DEF CallOk
<1>3. CASE leaked[254] # Slots /\ c = [ok |-> TRUE, leak |-> 0, fault |-> 0, box |-> FALSE]
  BY <1>1, <1>3 DEF CallOk
<1>4. CASE /\ leaked[254] # Slots /\ faults < MaxFaults
           /\ c \in [ok : {FALSE}, leak : {0, 1}, fault : {1}, box : BOOLEAN]
  <2>1. c.ok = FALSE /\ c.leak \in {0, 1} /\ c.fault = 1 /\ c.box \in BOOLEAN
    BY <1>4
  <2>2. call = [c EXCEPT !.leak = c.leak]
    BY <1>1, <2>1
  <2>3. /\ call.ok = FALSE /\ call.leak \in {0, 1} /\ call.fault = 1 /\ call.box \in BOOLEAN
    BY <1>4, <2>1, <2>2
  <2> QED
    BY <1>4, <2>3 DEF CallOk
<1>5. 254 \in Servers
  BY DEF Servers
<1>6. \/ leaked[254] = Slots /\ c = [ok |-> FALSE, leak |-> 0, fault |-> 0, box |-> TRUE]
      \/ leaked[254] # Slots /\ c = [ok |-> TRUE, leak |-> 0, fault |-> 0, box |-> FALSE]
      \/ /\ leaked[254] # Slots /\ faults < MaxFaults
         /\ c \in [ok : {FALSE}, leak : {0, 1}, fault : {1}, box : BOOLEAN]
  BY <1>5, CallCases
<1> QED
  BY <1>2, <1>3, <1>4, <1>6

LEMMA MadeFacts ==
  ASSUME ServersInv, NEW s \in Servers, NEW call, CallOk(s, call), Made(s, call)
  PROVE  /\ ServersInv'
         /\ Strained = TRUE => Strained' = TRUE
         /\ s = 254 /\ call.ok = FALSE => Strained' = TRUE
<1>1. 254 \in Servers /\ leaked[s] \in 0 .. Slots /\ leaked[254] \in 0 .. Slots
      /\ Slots \in Nat /\ MaxFaults \in Nat
  BY ConstantsAssumption DEF ServersInv, Servers, ConstantsAssumption
<1>2. /\ leaked' = [leaked EXCEPT ![s] = leaked[s] + call.leak]
      /\ faults' = faults + call.fault
      /\ call.leak \in {0, 1} /\ call.fault \in {0, 1}
      /\ leaked[s] + call.leak \in 0 .. Slots /\ faults + call.fault \in 0 .. MaxFaults
  BY <1>1 DEF Made, CallOk, ServersInv
<1>3. ServersInv'
  BY <1>2 DEF ServersInv
<1>4. leaked[254] = Slots => leaked'[254] = Slots
  BY <1>1, <1>2 DEF CallOk, ServersInv
<1>5. faults > 0 => faults' > 0
  BY <1>2 DEF ServersInv
<1>6. call.ok = FALSE => call.fault = 1 \/ leaked[s] = Slots
  BY DEF CallOk
<1>7. call.fault = 1 => faults' > 0
  BY <1>2 DEF ServersInv
<1> QED
  BY <1>3, <1>4, <1>5, <1>6, <1>7 DEF Strained

\* The steps of the main dialog, but for the query of the tray menu, call no server.
LEMMA MainServers == MainNext => MenuLoggedIn \/ UNCHANGED servers
BY DEF MainNext, ShowWindowMessage, OnBnClickedOk, OnSysCommand, OnCancel, MenuLoggedOut,
       DismissFlagBox, MenuEnds, OnDialogShow, OnCreatorInfo, OnLOGOUT, OnAppExit, CloseDialog

LEMMA NextServers ==
  ServersInv /\ [Next]_vars => ServersInv' /\ (Strained = TRUE => Strained' = TRUE)
<1> SUFFICES ASSUME ServersInv, [Next]_vars
             PROVE  ServersInv' /\ (Strained = TRUE => Strained' = TRUE)
  OBVIOUS
<1>1. 1 \in Servers /\ 254 \in Servers
  BY DEF Servers
<1>2. CASE UNCHANGED servers
  BY <1>2 DEF servers, ServersInv, Strained
<1>3. ASSUME NEW s \in Servers, NEW call \in Calls(s), Made(s, call)
      PROVE  ServersInv' /\ (Strained = TRUE => Strained' = TRUE)
  BY <1>3, CallFacts, MadeFacts
<1>4. CASE MenuLoggedIn
  <2>1. PICK call \in GetFlag(uid) : Made(254, call)
    BY <1>4 DEF MenuLoggedIn
  <2> QED
    BY <1>1, <2>1, FlagCallFacts, MadeFacts
<1>5. ASSUME NEW n \in 0 .. MaxNotices, OnNMClickList1(n)
      PROVE  ServersInv' /\ (Strained = TRUE => Strained' = TRUE)
  <2>1. PICK read \in Calls(254), list \in Calls(1) :
          /\ ReadNotice(n, Reader, read) /\ ~read.box
          /\ faults' = faults + read.fault + list.fault /\ faults' <= MaxFaults
          /\ leaked' = [leaked EXCEPT ![254] = @ + read.leak, ![1] = @ + list.leak]
          /\ OnBnClickedCheck1(m_Allbutton, NOTICE_CHECK', list)
    BY <1>5, Zenon DEF OnNMClickList1
  <2>2. CallOk(254, read) /\ CallOk(1, list)
    BY <1>1, CallFacts
  <2>3. /\ read.fault \in {0, 1} /\ list.fault \in {0, 1}
        /\ read.leak \in {0, 1} /\ list.leak \in {0, 1}
        /\ read.leak = 1 => leaked[254] # Slots
        /\ list.leak = 1 => leaked[1] # Slots
    BY <2>2 DEF CallOk
  <2>4. leaked[1] \in 0 .. Slots /\ leaked[254] \in 0 .. Slots /\ Slots \in Nat
    BY <1>1, ConstantsAssumption DEF ServersInv, ConstantsAssumption
  <2>5. leaked[1] + list.leak \in 0 .. Slots /\ leaked[254] + read.leak \in 0 .. Slots
    BY <2>3, <2>4
  <2>6. leaked' = [leaked EXCEPT ![254] = leaked[254] + read.leak, ![1] = leaked[1] + list.leak]
    BY <2>1, <1>1 DEF ServersInv
  <2>7. leaked' \in [Servers -> 0 .. Slots] /\ leaked'[254] = leaked[254] + read.leak
    BY <2>5, <2>6, <1>1 DEF ServersInv
  <2>8. faults' \in 0 .. MaxFaults /\ (faults > 0 => faults' > 0)
    BY <2>1, <2>3, ConstantsAssumption DEF ServersInv, ConstantsAssumption
  <2> QED
    BY <2>3, <2>4, <2>7, <2>8 DEF ServersInv, Strained
<1>6. CASE OnInitDialog
  BY <1>1, <1>3, <1>6 DEF OnInitDialog, OnCreatorNotice
<1>7. CASE ClickCheck1 \/ DismissReadBox
  BY <1>1, <1>3, <1>7 DEF ClickCheck1, DismissReadBox
<1>8. ASSUME NEW n \in 0 .. MaxNotices, ReadNoticeFails(n)
      PROVE  ServersInv' /\ (Strained = TRUE => Strained' = TRUE)
  BY <1>1, <1>3, <1>8 DEF ReadNoticeFails
<1>9. CASE OtherDialogReads
  BY <1>1, <1>3, <1>9 DEF OtherDialogReads
<1>10. CASE Elsewhere
  BY <1>2, <1>4, <1>10, MainServers DEF Elsewhere
<1>11. CASE UNCHANGED mainVars
  BY <1>2, <1>11 DEF mainVars
<1> QED
  BY <1>5, <1>6, <1>7, <1>8, <1>9, <1>10, <1>11 DEF Next, vars, SendNotice, SelectByKey

-----------------------------------------------------------------------------
(***************************************************************************)
(* Frames that are pushed.                                                 *)
(***************************************************************************)
LEMMA Waitings ==
  ASSUME NEW kind \in {"menu", "about", "notices", "flag_box", "list_box", "read_box"}
  PROVE  /\ Waiting(kind) \in Frame /\ Waiting(kind).kind = kind
         /\ Waiting(kind).flag = "none" /\ Waiting(kind).items = {}
BY DEF Waiting, Frame, Flags, Names

NoticeItems == {{}, {"NOTICE", "NONE"}}

LEMMA MenuItems ==
  ASSUME m_Loginbit \in BOOLEAN, NEW noticeItems \in NoticeItems
  PROVE  /\ Items(noticeItems) \in SUBSET Commands
         /\ "DIALOG_SHOW" \in Items(noticeItems) => m_Loginbit = FALSE
         /\ "LOGOUT" \in Items(noticeItems) => m_Loginbit = TRUE
BY DEF Items, Commands, NoticeItems

LEMMA MenuFrame ==
  ASSUME NEW items \in SUBSET Commands, NEW flag \in Flags
  PROVE  LET f == [Waiting("menu") EXCEPT !.items = items, !.flag = flag]
         IN  f \in Frame /\ f.kind = "menu" /\ f.items = items /\ f.flag = flag
BY DEF Waiting, Frame, Names

LEMMA NoticesFrame ==
  ASSUME NEW user \in Names \cup {Garbage}
  PROVE  LET f == [Waiting("notices") EXCEPT !.user = user]
         IN  f \in Frame /\ f.kind = "notices" /\ f.user = user /\ f.flag = "none"
BY DEF Waiting, Frame, Flags

LEMMA TopOk ==
  ASSUME NEW m, NEW who, NEW in, NEW exist, NEW strained,
         Stacked(m, who, in, exist, strained), m # <<>>
  PROVE  /\ Len(m) \in Nat /\ Len(m) >= 1 /\ Head(m) = m[1]
         /\ FrameOk(Head(m), Len(m), who, in, exist, strained)
<1>1. Len(m) \in Nat /\ Len(m) >= 1 /\ Head(m) = m[1]
  BY PopFacts DEF Stacked
<1>2. FrameOk(m[1], Len(m) + 1 - 1, who, in, exist, strained)
  BY <1>1 DEF Stacked
<1>3. Len(m) + 1 - 1 = Len(m)
  BY <1>1
<1> QED
  BY <1>1, <1>2, <1>3

LEMMA NoMenuBelow ==
  ASSUME NEW m, NEW who, NEW in, NEW exist, NEW strained,
         Stacked(m, who, in, exist, strained), m # <<>>, Head(m).kind = "menu"
  PROVE  \A i \in 1 .. Len(Tail(m)) : Tail(m)[i].kind # "menu"
<1>1. /\ Len(m) \in Nat /\ Len(m) >= 1 /\ Head(m) = m[1] /\ Len(Tail(m)) = Len(m) - 1
      /\ \A i \in 1 .. Len(m) - 1 : Tail(m)[i] = m[i + 1]
  BY PopFacts DEF Stacked
<1>2. SUFFICES ASSUME NEW i \in 1 .. Len(Tail(m)), Tail(m)[i].kind = "menu" PROVE FALSE
  OBVIOUS
<1>3. i + 1 \in 1 .. Len(m) /\ 1 \in 1 .. Len(m) /\ m[i + 1].kind = "menu" /\ m[1].kind = "menu"
  BY <1>1, <1>2
<1>4. i + 1 = 1
  BY <1>3 DEF Stacked
<1> QED
  BY <1>1, <1>4

\* A menu over a stack.
Trackable(below, noticeItems, flag, who, in, exist, strained) ==
  /\ noticeItems \in NoticeItems /\ flag \in Flags /\ in \in BOOLEAN /\ exist = TRUE
  /\ Stacked(below, who, in, exist, strained) /\ Len(below) < MaxModal
  /\ FlagFits(flag, who, strained)

LEMMA TrackStacked ==
  ASSUME NEW below, NEW noticeItems, NEW flag, NEW strained,
         Trackable(below, noticeItems, flag, uid, m_Loginbit, m_bExist, strained),
         TrackPopupMenu(below, noticeItems, flag)
  PROVE  Stacked(modal', uid, m_Loginbit, m_bExist, strained) /\ Len(modal') <= Len(below) + 1
<1>0. /\ noticeItems \in NoticeItems /\ flag \in Flags
      /\ m_Loginbit \in BOOLEAN /\ m_bExist = TRUE
      /\ Stacked(below, uid, m_Loginbit, m_bExist, strained) /\ Len(below) < MaxModal
      /\ FlagFits(flag, uid, strained)
  BY DEF Trackable
<1> DEFINE f == [Waiting("menu") EXCEPT !.items = Items(noticeItems), !.flag = flag]
<1>1. /\ f \in Frame /\ f.kind = "menu" /\ f.items = Items(noticeItems) /\ f.flag = flag
  BY <1>0, MenuItems, MenuFrame
<1>2. below \in Seq(Frame) /\ Len(below) \in Nat
  BY <1>0, LenProperties DEF Stacked
<1>3. CASE \E i \in 1 .. Len(below) : below[i].kind = "menu"
  <2>1. modal' = below
    BY <1>3 DEF TrackPopupMenu
  <2>2. Stacked(modal', uid, m_Loginbit, m_bExist, strained)
    BY <1>0, <2>1
  <2>3. Len(modal') <= Len(below) + 1
    BY <1>2, <2>1
  <2> QED
    BY <2>2, <2>3
<1>4. CASE ~\E i \in 1 .. Len(below) : below[i].kind = "menu"
  <2>1. modal' = <<f>> \o below
    BY <1>4 DEF TrackPopupMenu
  <2> HIDE DEF f
  <2>2. FrameOk(f, Len(below) + 1, uid, m_Loginbit, m_bExist, strained)
    <3>1. Len(below) + 1 <= MaxModal
      BY <1>0, <1>2, ConstantsAssumption DEF ConstantsAssumption
    <3>2. /\ "DIALOG_SHOW" \in f.items => m_Loginbit = FALSE
          /\ "LOGOUT" \in f.items => m_Loginbit = TRUE
      BY <1>0, <1>1, MenuItems
    <3> QED
      BY <1>0, <1>1, <3>1, <3>2 DEF FrameOk
  <2>3. Stacked(<<f>> \o below, uid, m_Loginbit, m_bExist, strained)
    BY <1>0, <1>1, <1>4, <2>2, PushStacked
  <2>4. Len(<<f>> \o below) = Len(below) + 1
    BY <1>1, <1>2, PushFacts
  <2>5. Stacked(modal', uid, m_Loginbit, m_bExist, strained)
    BY <2>1, <2>3
  <2>6. Len(modal') <= Len(below) + 1
    BY <1>2, <2>1, <2>4
  <2> QED
    BY <2>5, <2>6
<1> QED
  BY <1>3, <1>4

\* A box or an about box over a stack.
LEMMA BoxStacked ==
  ASSUME NEW m, NEW kind \in {"about", "flag_box", "list_box", "read_box"}, NEW strained,
         Stacked(m, uid, m_Loginbit, m_bExist, strained),
         kind = "flag_box" => Len(m) < MaxModal /\ m_bExist = TRUE,
         kind \in {"flag_box", "read_box"} => strained = TRUE,
         kind = "read_box" => Len(m) = 1 /\ m[1].kind = "notices"
  PROVE  /\ Stacked(<<Waiting(kind)>> \o m, uid, m_Loginbit, m_bExist, strained)
         /\ Len(<<Waiting(kind)>> \o m) = Len(m) + 1
<1> DEFINE f == Waiting(kind)
<1>1. f \in Frame /\ f.kind = kind /\ f.flag = "none" /\ f.items = {}
  BY Waitings
<1> HIDE DEF f
<1>2. m \in Seq(Frame) /\ Len(m) \in Nat
  BY LenProperties DEF Stacked
<1>3. kind = "flag_box" => Len(m) + 1 <= MaxModal
  BY <1>2, ConstantsAssumption DEF ConstantsAssumption
<1>4. FrameOk(f, Len(m) + 1, uid, m_Loginbit, m_bExist, strained)
  BY <1>1, <1>3 DEF FrameOk, FlagFits
<1>5. Stacked(<<f>> \o m, uid, m_Loginbit, m_bExist, strained)
  BY <1>1, <1>4, PushStacked
<1>6. Len(<<f>> \o m) = Len(m) + 1
  BY <1>1, <1>2, PushFacts
<1> QED
  BY <1>5, <1>6 DEF f

-----------------------------------------------------------------------------
(***************************************************************************)
(* Every step leaves the stack in order.                                   *)
(***************************************************************************)
LEMMA Settle ==
  ASSUME UNCHANGED <<uid, m_bExist>>, NEW strained, strained = TRUE => Strained' = TRUE,
         \/ m_Loginbit' = m_Loginbit
         \/ \A i \in 1 .. Len(modal') : modal'[i].kind # "menu",
         Stacked(modal', uid, m_Loginbit, m_bExist, strained), Len(modal') <= MaxModal + 1
  PROVE  ModalInv'
<1>1. Stacked(modal', uid, m_Loginbit', m_bExist, Strained')
  BY StackLater
<1> QED
  BY <1>1 DEF ModalInv

\* Steps that only take the innermost loop away.
LEMMA PopModal ==
  ASSUME ModalInv, modal # <<>>, modal' = Tail(modal), UNCHANGED <<uid, m_bExist>>,
         Strained = TRUE => Strained' = TRUE,
         m_Loginbit' = m_Loginbit \/ OnTop("menu")
  PROVE  ModalInv'
<1>1. Stacked(modal, uid, m_Loginbit, m_bExist, Strained)
  BY DEF ModalInv
<1>2. Stacked(Tail(modal), uid, m_Loginbit, m_bExist, Strained)
  BY <1>1, PopStacked
<1>3. Len(modal) \in Nat /\ Len(Tail(modal)) = Len(modal) - 1
  BY <1>1, PopFacts DEF Stacked
<1>4. Len(modal') <= MaxModal + 1
  BY <1>3, ConstantsAssumption DEF ModalInv, ConstantsAssumption
<1>5. m_Loginbit' = m_Loginbit \/ \A i \in 1 .. Len(modal') : modal'[i].kind # "menu"
  BY <1>1, NoMenuBelow DEF OnTop
<1>6. Stacked(modal', uid, m_Loginbit, m_bExist, Strained)
  BY <1>2
<1> QED
  BY <1>4, <1>5, <1>6, Settle

LEMMA ModalFrame ==
  ASSUME ModalInv, UNCHANGED <<modal, uid, m_Loginbit, m_bExist>>,
         Strained = TRUE => Strained' = TRUE
  PROVE  ModalInv'
<1>1. Stacked(modal', uid, m_Loginbit, m_bExist, Strained) /\ Len(modal') <= MaxModal + 1
  BY DEF ModalInv
<1> QED
  BY <1>1, Settle

LEMMA NoModal ==
  ASSUME modal' = <<>>
  PROVE  ModalInv'
<1>1. Len(<<>>) <= MaxModal + 1
  BY ConstantsAssumption, EmptySeq DEF ConstantsAssumption
<1>2. Stacked(<<>>, uid', m_Loginbit', m_bExist', Strained')
  BY EmptyStacked
<1> QED
  BY <1>1, <1>2 DEF ModalInv

LEMMA MenuModal ==
  ASSUME ModalInv, Window, ServersInv, MenuLoggedOut \/ MenuLoggedIn \/ DismissFlagBox,
         Strained = TRUE => Strained' = TRUE
  PROVE  ModalInv'
<1> USE DEF dialog, window, m_Tray, servers
<1>1. /\ Stacked(modal, uid, m_Loginbit, m_bExist, Strained) /\ Len(modal) \in Nat
      /\ m_Loginbit \in BOOLEAN /\ m_bExist \in BOOLEAN /\ MaxModal \in Nat
  BY LenProperties, ConstantsAssumption DEF ModalInv, Stacked, Window, ConstantsAssumption
<1>2. UNCHANGED <<uid, m_bExist, m_Loginbit>>
  BY DEF MenuLoggedOut, MenuLoggedIn, DismissFlagBox
<1>3. CASE MenuLoggedOut
  <2>1. m_bExist = TRUE /\ Len(modal) < MaxModal /\ TrackPopupMenu(modal, {}, "none")
    BY <1>1, <1>3 DEF MenuLoggedOut, Clicked
  <2> DEFINE items == {} flag == "none"
  <2>5. /\ Trackable(modal, items, flag, uid, m_Loginbit, m_bExist, Strained)
        /\ TrackPopupMenu(modal, items, flag)
    BY <1>1, <2>1 DEF Trackable, Flags, FlagFits, NoticeItems
  <2> HIDE DEF items, flag
  <2>2. Stacked(modal', uid, m_Loginbit, m_bExist, Strained) /\ Len(modal') <= Len(modal) + 1
    BY <2>5, TrackStacked
  <2>3. Len(modal') \in Nat
    BY <2>2, LenProperties DEF Stacked
  <2>4. Len(modal') <= MaxModal + 1
    BY <1>1, <2>1, <2>2, <2>3
  <2> QED
    BY <1>2, <2>2, <2>4, Settle
<1>4. CASE MenuLoggedIn
  <2>1. m_bExist = TRUE /\ Len(modal) < MaxModal
    BY <1>1, <1>4 DEF MenuLoggedIn, Clicked
  <2>2. PICK call \in GetFlag(uid) :
          /\ Made(254, call)
          /\ IF call.box
             THEN modal' = <<Waiting("flag_box")>> \o modal
             ELSE TrackPopupMenu(modal, {"NOTICE", "NONE"}, FlagOf(uid, call))
    BY <1>4 DEF MenuLoggedIn
  <2>3. CallOk(254, call)
    BY FlagCallFacts
  <2>4. call.ok = FALSE => Strained' = TRUE
    BY <2>2, <2>3, MadeFacts DEF Servers
  <2>5. Stacked(modal, uid, m_Loginbit, m_bExist, Strained')
    BY <1>1, StackLater
  <2>6. /\ Stacked(modal', uid, m_Loginbit, m_bExist, Strained')
        /\ Len(modal') <= Len(modal) + 1
    <3>1. CASE call.box = TRUE
      <4>1. call.ok = FALSE
        BY <2>3, <3>1 DEF CallOk
      <4>2. Strained' = TRUE
        BY <2>4, <4>1
      <4>3. modal' = <<Waiting("flag_box")>> \o modal
        BY <2>2, <3>1
      <4>4. /\ Stacked(<<Waiting("flag_box")>> \o modal, uid, m_Loginbit, m_bExist, Strained')
            /\ Len(<<Waiting("flag_box")>> \o modal) = Len(modal) + 1
        BY <2>1, <2>5, <4>2, BoxStacked
      <4>5. Stacked(modal', uid, m_Loginbit, m_bExist, Strained')
        BY <4>3, <4>4
      <4>6. Len(modal') <= Len(modal) + 1
        BY <1>1, <4>3, <4>4
      <4> QED
        BY <4>5, <4>6
    <3>2. CASE call.box = FALSE
      <4>1. TrackPopupMenu(modal, {"NOTICE", "NONE"}, FlagOf(uid, call))
        BY <2>2, <3>2
      <4>2. /\ FlagOf(uid, call) \in Flags
            /\ FlagOf(uid, call) \in {"blocked", "normal"} =>
                 (FlagOf(uid, call) = "blocked" <=> uid \in Blocked)
            /\ FlagOf(uid, call) = "failed" => call.ok = FALSE
        BY <2>3 DEF FlagOf, Flags, BlackFlag, CallOk
      <4>3. FlagOf(uid, call) = "failed" => Strained' = TRUE
        BY <2>4, <4>2
      <4> DEFINE items == {"NOTICE", "NONE"} flag == FlagOf(uid, call)
      <4>4. TrackPopupMenu(modal, items, flag)
        BY <4>1
      <4>5. Trackable(modal, items, flag, uid, m_Loginbit, m_bExist, Strained')
        BY <1>1, <2>1, <2>5, <4>2, <4>3 DEF Trackable, FlagFits, NoticeItems
      <4> HIDE DEF items, flag
      <4> QED
        BY <4>4, <4>5, TrackStacked
    <3> QED
      BY <2>3, <3>1, <3>2 DEF CallOk
  <2>7. Len(modal') \in Nat
    BY <2>6, LenProperties DEF Stacked
  <2>8. Len(modal') <= MaxModal + 1
    BY <1>1, <2>1, <2>6, <2>7
  <2> QED
    BY <1>2, <2>6, <2>8, Settle
<1>5. CASE DismissFlagBox
  <2>1. /\ modal # <<>> /\ Head(modal).kind = "flag_box"
        /\ TrackPopupMenu(Tail(modal), {"NOTICE", "NONE"}, "failed")
    BY <1>5 DEF DismissFlagBox, OnTop
  <2>2. FrameOk(Head(modal), Len(modal), uid, m_Loginbit, m_bExist, Strained)
    BY <1>1, <2>1, TopOk
  <2>3. m_bExist = TRUE /\ Len(modal) <= MaxModal /\ Strained = TRUE
    BY <2>1, <2>2 DEF FrameOk
  <2>4. Stacked(Tail(modal), uid, m_Loginbit, m_bExist, Strained)
    BY <1>1, <2>1, PopStacked
  <2>5. Len(Tail(modal)) = Len(modal) - 1
    BY <1>1, <2>1, PopFacts DEF Stacked
  <2>6. Len(Tail(modal)) < MaxModal
    BY <1>1, <2>3, <2>5
  <2> DEFINE items == {"NOTICE", "NONE"} flag == "failed"
  <2>10. /\ Trackable(Tail(modal), items, flag, uid, m_Loginbit, m_bExist, Strained)
         /\ TrackPopupMenu(Tail(modal), items, flag)
    BY <1>1, <2>1, <2>3, <2>4, <2>6 DEF Trackable, Flags, FlagFits, NoticeItems
  <2> HIDE DEF items, flag
  <2>7. Stacked(modal', uid, m_Loginbit, m_bExist, Strained) /\ Len(modal') <= Len(Tail(modal)) + 1
    BY <2>10, TrackStacked
  <2>8. Len(modal') \in Nat
    BY <2>7, LenProperties DEF Stacked
  <2>9. Len(modal') <= MaxModal + 1
    BY <1>1, <2>3, <2>5, <2>7, <2>8
  <2> QED
    BY <1>2, <2>7, <2>9, Settle
<1> QED
  BY <1>3, <1>4, <1>5

LEMMA MainModal ==
  ASSUME ModalInv, Window, ServersInv, MainNext, Strained = TRUE => Strained' = TRUE
  PROVE  ModalInv'
<1> USE DEF dialog, window, m_Tray
<1>1. CASE ShowWindowMessage
  BY <1>1, ModalFrame DEF ShowWindowMessage
<1>2. CASE (\E name \in Names : OnBnClickedOk(name)) \/ OnCancel
  BY <1>2, NoModal DEF OnBnClickedOk, OnCancel, Input
<1>3. CASE OnSysCommand
  <2>1. modal' = <<Waiting("about")>> /\ UNCHANGED <<uid, m_bExist, m_Loginbit>>
    BY <1>3 DEF OnSysCommand
  <2>2. Waiting("about") \in Frame
    BY Waitings
  <2>3. <<Waiting("about")>> \o <<>> = <<Waiting("about")>>
    BY <2>2, ConcatEmptySeq
  <2>4. Stacked(<<>>, uid, m_Loginbit, m_bExist, Strained) /\ Len(<<>>) = 0
    BY EmptyStacked, EmptySeq
  <2>5. /\ Stacked(<<Waiting("about")>> \o <<>>, uid, m_Loginbit, m_bExist, Strained)
        /\ Len(<<Waiting("about")>> \o <<>>) = Len(<<>>) + 1
    BY <2>4, BoxStacked
  <2>6. Len(modal') <= MaxModal + 1
    BY <2>1, <2>3, <2>4, <2>5, ConstantsAssumption DEF ConstantsAssumption
  <2>7. Stacked(modal', uid, m_Loginbit, m_bExist, Strained)
    BY <2>1, <2>3, <2>5
  <2> QED
    BY <2>1, <2>6, <2>7, Settle
<1>4. CASE MenuEnds \/ OnDialogShow \/ OnLOGOUT \/ OnAppExit
  BY <1>4, PopModal DEF MenuEnds, OnDialogShow, OnLOGOUT, OnAppExit, Choose, OnTop, OnDestroy,
                        LoggedOut
<1>5. CASE CloseDialog
  BY <1>5, PopModal DEF CloseDialog
<1>6. CASE OnCreatorInfo
  <2>1. /\ modal # <<>> /\ modal' = <<Waiting("about")>> \o Tail(modal)
        /\ UNCHANGED <<uid, m_bExist, m_Loginbit>>
    BY <1>6 DEF OnCreatorInfo, Choose, OnTop
  <2>2. Stacked(modal, uid, m_Loginbit, m_bExist, Strained) /\ Len(modal) <= MaxModal + 1
    BY DEF ModalInv
  <2>3. Stacked(Tail(modal), uid, m_Loginbit, m_bExist, Strained)
    BY <2>1, <2>2, PopStacked
  <2>4. Len(modal) \in Nat /\ Len(Tail(modal)) = Len(modal) - 1
    BY <2>1, <2>2, PopFacts DEF Stacked
  <2>5. /\ Stacked(<<Waiting("about")>> \o Tail(modal), uid, m_Loginbit, m_bExist, Strained)
        /\ Len(<<Waiting("about")>> \o Tail(modal)) = Len(Tail(modal)) + 1
    BY <2>3, BoxStacked
  <2>6. Len(modal') <= MaxModal + 1
    BY <2>1, <2>2, <2>4, <2>5
  <2>7. Stacked(modal', uid, m_Loginbit, m_bExist, Strained)
    BY <2>1, <2>5
  <2> QED
    BY <2>1, <2>6, <2>7, Settle
<1> QED
  BY <1>1, <1>2, <1>3, <1>4, <1>5, <1>6, MenuModal DEF MainNext

LEMMA NoticesPushed ==
  ASSUME ModalInv, Window, ServersInv, NEW call, OnCreatorNotice(call),
         Strained = TRUE => Strained' = TRUE
  PROVE  ModalInv'
<1>1. PICK user \in {uid} \cup (IF Tail(modal) = <<>> THEN {} ELSE {Garbage}) :
        modal' = (IF call.box THEN <<Waiting("list_box")>> ELSE <<>>)
                   \o <<[Waiting("notices") EXCEPT !.user = user]>> \o Tail(modal)
  BY DEF OnCreatorNotice
<1>2. /\ modal # <<>> /\ Head(modal).kind = "menu"
      /\ UNCHANGED <<uid, m_Loginbit, m_bExist>> /\ CallOk(1, call)
  BY CallFacts DEF OnCreatorNotice, Choose, OnTop, dialog, m_Tray, Servers
<1> DEFINE f == [Waiting("notices") EXCEPT !.user = user]
<1>3. /\ f \in Frame /\ f.kind = "notices" /\ f.user = user /\ f.flag = "none"
  <2>1. user \in Names \cup {Garbage}
    BY <1>1 DEF Window
  <2> QED
    BY <2>1, NoticesFrame
<1>4. /\ modal' = <<f>> \o Tail(modal)
      \/ modal' = (<<Waiting("list_box")>> \o <<f>>) \o Tail(modal)
  <2>1. <<f>> \in Seq(Frame)
    BY <1>3
  <2>2. <<>> \o <<f>> = <<f>>
    BY <2>1, ConcatEmptySeq
  <2> QED
    BY <1>1, <1>2, <2>2 DEF CallOk
<1> HIDE DEF f
<1>5. /\ Stacked(modal, uid, m_Loginbit, m_bExist, Strained)
      /\ Len(modal) \in Nat /\ Len(modal) >= 1 /\ MaxModal \in Nat
      /\ FrameOk(Head(modal), Len(modal), uid, m_Loginbit, m_bExist, Strained)
  BY <1>2, TopOk, ConstantsAssumption DEF ModalInv, ConstantsAssumption
<1>6. Len(modal) <= MaxModal
  BY <1>2, <1>5 DEF FrameOk
<1>7. /\ Stacked(Tail(modal), uid, m_Loginbit, m_bExist, Strained)
      /\ Tail(modal) \in Seq(Frame) /\ Len(Tail(modal)) = Len(modal) - 1
      /\ Tail(modal) = <<>> <=> Len(modal) = 1
  BY <1>2, <1>5, PopStacked, PopFacts DEF Stacked
<1>8. FrameOk(f, Len(Tail(modal)) + 1, uid, m_Loginbit, m_bExist, Strained)
  <2>1. Len(Tail(modal)) + 1 = Len(modal)
    BY <1>5, <1>7
  <2>2. f.user = uid \/ (f.user = Garbage /\ Len(modal) > 1)
    BY <1>1, <1>3, <1>5, <1>7
  <2>3. FrameOk(f, Len(modal), uid, m_Loginbit, m_bExist, Strained)
    BY <1>3, <1>6, <2>2 DEF FrameOk, FlagFits
  <2> QED
    BY <2>1, <2>3
<1>9. /\ Stacked(<<f>> \o Tail(modal), uid, m_Loginbit, m_bExist, Strained)
      /\ Len(<<f>> \o Tail(modal)) = Len(modal)
  <2>1. Stacked(<<f>> \o Tail(modal), uid, m_Loginbit, m_bExist, Strained)
    BY <1>3, <1>7, <1>8, PushStacked
  <2>2. Len(<<f>> \o Tail(modal)) = Len(Tail(modal)) + 1
    BY <1>3, <1>7, PushFacts
  <2>3. Len(<<f>> \o Tail(modal)) = Len(modal)
    BY <1>5, <1>7, <2>2
  <2> QED
    BY <2>1, <2>3
<1>10. CASE modal' = <<f>> \o Tail(modal)
  <2>1. Stacked(modal', uid, m_Loginbit, m_bExist, Strained)
    BY <1>9, <1>10
  <2>2. Len(modal') <= MaxModal + 1
    BY <1>5, <1>6, <1>9, <1>10
  <2> QED
    BY <1>2, <2>1, <2>2, Settle
<1>11. CASE modal' = (<<Waiting("list_box")>> \o <<f>>) \o Tail(modal)
  <2>1. <<Waiting("list_box")>> \in Seq(Frame) /\ <<f>> \in Seq(Frame)
    BY <1>3, Waitings
  <2>2. modal' = <<Waiting("list_box")>> \o (<<f>> \o Tail(modal))
    BY <1>7, <1>11, <2>1, ConcatAssociative
  <2>3. /\ Stacked(<<Waiting("list_box")>> \o (<<f>> \o Tail(modal)),
                   uid, m_Loginbit, m_bExist, Strained)
        /\ Len(<<Waiting("list_box")>> \o (<<f>> \o Tail(modal)))
             = Len(<<f>> \o Tail(modal)) + 1
    BY <1>9, BoxStacked
  <2>4. Stacked(modal', uid, m_Loginbit, m_bExist, Strained)
    BY <2>2, <2>3
  <2>5. Len(modal') <= MaxModal + 1
    BY <1>5, <1>6, <1>9, <2>2, <2>3
  <2> QED
    BY <1>2, <2>4, <2>5, Settle
<1> QED
  BY <1>4, <1>10, <1>11

\* The dialog over the main dialog fetches its list.
LEMMA ListModal ==
  ASSUME ModalInv, IsOpen, NEW call, CallOk(1, call),
         modal' = ListBox(call) \o <<Last(modal)>>,
         UNCHANGED <<uid, m_Loginbit, m_bExist>>, Strained = TRUE => Strained' = TRUE
  PROVE  ModalInv'
<1> DEFINE f == modal[Len(modal)]
<1>1. /\ Stacked(modal, uid, m_Loginbit, m_bExist, Strained) /\ modal \in Seq(Frame)
      /\ modal # <<>> /\ MaxModal \in Nat
  BY ConstantsAssumption DEF ModalInv, Stacked, IsOpen, ConstantsAssumption
<1>2. Len(modal) \in Nat /\ Len(modal) >= 1
  BY <1>1, PopFacts
<1>3. FrameOk(f, 1, uid, m_Loginbit, m_bExist, Strained)
  <2>1. FrameOk(f, Len(modal) + 1 - Len(modal), uid, m_Loginbit, m_bExist, Strained)
    BY <1>1, <1>2 DEF Stacked
  <2>2. Len(modal) + 1 - Len(modal) = 1
    BY <1>2
  <2> QED
    BY <2>1, <2>2
<1>4. f = Last(modal) /\ f.kind = "notices"
  BY DEF Last, IsOpen
<1> HIDE DEF f
<1>5. f \in Frame /\ 1 <= MaxModal
  BY <1>3, <1>4 DEF FrameOk
<1>6. /\ Stacked(<<>>, uid, m_Loginbit, m_bExist, Strained)
      /\ <<>> \in Seq(Frame) /\ Len(<<>>) = 0
  BY EmptyStacked, EmptySeq
<1>7. Stacked(<<f>>, uid, m_Loginbit, m_bExist, Strained) /\ Len(<<f>>) = 1
  <2>1. FrameOk(f, Len(<<>>) + 1, uid, m_Loginbit, m_bExist, Strained)
    <3>1. Len(<<>>) + 1 = 1
      BY <1>6
    <3> QED
      BY <1>3, <3>1
  <2>2. Stacked(<<f>> \o <<>>, uid, m_Loginbit, m_bExist, Strained)
    BY <1>4, <1>5, <1>6, <2>1, PushStacked
  <2>3. <<f>> \in Seq(Frame) /\ Len(<<f>>) = 1
    BY <1>5
  <2>4. <<f>> \o <<>> = <<f>>
    BY <2>3, ConcatEmptySeq
  <2> QED
    BY <2>2, <2>3, <2>4
<1>8. \/ modal' = <<f>>
      \/ modal' = <<Waiting("list_box")>> \o <<f>>
  <2>1. <<f>> \in Seq(Frame)
    BY <1>5
  <2>2. <<>> \o <<f>> = <<f>>
    BY <2>1, ConcatEmptySeq
  <2> QED
    BY <1>4, <2>2 DEF ListBox
<1>9. CASE modal' = <<f>>
  <2>1. Stacked(modal', uid, m_Loginbit, m_bExist, Strained)
    BY <1>7, <1>9
  <2>2. Len(modal') = 1
    BY <1>7, <1>9
  <2>3. Len(modal') <= MaxModal + 1
    BY <1>1, <2>2
  <2> QED
    BY <1>1, <2>1, <2>3, Settle
<1>10. CASE modal' = <<Waiting("list_box")>> \o <<f>>
  <2>1. /\ Stacked(<<Waiting("list_box")>> \o <<f>>, uid, m_Loginbit, m_bExist, Strained)
        /\ Len(<<Waiting("list_box")>> \o <<f>>) = Len(<<f>>) + 1
    BY <1>7, BoxStacked
  <2>2. Stacked(modal', uid, m_Loginbit, m_bExist, Strained)
    BY <1>10, <2>1
  <2>3. Len(modal') = 1 + 1
    BY <1>7, <1>10, <2>1
  <2>4. Len(modal') <= MaxModal + 1
    BY <1>1, <1>5, <2>3
  <2> QED
    BY <2>2, <2>4, Settle
<1> QED
  BY <1>8, <1>9, <1>10

\* Under the box of a failed ReadNotice is the dialog over the main dialog.
LEMMA UnderReadBox ==
  ASSUME ModalInv, OnTop("read_box")
  PROVE  Len(modal) = 2 /\ IsOpen /\ modal[2] = Last(modal)
<1>1. /\ modal # <<>> /\ modal \in Seq(Frame) /\ Head(modal).kind = "read_box"
  BY DEF ModalInv, Stacked, OnTop
<1>2. Len(modal) \in Nat /\ Len(modal) >= 1 /\ Head(modal) = modal[1]
  BY <1>1, PopFacts
<1>3. 1 \in 1 .. Len(modal) /\ modal[1].kind = "read_box"
  BY <1>1, <1>2
<1>4. 1 + 1 = Len(modal) /\ modal[1 + 1].kind = "notices"
  BY <1>3 DEF ModalInv, Stacked
<1>5. Len(modal) = 2 /\ modal[2].kind = "notices"
  BY <1>4
<1> QED
  BY <1>1, <1>5 DEF IsOpen, Last

LEMMA NextModal ==
  ModalInv /\ Window /\ ServersInv /\ [Next]_vars => ModalInv'
<1> SUFFICES ASSUME ModalInv, Window, ServersInv, [Next]_vars PROVE ModalInv'
  OBVIOUS
<1>1. Strained = TRUE => Strained' = TRUE
  BY NextServers
<1> USE DEF dialog, window, m_Tray
<1>2. CASE Elsewhere
  BY <1>1, <1>2, MainModal DEF Elsewhere
<1>3. CASE UNCHANGED mainVars
  BY <1>1, <1>3, ModalFrame DEF mainVars
<1>4. CASE OnInitDialog
  BY <1>1, <1>4, NoticesPushed DEF OnInitDialog
<1>5. CASE ClickCheck1
  BY <1>1, <1>5, CallFacts, ListModal DEF ClickCheck1, OnBnClickedCheck1, OnlyDialog, Servers
<1>6. ASSUME NEW n \in 0 .. MaxNotices, OnNMClickList1(n) PROVE ModalInv'
  BY <1>1, <1>6, CallFacts, ListModal DEF OnNMClickList1, OnBnClickedCheck1, OnlyDialog, Servers
<1>7. ASSUME NEW n \in 0 .. MaxNotices, ReadNoticeFails(n) PROVE ModalInv'
  <2>1. PICK read \in Calls(254) : read.box /\ Made(254, read)
    BY <1>7 DEF ReadNoticeFails
  <2>2. CallOk(254, read)
    BY CallFacts DEF Servers
  <2>3. Strained' = TRUE
    BY <2>1, <2>2, MadeFacts DEF CallOk, Servers
  <2>4. /\ modal' = <<Waiting("read_box")>> \o modal /\ IsOpen /\ Len(modal) = 1
        /\ UNCHANGED <<uid, m_Loginbit, m_bExist>>
    BY <1>7 DEF ReadNoticeFails, OnlyDialog
  <2>5. Stacked(modal, uid, m_Loginbit, m_bExist, Strained')
    BY <1>1, StackLater DEF ModalInv
  <2>6. modal[1].kind = "notices"
    BY <2>4 DEF IsOpen, Last
  <2>7. FrameOk(modal[1], Len(modal) + 1 - 1, uid, m_Loginbit, m_bExist, Strained')
    BY <2>4, <2>5 DEF Stacked
  <2>8. 1 <= MaxModal /\ MaxModal \in Nat
    BY <2>4, <2>6, <2>7, ConstantsAssumption DEF FrameOk, ConstantsAssumption
  <2>9. /\ Stacked(<<Waiting("read_box")>> \o modal, uid, m_Loginbit, m_bExist, Strained')
        /\ Len(<<Waiting("read_box")>> \o modal) = Len(modal) + 1
    BY <2>3, <2>4, <2>5, <2>6, BoxStacked
  <2>10. Stacked(modal', uid, m_Loginbit, m_bExist, Strained')
    BY <2>4, <2>9
  <2>11. Len(modal') <= MaxModal + 1
    BY <2>4, <2>8, <2>9
  <2> QED
    BY <2>4, <2>10, <2>11, Settle
<1>8. CASE DismissReadBox
  BY <1>1, <1>8, UnderReadBox, CallFacts, ListModal
     DEF DismissReadBox, OnBnClickedCheck1, Servers
<1>9. CASE OtherDialogReads
  BY <1>1, <1>9, ModalFrame DEF OtherDialogReads
<1> QED
  BY <1>2, <1>3, <1>4, <1>5, <1>6, <1>7, <1>8, <1>9 DEF Next, vars, SendNotice, SelectByKey

-----------------------------------------------------------------------------
(***************************************************************************)
(* The login window.                                                       *)
(***************************************************************************)
LEMMA Chosen ==
  ASSUME ModalInv, NEW command, Choose(command)
  PROVE  /\ m_bExist = TRUE /\ modal # <<>> /\ posted = <<>> /\ ~exited
         /\ Head(modal).kind = "menu"
         /\ command = "DIALOG_SHOW" => m_Loginbit = FALSE
         /\ command = "LOGOUT" => m_Loginbit = TRUE
<1>1. /\ modal # <<>> /\ posted = <<>> /\ ~exited
      /\ Head(modal).kind = "menu" /\ command \in Head(modal).items
  BY DEF Choose, OnTop
<1>2. FrameOk(Head(modal), Len(modal), uid, m_Loginbit, m_bExist, Strained)
  BY <1>1, TopOk DEF ModalInv
<1> QED
  BY <1>1, <1>2 DEF FrameOk

LEMMA WindowFrame ==
  ASSUME Window, UNCHANGED <<dialog, window, m_Tray>>
  PROVE  Window'
BY DEF Window, dialog, window, m_Tray

LEMMA PostedOne ==
  ASSUME posted = <<>>, NEW show, PostShowWindow(show)
  PROVE  posted' = <<show>> /\ posted' # <<>>
BY DEF PostShowWindow

LEMMA OneMessage ==
  ASSUME NEW show \in BOOLEAN
  PROVE  Head(<<show>>) = show /\ Tail(<<show>>) = <<>>
<1>1. <<show>> \in Seq(BOOLEAN) /\ Len(<<show>>) = 1 /\ <<show>>[1] = show
  OBVIOUS
<1>2. <<show>> # <<>> /\ Head(<<show>>) = <<show>>[1]
  BY <1>1, EmptySeq
<1>3. Tail(<<show>>) \in Seq(BOOLEAN) /\ Len(Tail(<<show>>)) = 0
  BY <1>1, <1>2, HeadTailProperties
<1>4. Tail(<<show>>) = <<>>
  BY <1>3, EmptySeq
<1> QED
  BY <1>1, <1>2, <1>4

LEMMA NextWindow ==
  ModalInv /\ Window /\ [Next]_vars => Window'
<1> SUFFICES ASSUME ModalInv, Window, [Next]_vars PROVE Window'
  OBVIOUS
<1>1. CASE ShowWindowMessage
  <2>1. /\ posted # <<>> /\ ~exited /\ posted' = Tail(posted)
        /\ UNCHANGED <<m_Loginbit, uid, exited, m_bExist, m_bHide>>
        /\ CASE ~Head(posted) /\ visible -> visible' = FALSE /\ hiddenPopup' = TRUE
             [] Head(posted) /\ ~visible /\ hiddenPopup -> visible' = TRUE /\ hiddenPopup' = FALSE
             [] OTHER -> UNCHANGED window
    BY <1>1 DEF ShowWindowMessage, m_Tray
  <2>2. CASE m_Loginbit = TRUE
    <3>1. posted = <<FALSE>> /\ visible = TRUE /\ m_bHide = TRUE
      BY <2>1, <2>2 DEF Window
    <3>2. Head(posted) = FALSE /\ posted' = <<>>
      BY <2>1, <3>1, OneMessage
    <3>3. visible' = FALSE /\ hiddenPopup' = TRUE
      BY <2>1, <3>1, <3>2
    <3> QED
      BY <2>1, <2>2, <3>1, <3>2, <3>3 DEF Window
  <2>3. CASE m_Loginbit = FALSE
    <3>1. posted = <<TRUE>> /\ visible = FALSE /\ hiddenPopup = TRUE /\ m_bHide = TRUE
      BY <2>1, <2>3 DEF Window
    <3>2. Head(posted) = TRUE /\ posted' = <<>>
      BY <2>1, <3>1, OneMessage
    <3>3. visible' = TRUE /\ hiddenPopup' = FALSE
      BY <2>1, <3>1, <3>2
    <3> QED
      BY <2>1, <2>3, <3>1, <3>2, <3>3 DEF Window
  <2> QED
    BY <2>2, <2>3 DEF Window
<1>2. ASSUME NEW name \in Names, OnBnClickedOk(name) PROVE Window'
  <2>1. /\ posted = <<>> /\ ~exited /\ visible /\ uid' = name /\ m_Loginbit' = TRUE
        /\ PostShowWindow(FALSE) /\ UNCHANGED <<exited, visible, hiddenPopup, m_bExist, m_bHide>>
    BY <1>2 DEF OnBnClickedOk, Input, window, m_Tray
  <2>2. m_bHide
    BY <2>1 DEF Window
  <2>3. posted' = <<FALSE>> /\ posted' # <<>>
    BY <2>1, PostedOne
  <2>4. posted' = <<m_Loginbit' = FALSE>>
    BY <2>1, <2>3
  <2> QED
    BY <2>1, <2>2, <2>3, <2>4 DEF Window
<1>3. CASE OnCancel \/ OnAppExit
  <2>1. /\ posted = <<>> /\ exited' = TRUE /\ m_Loginbit' = FALSE /\ PostShowWindow(TRUE)
        /\ UNCHANGED <<uid, visible, hiddenPopup, m_bExist, m_bHide>>
    BY <1>3 DEF OnCancel, OnAppExit, OnDestroy, LoggedOut, Input, Choose, window, m_Tray
  <2>2. posted' = <<TRUE>>
    BY <2>1, PostedOne
  <2>3. posted' = <<m_Loginbit' = FALSE>>
    BY <2>1, <2>2
  <2> QED
    BY <2>1, <2>3 DEF Window
<1>4. CASE OnLOGOUT
  <2>1. /\ posted = <<>> /\ ~exited /\ m_Loginbit = TRUE
        /\ m_Loginbit' = FALSE /\ PostShowWindow(TRUE)
        /\ UNCHANGED <<uid, exited, visible, hiddenPopup, m_bExist, m_bHide>>
    BY <1>4, Chosen DEF OnLOGOUT, LoggedOut, window, m_Tray
  <2>2. posted' = <<TRUE>> /\ posted' # <<>>
    BY <2>1, PostedOne
  <2>3. posted' = <<m_Loginbit' = FALSE>>
    BY <2>1, <2>2
  <2> QED
    BY <2>1, <2>2, <2>3 DEF Window
<1>5. CASE OnDialogShow
  <2>1. /\ posted = <<>> /\ ~exited /\ m_Loginbit = FALSE /\ m_bExist = TRUE
        /\ visible' = ~m_bHide /\ m_bHide' = ~m_bHide
        /\ hiddenPopup' = (IF visible' THEN FALSE ELSE hiddenPopup)
        /\ UNCHANGED <<uid, m_Loginbit, posted, exited, m_bExist>>
    BY <1>5, Chosen DEF OnDialogShow, dialog
  <2> QED
    BY <2>1 DEF Window
<1>6. CASE Elsewhere
  BY <1>1, <1>2, <1>3, <1>4, <1>5, <1>6, WindowFrame
     DEF Elsewhere, MainNext, OnSysCommand, MenuLoggedOut, MenuLoggedIn, DismissFlagBox,
         MenuEnds, OnCreatorInfo, CloseDialog
<1>7. CASE UNCHANGED mainVars
  BY <1>7, WindowFrame DEF mainVars
<1>8. CASE OnInitDialog \/ ClickCheck1 \/ DismissReadBox \/ OtherDialogReads
  BY <1>8, WindowFrame
     DEF OnInitDialog, OnCreatorNotice, ClickCheck1, DismissReadBox, OtherDialogReads
<1>9. ASSUME NEW n \in 0 .. MaxNotices, OnNMClickList1(n) \/ ReadNoticeFails(n) PROVE Window'
  BY <1>9, WindowFrame DEF OnNMClickList1, ReadNoticeFails
<1> QED
  BY <1>6, <1>7, <1>8, <1>9 DEF Next, vars, SendNotice, SelectByKey

-----------------------------------------------------------------------------
(***************************************************************************)
(* The dialog over the main dialog stays until it is closed.               *)
(***************************************************************************)
LEMMA BottomOfPush ==
  ASSUME NEW m \in Seq(Frame), m # <<>>, NEW f \in Frame
  PROVE  Last(<<f>> \o m) = Last(m) /\ <<f>> \o m # <<>>
<1>1. Len(m) \in Nat /\ Len(m) >= 1
  BY PopFacts
<1>2. /\ <<f>> \o m # <<>> /\ Len(<<f>> \o m) = Len(m) + 1
      /\ \A i \in 1 .. Len(m) : (<<f>> \o m)[i + 1] = m[i]
  BY PushFacts
<1>3. (<<f>> \o m)[Len(m) + 1] = m[Len(m)]
  BY <1>1, <1>2
<1> QED
  BY <1>2, <1>3 DEF Last

LEMMA BottomOfPop ==
  ASSUME NEW m \in Seq(Frame), m # <<>>, Tail(m) # <<>>
  PROVE  Last(Tail(m)) = Last(m) /\ Tail(m) \in Seq(Frame)
<1>1. /\ Tail(m) \in Seq(Frame) /\ Len(m) \in Nat /\ Len(m) >= 1
      /\ Len(Tail(m)) = Len(m) - 1 /\ Len(m) # 1
      /\ \A i \in 1 .. Len(m) - 1 : Tail(m)[i] = m[i + 1]
  BY PopFacts
<1>2. Tail(m)[Len(m) - 1] = m[(Len(m) - 1) + 1]
  BY <1>1
<1>3. (Len(m) - 1) + 1 = Len(m)
  BY <1>1
<1> QED
  BY <1>1, <1>2, <1>3 DEF Last

\* Under a menu or a box there is something else, if the lowest is a dialog with notices.
LEMMA UnderTop ==
  ASSUME ModalInv, IsOpen, Head(modal).kind # "notices"
  PROVE  /\ Tail(modal) # <<>> /\ Tail(modal) \in Seq(Frame)
         /\ Last(Tail(modal)) = Last(modal) /\ Last(Tail(modal)).kind = "notices"
<1>1. modal \in Seq(Frame) /\ modal # <<>> /\ Last(modal).kind = "notices"
  BY DEF ModalInv, Stacked, IsOpen
<1>2. /\ Len(modal) \in Nat /\ Head(modal) = modal[1]
      /\ Tail(modal) = <<>> <=> Len(modal) = 1
  BY <1>1, PopFacts
<1>3. Len(modal) # 1
  BY <1>1, <1>2 DEF Last
<1> QED
  BY <1>1, <1>2, <1>3, BottomOfPop

\* A menu is pushed, or is not.
LEMMA TrackBottom ==
  ASSUME NEW below \in Seq(Frame), below # <<>>, NEW noticeItems \in NoticeItems,
         NEW flag \in Flags, m_Loginbit \in BOOLEAN, TrackPopupMenu(below, noticeItems, flag)
  PROVE  modal' # <<>> /\ Last(modal') = Last(below)
<1> DEFINE f == [Waiting("menu") EXCEPT !.items = Items(noticeItems), !.flag = flag]
<1>1. f \in Frame
  BY MenuItems, MenuFrame
<1>2. modal' = below \/ modal' = <<f>> \o below
  BY DEF TrackPopupMenu
<1> HIDE DEF f
<1> QED
  BY <1>1, <1>2, BottomOfPush

LEMMA BottomStays ==
  ASSUME ModalInv, Window, MainNext, IsOpen, modal' # <<>>
  PROVE  IsOpen' /\ Last(modal') = Last(modal) /\ uid' = uid
<1> USE DEF dialog
<1>1. modal \in Seq(Frame) /\ modal # <<>> /\ Last(modal).kind = "notices"
  BY DEF ModalInv, Stacked, IsOpen
<1>2. uid' = uid
  BY <1>1 DEF MainNext, ShowWindowMessage, OnBnClickedOk, OnSysCommand, OnCancel, Input,
         MenuLoggedOut, MenuLoggedIn, DismissFlagBox, MenuEnds, OnDialogShow, OnCreatorInfo,
         OnLOGOUT, OnAppExit, CloseDialog
<1>3. CASE modal' = modal
  BY <1>1, <1>2, <1>3 DEF IsOpen
<1>4. CASE modal' = Tail(modal)
  BY <1>1, <1>2, <1>4, BottomOfPop DEF IsOpen
<1>5. SUFFICES modal' # <<>> /\ Last(modal') = Last(modal)
  BY <1>1, <1>2 DEF IsOpen
<1>6. CASE MenuLoggedOut
  <2> DEFINE items == {} flag == "none"
  <2>1. TrackPopupMenu(modal, items, flag) /\ items \in NoticeItems /\ flag \in Flags
    BY <1>6 DEF MenuLoggedOut, NoticeItems, Flags
  <2> HIDE DEF items, flag
  <2> QED
    BY <1>1, <2>1, TrackBottom DEF Window
<1>7. CASE MenuLoggedIn
  <2>1. PICK call \in GetFlag(uid) :
          IF call.box
          THEN modal' = <<Waiting("flag_box")>> \o modal
          ELSE TrackPopupMenu(modal, {"NOTICE", "NONE"}, FlagOf(uid, call))
    BY <1>7 DEF MenuLoggedIn
  <2>2. CASE modal' = <<Waiting("flag_box")>> \o modal
    BY <1>1, <2>2, BottomOfPush, Waitings
  <2>3. CASE TrackPopupMenu(modal, {"NOTICE", "NONE"}, FlagOf(uid, call))
    <3> DEFINE items == {"NOTICE", "NONE"} flag == FlagOf(uid, call)
    <3>1. call.ok \in BOOLEAN
      BY FlagCallFacts DEF CallOk
    <3>2. TrackPopupMenu(modal, items, flag) /\ items \in NoticeItems /\ flag \in Flags
      BY <2>3, <3>1 DEF NoticeItems, Flags, FlagOf, BlackFlag
    <3> HIDE DEF items, flag
    <3> QED
      BY <1>1, <3>2, TrackBottom DEF Window
  <2> QED
    BY <2>1, <2>2, <2>3
<1>8. CASE DismissFlagBox
  <2> DEFINE items == {"NOTICE", "NONE"} flag == "failed"
  <2>1. /\ Head(modal).kind = "flag_box"
        /\ TrackPopupMenu(Tail(modal), items, flag) /\ items \in NoticeItems /\ flag \in Flags
    BY <1>8 DEF DismissFlagBox, OnTop, NoticeItems, Flags
  <2> HIDE DEF items, flag
  <2>2. /\ Tail(modal) # <<>> /\ Tail(modal) \in Seq(Frame) /\ Last(Tail(modal)) = Last(modal)
    BY <2>1, UnderTop
  <2> QED
    BY <2>1, <2>2, TrackBottom DEF Window
<1>9. CASE OnCreatorInfo
  <2>1. Head(modal).kind = "menu" /\ modal' = <<Waiting("about")>> \o Tail(modal)
    BY <1>9 DEF OnCreatorInfo, Choose, OnTop
  <2>2. /\ Tail(modal) # <<>> /\ Tail(modal) \in Seq(Frame) /\ Last(Tail(modal)) = Last(modal)
    BY <2>1, UnderTop
  <2> QED
    BY <2>1, <2>2, BottomOfPush, Waitings
<1> QED
  BY <1>1, <1>3, <1>4, <1>5, <1>6, <1>7, <1>8, <1>9
     DEF MainNext, ShowWindowMessage, OnBnClickedOk, OnSysCommand, OnCancel, Input, MenuEnds,
         OnDialogShow, OnLOGOUT, OnAppExit, CloseDialog

-----------------------------------------------------------------------------
(***************************************************************************)
(* The list, the selection mark and the marks in the table.                *)
(***************************************************************************)
LEMMA ReaderIsUser ==
  ASSUME ModalInv, Window, IsOpen
  PROVE  /\ modal # <<>> /\ modal \in Seq(Frame) /\ Last(modal) \in Frame
         /\ Last(modal).kind = "notices" /\ Reader = uid /\ uid \in Names
<1>1. modal \in Seq(Frame) /\ modal # <<>> /\ Last(modal).kind = "notices"
  BY DEF ModalInv, Stacked, IsOpen
<1>2. Len(modal) \in Nat /\ Len(modal) >= 1
  BY <1>1, PopFacts
<1>3. FrameOk(modal[Len(modal)], Len(modal) + 1 - Len(modal), uid, m_Loginbit, m_bExist, Strained)
  BY <1>2 DEF ModalInv, Stacked
<1>4. ~(Len(modal) + 1 - Len(modal) > 1)
  BY <1>2
<1>5. Last(modal).user = uid /\ Last(modal) \in Frame
  BY <1>1, <1>3, <1>4 DEF FrameOk, Last
<1> QED
  BY <1>1, <1>5 DEF Reader, Window

LEMMA ListBottom ==
  ASSUME ModalInv, Window, IsOpen, NEW call, modal' = ListBox(call) \o <<Last(modal)>>
  PROVE  IsOpen' /\ Last(modal') = Last(modal)
<1> DEFINE f == Last(modal)
<1>1. f \in Frame /\ f.kind = "notices"
  BY ReaderIsUser
<1> HIDE DEF f
<1>2. <<f>> \in Seq(Frame) /\ <<f>> # <<>> /\ Len(<<f>>) = 1 /\ <<f>>[1] = f
  BY <1>1, EmptySeq
<1>3. Last(<<f>>) = f
  BY <1>2 DEF Last
<1>4. <<>> \o <<f>> = <<f>>
  BY <1>2, ConcatEmptySeq
<1>5. modal' = <<f>> \/ modal' = <<Waiting("list_box")>> \o <<f>>
  BY <1>4 DEF ListBox, f
<1>6. modal' # <<>> /\ Last(modal') = f
  BY <1>2, <1>3, <1>5, BottomOfPush, Waitings
<1> QED
  BY <1>1, <1>6 DEF IsOpen, f

LEMMA ListedFacts ==
  ASSUME NEW u, NEW ALL, NEW checks, NEW call,
         NEW list \in Listed(SelectNotices(u, ALL, checks), call)
  PROVE  list \subseteq ForUser(u)
BY DEF Listed, SelectNotices

LEMMA NoticeNumbers ==
  ASSUME NoticeInv, NEW u
  PROVE  ForUser(u) \subseteq 1 .. MaxNotices
<1>1. DOMAIN NOTICE = 1 .. Len(NOTICE) /\ Len(NOTICE) \in Nat /\ Len(NOTICE) <= MaxNotices
  BY LenProperties DEF NoticeInv
<1> QED
  BY <1>1, NoticeAssumption DEF ForUser, NoticeAssumption

\* A mark for a notice of a user.
LEMMA ReadFacts ==
  ASSUME NoticeInv, NEW u \in Names, NEW n \in ForUser(u) \cup {0}, NEW call,
         ReadNotice(n, u, call), UNCHANGED NOTICE
  PROVE  NOTICE_CHECK' \subseteq (0 .. MaxNotices) \X Names /\ MarksAreOfOwnNotices'
<1>1. n \in 0 .. MaxNotices
  BY NoticeNumbers, NoticeAssumption DEF NoticeAssumption
<1>2. NOTICE_CHECK' = NOTICE_CHECK \/ NOTICE_CHECK' = NOTICE_CHECK \cup {<<n, u>>}
  BY DEF ReadNotice
<1>3. NOTICE_CHECK' \subseteq (0 .. MaxNotices) \X Names
  BY <1>1, <1>2 DEF NoticeInv
<1>4. \A check \in NOTICE_CHECK' : check \in NOTICE_CHECK \/ check = <<n, u>>
  BY <1>2
<1>5. <<n, u>>[1] = n /\ <<n, u>>[2] = u
  OBVIOUS
<1>6. ASSUME NEW check \in NOTICE_CHECK' PROVE check[1] = 0 \/ check[1] \in ForUser(check[2])
  BY <1>4, <1>5 DEF NoticeInv, MarksAreOfOwnNotices
<1>7. \A v : ForUser(v)' = ForUser(v)
  BY DEF ForUser
<1> QED
  BY <1>3, <1>6 DEF MarksAreOfOwnNotices, ForUser

LEMMA NoticeFrame ==
  ASSUME NoticeInv, UNCHANGED <<notice, tables, uid>>, IsOpen => IsOpen'
  PROVE  NoticeInv'
BY DEF NoticeInv, notice, tables, ForUser, MarksAreOfOwnNotices

LEMMA NoUserFrame ==
  ASSUME NoticeInv, ~IsOpen, UNCHANGED <<notice, tables>>
  PROVE  NoticeInv'
BY DEF NoticeInv, notice, tables, ForUser, MarksAreOfOwnNotices

\* Steps that fetch the list anew, perhaps after a mark was made.
LEMMA FetchNotice ==
  ASSUME NoticeInv, NEW ALL, NEW checks, NEW call, Fetch(uid, ALL, checks, call),
         IsOpen', UNCHANGED <<uid, NOTICE, copied>>,
         m_Allbutton' \in BOOLEAN, text' \in 0 .. MaxNotices,
         NOTICE_CHECK' \subseteq (0 .. MaxNotices) \X Names /\ MarksAreOfOwnNotices'
  PROVE  NoticeInv'
<1>1. m_NoticeList' \subseteq ForUser(uid) /\ mark' = 0
  BY ListedFacts DEF Fetch
<1>2. m_NoticeList' \subseteq ForUser(uid)'
  BY <1>1 DEF ForUser
<1> QED
  BY <1>1, <1>2 DEF NoticeInv

LEMMA MarksFrame ==
  ASSUME NoticeInv, UNCHANGED <<NOTICE, NOTICE_CHECK>>
  PROVE  NOTICE_CHECK' \subseteq (0 .. MaxNotices) \X Names /\ MarksAreOfOwnNotices'
BY DEF NoticeInv, MarksAreOfOwnNotices, ForUser

LEMMA SendFrame ==
  ASSUME NoticeInv, ModalInv, Window, NEW to \in Users \cup {Everybody}, SendNotice(to)
  PROVE  NoticeInv'
<1>1. /\ Len(NOTICE) < MaxNotices /\ NOTICE' = Append(NOTICE, to)
      /\ UNCHANGED <<modal, uid, m_NoticeList, mark, m_Allbutton, text, NOTICE_CHECK, copied>>
  BY DEF SendNotice, mainVars, notice, dialog
<1>2. NOTICE \in Seq(Names \cup {Everybody}) /\ to \in Names \cup {Everybody}
  BY DEF NoticeInv, Names
<1>3. /\ NOTICE' \in Seq(Names \cup {Everybody}) /\ Len(NOTICE) \in Nat
      /\ Len(NOTICE') = Len(NOTICE) + 1
      /\ \A i \in 1 .. Len(NOTICE) : NOTICE'[i] = NOTICE[i]
  BY <1>1, <1>2, AppendProperties, LenProperties
<1>4. Len(NOTICE') <= MaxNotices
  BY <1>1, <1>3, NoticeAssumption DEF NoticeAssumption
<1>5. DOMAIN NOTICE = 1 .. Len(NOTICE) /\ DOMAIN NOTICE' = 1 .. Len(NOTICE) + 1
  BY <1>2, <1>3, LenProperties
<1>6. ASSUME NEW u, NEW n \in ForUser(u) PROVE n \in {k \in DOMAIN NOTICE' : NOTICE'[k] \in {u, Everybody}}
  BY <1>3, <1>5 DEF ForUser
<1>7. m_NoticeList' \subseteq ForUser(uid)'
  BY <1>1, <1>6 DEF NoticeInv, ForUser
<1>8. MarksAreOfOwnNotices'
  BY <1>1, <1>6 DEF NoticeInv, MarksAreOfOwnNotices, ForUser
<1>9. IsOpen' <=> IsOpen
  BY <1>1 DEF IsOpen
<1> QED
  BY <1>1, <1>3, <1>4, <1>7, <1>8, <1>9 DEF NoticeInv

LEMMA NextNotice ==
  ModalInv /\ Window /\ NoticeInv /\ [Next]_vars => NoticeInv'
<1> SUFFICES ASSUME ModalInv, Window, NoticeInv, [Next]_vars PROVE NoticeInv'
  OBVIOUS
<1> USE DEF dialog
<1>1. CASE Elsewhere
  <2>1. MainNext /\ UNCHANGED tables
    BY <1>1 DEF Elsewhere
  <2>2. CASE ~IsOpen
    <3>1. UNCHANGED notice
      BY <1>1, <2>2 DEF Elsewhere
    <3> QED
      BY <2>1, <2>2, <3>1, NoUserFrame
  <2>3. CASE IsOpen /\ modal' # <<>>
    <3>1. UNCHANGED notice
      BY <1>1, <2>3 DEF Elsewhere
    <3> QED
      BY <2>1, <2>3, <3>1, BottomStays, NoticeFrame
  <2>4. CASE IsOpen /\ modal' = <<>>
    <3>1. m_NoticeList' = {} /\ mark' = 0 /\ m_Allbutton' = FALSE /\ text' = 0
      BY <1>1, <2>4 DEF Elsewhere
    <3>2. UNCHANGED <<NOTICE, NOTICE_CHECK, copied>>
      BY <2>1 DEF tables
    <3>3. NOTICE_CHECK' \subseteq (0 .. MaxNotices) \X Names /\ MarksAreOfOwnNotices'
      BY <3>2, MarksFrame
    <3>4. 0 \in 0 .. MaxNotices
      BY NoticeAssumption DEF NoticeAssumption
    <3>5. /\ NOTICE' \in Seq(Names \cup {Everybody}) /\ Len(NOTICE') <= MaxNotices
          /\ copied' \in BOOLEAN
      BY <3>2 DEF NoticeInv
    <3> QED
      BY <3>1, <3>3, <3>4, <3>5 DEF NoticeInv
  <2> QED
    BY <2>2, <2>3, <2>4
<1>2. CASE OnInitDialog
  <2>1. PICK call \in Calls(1) :
          /\ OnCreatorNotice(call)
          /\ IF Tail(modal) = <<>>
             THEN Fetch(uid, FALSE, NOTICE_CHECK, call) /\ UNCHANGED <<m_Allbutton, text>>
             ELSE UNCHANGED notice
    BY <1>2 DEF OnInitDialog
  <2>2. UNCHANGED tables /\ UNCHANGED uid /\ modal # <<>> /\ Head(modal).kind = "menu"
    BY <1>2, <2>1 DEF OnInitDialog, OnCreatorNotice, Choose, OnTop
  <2>3. PICK user \in {uid} \cup (IF Tail(modal) = <<>> THEN {} ELSE {Garbage}) :
          modal' = (IF call.box THEN <<Waiting("list_box")>> ELSE <<>>)
                     \o <<[Waiting("notices") EXCEPT !.user = user]>> \o Tail(modal)
    BY <2>1 DEF OnCreatorNotice
  <2> DEFINE f == [Waiting("notices") EXCEPT !.user = user]
             rest == <<f>> \o Tail(modal)
  <2>4. f \in Frame /\ f.kind = "notices"
    BY <2>3, NoticesFrame DEF Window
  <2>5. modal \in Seq(Frame) /\ Tail(modal) \in Seq(Frame) /\ <<f>> \in Seq(Frame)
        /\ <<Waiting("list_box")>> \in Seq(Frame) /\ Waiting("list_box") \in Frame
    <3>1. modal \in Seq(Frame)
      BY DEF ModalInv, Stacked
    <3>2. Tail(modal) \in Seq(Frame)
      BY <2>2, <3>1, PopFacts
    <3> QED
      BY <2>4, <3>1, <3>2, Waitings
  <2>6. modal' = rest \/ modal' = <<Waiting("list_box")>> \o rest
    <3>1. <<>> \o <<f>> = <<f>>
      BY <2>5, ConcatEmptySeq
    <3>2. (<<Waiting("list_box")>> \o <<f>>) \o Tail(modal) = <<Waiting("list_box")>> \o rest
      BY <2>5, ConcatAssociative
    <3>3. \/ modal' = <<f>> \o Tail(modal)
          \/ modal' = (<<Waiting("list_box")>> \o <<f>>) \o Tail(modal)
      BY <2>3, <3>1
    <3> QED
      BY <3>2, <3>3
  <2> HIDE DEF f
  <2>7. rest \in Seq(Frame) /\ rest # <<>>
    BY <2>4, <2>5, PushFacts
  <2> HIDE DEF rest
  <2>8. modal' # <<>> /\ Last(modal') = Last(rest)
    BY <2>5, <2>6, <2>7, BottomOfPush
  <2>9. CASE Tail(modal) = <<>>
    <3>1. rest = <<f>>
      BY <2>5, <2>9, ConcatEmptySeq DEF rest
    <3>2. Last(rest) = f
      BY <3>1 DEF Last
    <3>3. IsOpen'
      BY <2>4, <2>8, <3>2 DEF IsOpen
    <3>4. Fetch(uid, FALSE, NOTICE_CHECK, call) /\ UNCHANGED <<m_Allbutton, text>>
      BY <2>1, <2>9
    <3>5. UNCHANGED <<NOTICE, NOTICE_CHECK, copied>>
      BY <2>2 DEF tables
    <3>6. NOTICE_CHECK' \subseteq (0 .. MaxNotices) \X Names /\ MarksAreOfOwnNotices'
      BY <3>5, MarksFrame
    <3>7. m_Allbutton' \in BOOLEAN /\ text' \in 0 .. MaxNotices
      BY <3>4 DEF NoticeInv
    <3> QED
      BY <2>2, <3>3, <3>4, <3>5, <3>6, <3>7, FetchNotice
  <2>10. CASE Tail(modal) # <<>>
    <3>1. UNCHANGED notice
      BY <2>1, <2>10
    <3>2. Last(rest) = Last(modal)
      BY <2>2, <2>4, <2>5, <2>10, BottomOfPush, BottomOfPop DEF rest
    <3>3. IsOpen => IsOpen'
      BY <2>8, <3>2 DEF IsOpen
    <3> QED
      BY <2>2, <3>1, <3>3, NoticeFrame
  <2> QED
    BY <2>9, <2>10
<1>3. CASE ClickCheck1
  <2>1. /\ IsOpen /\ m_Allbutton' = ~m_Allbutton /\ UNCHANGED <<uid, text, NOTICE, NOTICE_CHECK, copied>>
    BY <1>3 DEF ClickCheck1, OnlyDialog, tables
  <2>2. PICK call \in Calls(1) : OnBnClickedCheck1(~m_Allbutton, NOTICE_CHECK, call)
    BY <1>3 DEF ClickCheck1
  <2>3. IsOpen' /\ Reader = uid
    BY <2>1, <2>2, ListBottom, ReaderIsUser DEF OnBnClickedCheck1
  <2>4. Fetch(uid, ~m_Allbutton, NOTICE_CHECK, call)
    BY <2>2, <2>3 DEF OnBnClickedCheck1
  <2>5. NOTICE_CHECK' \subseteq (0 .. MaxNotices) \X Names /\ MarksAreOfOwnNotices'
    BY <2>1, MarksFrame
  <2>6. m_Allbutton' \in BOOLEAN /\ text' \in 0 .. MaxNotices
    BY <2>1 DEF NoticeInv
  <2> QED
    BY <2>1, <2>3, <2>4, <2>5, <2>6, FetchNotice
<1>4. CASE SelectByKey
  <2>1. /\ mark' \in m_NoticeList /\ OnlyDialog
        /\ UNCHANGED <<uid, modal, m_NoticeList, m_Allbutton, text, NOTICE, NOTICE_CHECK, copied>>
    BY <1>4 DEF SelectByKey, mainVars, tables
  <2>2. IsOpen'
    BY <2>1 DEF OnlyDialog, IsOpen
  <2> QED
    BY <2>1, <2>2 DEF NoticeInv, ForUser, MarksAreOfOwnNotices
<1>5. ASSUME NEW n \in 0 .. MaxNotices, OnNMClickList1(n) PROVE NoticeInv'
  <2>1. /\ IsOpen /\ n \in Clickable /\ text' = n
        /\ UNCHANGED <<uid, m_Allbutton, NOTICE, copied>>
    BY <1>5 DEF OnNMClickList1, OnlyDialog
  <2>2. PICK read \in Calls(254), call \in Calls(1) :
          /\ ReadNotice(n, Reader, read)
          /\ OnBnClickedCheck1(m_Allbutton, NOTICE_CHECK', call)
    BY <1>5 DEF OnNMClickList1
  <2>3. IsOpen' /\ Reader = uid /\ uid \in Names
    BY <2>1, <2>2, ListBottom, ReaderIsUser DEF OnBnClickedCheck1
  <2>4. Fetch(uid, m_Allbutton, NOTICE_CHECK', call)
    BY <2>2, <2>3 DEF OnBnClickedCheck1
  <2>5. n \in ForUser(uid) \cup {0}
    BY <2>1 DEF Clickable, NoticeInv
  <2>6. NOTICE_CHECK' \subseteq (0 .. MaxNotices) \X Names /\ MarksAreOfOwnNotices'
    BY <2>1, <2>2, <2>3, <2>5, ReadFacts
  <2>7. m_Allbutton' \in BOOLEAN /\ text' \in 0 .. MaxNotices
    BY <2>1 DEF NoticeInv
  <2> QED
    BY <2>1, <2>3, <2>4, <2>6, <2>7, FetchNotice
<1>6. ASSUME NEW n \in 0 .. MaxNotices, ReadNoticeFails(n) PROVE NoticeInv'
  <2>1. /\ IsOpen /\ n \in Clickable /\ text' = n /\ mark' = n
        /\ modal' = <<Waiting("read_box")>> \o modal
        /\ UNCHANGED <<uid, m_NoticeList, m_Allbutton, NOTICE, copied>>
    BY <1>6 DEF ReadNoticeFails, OnlyDialog
  <2>2. PICK read \in Calls(254) : ReadNotice(n, Reader, read)
    BY <1>6 DEF ReadNoticeFails
  <2>3. /\ Reader = uid /\ uid \in Names /\ modal # <<>> /\ modal \in Seq(Frame)
        /\ Last(modal).kind = "notices"
    BY <2>1, ReaderIsUser
  <2>4. IsOpen'
    BY <2>1, <2>3, BottomOfPush, Waitings DEF IsOpen
  <2>5. n \in ForUser(uid) \cup {0}
    BY <2>1 DEF Clickable, NoticeInv
  <2>6. NOTICE_CHECK' \subseteq (0 .. MaxNotices) \X Names /\ MarksAreOfOwnNotices'
    BY <2>1, <2>2, <2>3, <2>5, ReadFacts
  <2>7. mark' \in m_NoticeList' \cup {0}
    BY <2>1 DEF Clickable, NoticeInv
  <2>8. m_NoticeList' \subseteq ForUser(uid)'
    BY <2>1 DEF ForUser, NoticeInv
  <2> QED
    BY <2>1, <2>4, <2>6, <2>7, <2>8 DEF NoticeInv
<1>7. CASE DismissReadBox
  <2>1. OnTop("read_box") /\ UNCHANGED <<uid, m_Allbutton, text, NOTICE, NOTICE_CHECK, copied>>
    BY <1>7 DEF DismissReadBox, tables
  <2>2. PICK call \in Calls(1) : OnBnClickedCheck1(m_Allbutton, NOTICE_CHECK, call)
    BY <1>7 DEF DismissReadBox
  <2>3. IsOpen
    BY <2>1, UnderReadBox
  <2>4. IsOpen' /\ Reader = uid
    BY <2>2, <2>3, ListBottom, ReaderIsUser DEF OnBnClickedCheck1
  <2>5. Fetch(uid, m_Allbutton, NOTICE_CHECK, call)
    BY <2>2, <2>4 DEF OnBnClickedCheck1
  <2>6. NOTICE_CHECK' \subseteq (0 .. MaxNotices) \X Names /\ MarksAreOfOwnNotices'
    BY <2>1, MarksFrame
  <2>7. m_Allbutton' \in BOOLEAN /\ text' \in 0 .. MaxNotices
    BY <2>1 DEF NoticeInv
  <2> QED
    BY <2>1, <2>4, <2>5, <2>6, <2>7, FetchNotice
<1>8. CASE OtherDialogReads
  <2>1. /\ UNCHANGED <<uid, modal, m_NoticeList, mark, m_Allbutton, text, NOTICE, copied>>
        /\ Head(modal).user \in Names
    BY <1>8 DEF OtherDialogReads, notice
  <2>2. PICK n \in ForUser(Head(modal).user), read \in Calls(254) :
          ReadNotice(n, Head(modal).user, read)
    BY <1>8 DEF OtherDialogReads
  <2>3. NOTICE_CHECK' \subseteq (0 .. MaxNotices) \X Names /\ MarksAreOfOwnNotices'
    BY <2>1, <2>2, ReadFacts
  <2>4. IsOpen' <=> IsOpen
    BY <2>1 DEF IsOpen
  <2> QED
    BY <2>1, <2>3, <2>4 DEF NoticeInv, ForUser
<1>9. CASE UNCHANGED vars
  <2>1. UNCHANGED <<notice, tables, uid, modal>>
    BY <1>9 DEF vars, mainVars
  <2>2. IsOpen => IsOpen'
    BY <2>1 DEF IsOpen
  <2> QED
    BY <2>1, <2>2, NoticeFrame
<1> QED
  BY <1>1, <1>2, <1>3, <1>4, <1>5, <1>6, <1>7, <1>8, <1>9, SendFrame DEF Next

-----------------------------------------------------------------------------
Inv == ModalInv /\ Window /\ ServersInv /\ NoticeInv

LEMMA InitInv == Init => Inv
<1> SUFFICES ASSUME Init PROVE Inv
  OBVIOUS
<1>1. modal = <<>> /\ Len(<<>>) = 0 /\ Len(<<>>) <= MaxModal + 1
  BY ConstantsAssumption, EmptySeq DEF Init, MainInit, ConstantsAssumption
<1>2. Stacked(<<>>, uid, m_Loginbit, m_bExist, Strained)
  BY EmptyStacked
<1>3. ModalInv
  BY <1>1, <1>2 DEF ModalInv
<1>4. Window
  BY DEF Init, MainInit, AddTrayIcon, Window, Names
<1>5. ServersInv
  BY ConstantsAssumption DEF Init, MainInit, ServersInv, ConstantsAssumption
<1>6. NoticeInv
  <2>1. NOTICE = <<>> /\ NOTICE \in Seq(Names \cup {Everybody}) /\ Len(NOTICE) = 0
    BY EmptySeq DEF Init
  <2>2. Len(NOTICE) <= MaxNotices /\ 0 \in 0 .. MaxNotices
    BY <2>1, NoticeAssumption DEF NoticeAssumption
  <2> QED
    BY <2>1, <2>2 DEF Init, NoticeInv, MarksAreOfOwnNotices
<1> QED
  BY <1>3, <1>4, <1>5, <1>6 DEF Inv

LEMMA AlwaysInv == Spec => []Inv
<1>1. Inv /\ [Next]_vars => Inv'
  BY NextModal, NextWindow, NextServers, NextNotice DEF Inv
<1> QED
  BY <1>1, InitInv, PTL DEF Spec

-----------------------------------------------------------------------------
(***************************************************************************)
(* What follows.                                                           *)
(***************************************************************************)
\* The state of the dialogs, the tray icon and the tables has its type, for any users,
\* notices, servers, faults and depth of nesting.
THEOREM TypeCorrect == Spec => []NoticeTypeOK
<1>1. Inv => NoticeTypeOK
  <2> SUFFICES ASSUME Inv PROVE NoticeTypeOK
    OBVIOUS
  <2>1. posted \in Seq(BOOLEAN)
    <3>1. <<>> \in Seq(BOOLEAN) /\ <<m_Loginbit = FALSE>> \in Seq(BOOLEAN)
      OBVIOUS
    <3> QED
      BY <3>1 DEF Inv, Window
  <2>2. TypeOK
    BY <2>1 DEF TypeOK, Inv, Window, ModalInv, Stacked, ServersInv
  <2>3. m_NoticeList \subseteq 1 .. MaxNotices
    BY NoticeNumbers DEF Inv, NoticeInv
  <2> QED
    BY <2>2, <2>3 DEF NoticeTypeOK, Inv, NoticeInv
<1> QED
  BY <1>1, AlwaysInv, PTL

\* Whoever is logged out can log in.
THEOREM CanLogInCorrect == Spec => []CanLogIn
<1>1. Inv => CanLogIn
  BY DEF Inv, Window, CanLogIn
<1> QED
  BY <1>1, AlwaysInv, PTL

\* A dialog with notices is that of the user whose name the main dialog has, unless it
\* took another window for the main dialog.
THEOREM NoticesCorrect == Spec => []NoticesOfTheUser
<1>1. Inv => NoticesOfTheUser
  <2> SUFFICES ASSUME Inv, NEW i \in 1 .. Len(modal), modal[i].kind = "notices"
               PROVE  modal[i].user = uid \/ (modal[i].user = Garbage /\ i < Len(modal))
    BY DEF NoticesOfTheUser
  <2>1. /\ FrameOk(modal[i], Len(modal) + 1 - i, uid, m_Loginbit, m_bExist, Strained)
        /\ Len(modal) \in Nat
    BY LenProperties DEF Inv, ModalInv, Stacked
  <2>2. Len(modal) + 1 - i > 1 => i < Len(modal)
    BY <2>1
  <2> QED
    BY <2>1, <2>2 DEF FrameOk
<1> QED
  BY <1>1, AlwaysInv, PTL

\* The menu tells the blocked users, and only them, that use is not possible, and fails
\* to tell only for a reason.
THEOREM FlagCorrect == Spec => []FlagIsRight
<1>1. Inv => FlagIsRight
  <2> SUFFICES ASSUME Inv, NEW i \in 1 .. Len(modal)
               PROVE  /\ modal[i].flag \in {"blocked", "normal"} =>
                           (modal[i].flag = "blocked" <=> uid \in Blocked)
                      /\ modal[i].kind \in {"flag_box", "read_box"} \/ modal[i].flag = "failed" =>
                           faults > 0 \/ leaked[254] = Slots
    BY DEF FlagIsRight
  <2>1. FrameOk(modal[i], Len(modal) + 1 - i, uid, m_Loginbit, m_bExist, Strained)
    BY DEF Inv, ModalInv, Stacked
  <2>2. Strained = TRUE => faults > 0 \/ leaked[254] = Slots
    BY DEF Strained
  <2> QED
    BY <2>1, <2>2 DEF FrameOk, FlagFits
<1> QED
  BY <1>1, AlwaysInv, PTL

\* Only notices that were sent to a user are marked as read by that user.
THEOREM MarksCorrect == Spec => []MarksAreOfOwnNotices
<1>1. Inv => MarksAreOfOwnNotices
  BY DEF Inv, NoticeInv
<1> QED
  BY <1>1, AlwaysInv, PTL

\* Nobody logs in over somebody who is logged in.
THEOREM LoginCorrect == Spec => LoginOnlyWhenLoggedOut
<1>1. Inv => ((\E name \in Names : OnBnClickedOk(name)) => ~m_Loginbit)
  BY DEF Inv, Window, OnBnClickedOk, Input
<1> QED
  BY <1>1, AlwaysInv, PTL DEF LoginOnlyWhenLoggedOut

-----------------------------------------------------------------------------
(***************************************************************************)
(* The list from one step to the next.                                     *)
(***************************************************************************)
LEMMA ReaderOfOpen == ModalInv /\ Window /\ IsOpen => Reader = uid
BY ReaderIsUser

LEMMA ReaderNext == (ModalInv /\ Window /\ IsOpen => Reader = uid)'
BY ReaderOfOpen, PTL

LEMMA SameList ==
  ASSUME UNCHANGED m_NoticeList
  PROVE  UnreadStaysListed /\ ListChangesToUnread
BY DEF UnreadStaysListed, ListChangesToUnread

\* A list that was fetched without the read notices has none of them, complete or not.
LEMMA FetchedUnread ==
  ASSUME NEW ALL \in BOOLEAN, NEW call, Fetch(uid, ALL, NOTICE_CHECK', call),
         m_Allbutton' = ALL, UNCHANGED copied, IsOpen' => Reader' = uid
  PROVE  ListChangesToUnread
<1> SUFFICES ASSUME ~ALL, copied, IsOpen', NEW n \in m_NoticeList'
             PROVE  <<n, uid>> \notin NOTICE_CHECK'
  BY DEF ListChangesToUnread
<1>1. m_NoticeList' \subseteq SelectNotices(uid, ALL, NOTICE_CHECK')
  BY DEF Fetch, Listed
<1> QED
  BY <1>1 DEF SelectNotices

\* What a fetch takes from the list is read, or the call failed.
LEMMA FetchFollows ==
  ASSUME NoticeInv, ServersInv, NEW ALL \in BOOLEAN, NEW call \in Calls(1),
         Fetch(uid, ALL, NOTICE_CHECK', call), call.fault = 1 => faults' > faults,
         Reader = uid
  PROVE  UnreadStaysListed
<1> SUFFICES ASSUME NEW n \in m_NoticeList, n \notin m_NoticeList'
             PROVE  <<n, uid>> \in NOTICE_CHECK' \/ faults' > faults \/ leaked[1] = Slots
  BY DEF UnreadStaysListed
<1>1. CASE call.ok
  <2>1. m_NoticeList' = SelectNotices(uid, ALL, NOTICE_CHECK')
    BY <1>1 DEF Fetch, Listed
  <2>2. n \in ForUser(uid)
    BY DEF NoticeInv
  <2> QED
    BY <2>1, <2>2 DEF SelectNotices
<1>2. CASE ~call.ok
  <2>1. CallOk(1, call)
    BY CallFacts DEF Servers
  <2>2. call.fault = 1 \/ leaked[1] = Slots
    BY <1>2, <2>1 DEF CallOk
  <2> QED
    BY <2>2
<1> QED
  BY <1>1, <1>2

LEMMA MadeFaults ==
  ASSUME ServersInv, NEW s, NEW call, Made(s, call)
  PROVE  call.fault = 1 => faults' > faults
BY DEF Made, ServersInv

LEMMA NextList ==
  ASSUME Inv, Inv', [Next]_vars
  PROVE  UnreadStaysListed /\ ListChangesToUnread
<1>1. ModalInv /\ Window /\ ServersInv /\ NoticeInv /\ ModalInv' /\ Window'
  BY DEF Inv
<1>2. (IsOpen => Reader = uid) /\ (IsOpen' => Reader' = uid')
  BY <1>1, ReaderOfOpen, ReaderNext
<1>3. CASE Elsewhere
  <2>1. CASE IsOpen /\ modal' = <<>>
    <3>1. ~IsOpen'
      BY <2>1 DEF IsOpen
    <3> QED
      BY <3>1 DEF UnreadStaysListed, ListChangesToUnread
  <2>2. CASE ~(IsOpen /\ modal' = <<>>)
    <3>1. UNCHANGED m_NoticeList
      BY <1>3, <2>2 DEF Elsewhere, notice
    <3> QED
      BY <3>1, SameList
  <2> QED
    BY <2>1, <2>2
<1>4. CASE OnInitDialog
  <2>1. PICK call \in Calls(1) :
          /\ OnCreatorNotice(call)
          /\ IF Tail(modal) = <<>>
             THEN Fetch(uid, FALSE, NOTICE_CHECK, call) /\ UNCHANGED <<m_Allbutton, text>>
             ELSE UNCHANGED notice
    BY <1>4 DEF OnInitDialog
  <2>2. CASE Tail(modal) = <<>>
    <3>1. /\ modal \in Seq(Frame) /\ modal # <<>> /\ Head(modal).kind = "menu"
          /\ UNCHANGED <<uid, NOTICE_CHECK, copied>>
      BY <1>1, <1>4, <2>1 DEF OnInitDialog, OnCreatorNotice, Choose, OnTop, ModalInv, Stacked,
         tables, dialog
    <3>2. ~IsOpen
      BY <1>1, <2>2, <3>1, UnderTop
    <3>3. m_NoticeList = {}
      BY <1>1, <3>2 DEF NoticeInv
    <3>4. UnreadStaysListed
      BY <3>2 DEF UnreadStaysListed
    <3>5. ListChangesToUnread
      <4>1. Fetch(uid, FALSE, NOTICE_CHECK', call) /\ UNCHANGED m_Allbutton
        BY <2>1, <2>2, <3>1
      <4>2. CASE m_Allbutton
        BY <4>1, <4>2 DEF ListChangesToUnread
      <4>3. CASE ~m_Allbutton
        <5>1. m_Allbutton' = FALSE
          BY <1>1, <4>1, <4>3 DEF NoticeInv
        <5> QED
          BY <1>2, <3>1, <4>1, <5>1, FetchedUnread
      <4> QED
        BY <4>2, <4>3
    <3> QED
      BY <3>4, <3>5
  <2>3. CASE Tail(modal) # <<>>
    BY <2>1, <2>3, SameList DEF notice
  <2> QED
    BY <2>2, <2>3
<1>5. CASE ClickCheck1
  <2>1. /\ IsOpen /\ m_Allbutton' = ~m_Allbutton /\ (~m_Allbutton) \in BOOLEAN
        /\ UNCHANGED <<uid, NOTICE_CHECK, copied>>
    BY <1>1, <1>5 DEF ClickCheck1, OnlyDialog, tables, dialog, NoticeInv
  <2>2. PICK call \in Calls(1) :
          OnBnClickedCheck1(~m_Allbutton, NOTICE_CHECK, call) /\ Made(1, call)
    BY <1>5 DEF ClickCheck1
  <2>3. Fetch(uid, ~m_Allbutton, NOTICE_CHECK', call)
    BY <1>2, <2>1, <2>2 DEF OnBnClickedCheck1
  <2> QED
    BY <1>1, <1>2, <2>1, <2>2, <2>3, FetchedUnread, FetchFollows, MadeFaults
<1>6. ASSUME NEW n \in 0 .. MaxNotices, OnNMClickList1(n)
      PROVE  UnreadStaysListed /\ ListChangesToUnread
  <2>1. IsOpen /\ m_Allbutton \in BOOLEAN /\ UNCHANGED <<uid, m_Allbutton, copied>>
    BY <1>1, <1>6 DEF OnNMClickList1, OnlyDialog, dialog, NoticeInv
  <2>2. PICK read \in Calls(254), list \in Calls(1) :
          /\ ReadNotice(n, Reader, read) /\ ~read.box
          /\ faults' = faults + read.fault + list.fault /\ faults' <= MaxFaults
          /\ leaked' = [leaked EXCEPT ![254] = @ + read.leak, ![1] = @ + list.leak]
          /\ OnBnClickedCheck1(m_Allbutton, NOTICE_CHECK', list)
    BY <1>6, Zenon DEF OnNMClickList1
  <2>3. Fetch(uid, m_Allbutton, NOTICE_CHECK', list)
    BY <1>2, <2>1, <2>2 DEF OnBnClickedCheck1
  <2>4. read.fault \in {0, 1}
    BY CallFacts DEF Servers, CallOk
  <2>5. list.fault = 1 => faults' > faults
    BY <1>1, <2>2, <2>4 DEF ServersInv
  <2> QED
    BY <1>1, <1>2, <2>1, <2>3, <2>5, FetchedUnread, FetchFollows
<1>7. CASE DismissReadBox
  <2>1. /\ OnTop("read_box") /\ m_Allbutton \in BOOLEAN
        /\ UNCHANGED <<uid, m_Allbutton, NOTICE_CHECK, copied>>
    BY <1>1, <1>7 DEF DismissReadBox, tables, dialog, NoticeInv
  <2>2. IsOpen
    BY <1>1, <2>1, UnderReadBox
  <2>3. PICK call \in Calls(1) :
          OnBnClickedCheck1(m_Allbutton, NOTICE_CHECK, call) /\ Made(1, call)
    BY <1>7 DEF DismissReadBox
  <2>4. Fetch(uid, m_Allbutton, NOTICE_CHECK', call)
    BY <1>2, <2>1, <2>2, <2>3 DEF OnBnClickedCheck1
  <2> QED
    BY <1>1, <1>2, <2>1, <2>2, <2>3, <2>4, FetchedUnread, FetchFollows, MadeFaults
<1>8. CASE \/ \E to \in Users \cup {Everybody} : SendNotice(to)
           \/ SelectByKey
           \/ \E n \in 0 .. MaxNotices : ReadNoticeFails(n)
           \/ OtherDialogReads
           \/ UNCHANGED vars
  <2>1. UNCHANGED m_NoticeList
    BY <1>8 DEF SendNotice, SelectByKey, ReadNoticeFails, OtherDialogReads, notice, vars
  <2> QED
    BY <2>1, SameList
<1> QED
  BY <1>3, <1>4, <1>5, <1>6, <1>7, <1>8 DEF Next

\* The list follows the tables: a notice leaves it when it is read or a call fails, and a
\* list of unread notices has no notice that is read.
THEOREM ListCorrect == Spec => ListFollowsTables
<1>1. Inv /\ Inv' /\ [Next]_vars => UnreadStaysListed /\ ListChangesToUnread
  BY NextList
<1> QED
  BY <1>1, AlwaysInv, PTL DEF Spec, ListFollowsTables
=============================================================================
