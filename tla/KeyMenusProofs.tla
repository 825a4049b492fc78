--------------------------- MODULE KeyMenusProofs ---------------------------
(***************************************************************************)
(* Theorems about the menus and the keys, for every set of lock state      *)
(* changes and any number of returns of BootLinux: what a key confirms,    *)
(* and what happens to a boot that nobody pauses.                          *)
(***************************************************************************)
EXTENDS KeyMenus, TLAPS

Mains == {"load", "draw", "wait", "fastboot", "continue", "linux", "os", "exit", "off"}

\* What a gMenuInfo of this owner holds: zero, or the state of one of its menus
InfoOf(o) ==
  [type : {"yellow"} \cup {m \in Menus : Owner(m) = o},
   num : Nat, index : Nat, timeout : BOOLEAN]

InfoTyped ==
  /\ DOMAIN info = Owners
  /\ \A o \in Owners : info[o] \in InfoOf(o)
  /\ \A o \in Owners : info[o].type # "yellow" => info[o].num = Len(Options(info[o].type))

ScreenTyped == screen \in [menu : {"none"} \cup Menus, option : Int,
                           notice : {"none", "pause", "continue"}]

MenuTypeOK ==
  /\ main \in Mains
  /\ drawing \in {"none"} \cup Menus
  /\ event \in {"none"} \cup Owners
  /\ InfoTyped
  /\ ScreenTyped
  /\ poweroff \in BOOLEAN
  /\ returns \in Nat

\* Where the main thread is says which event may be there.
Phases ==
  /\ main = "draw" => drawing \in Menus
  /\ main \notin {"draw", "off"} => drawing = "none"
  /\ main \in {"load", "linux"} => event = "none"
  /\ main = "wait" => event \in {"none", "warning"}
  /\ main = "draw" /\ drawing = "fastboot" => event = "none"
  /\ main = "draw" /\ drawing \in Changes => info["unlock"].type = "yellow"

\* While the event of a complete unlock menu is there, the screen shows that
\* menu with the option that the power key would execute, unless a warning is
\* being drawn over it.
ScreenAgrees ==
  (event = "unlock" /\ info["unlock"].type # "yellow" /\ drawing # "yellow") =>
    /\ screen.menu = info["unlock"].type
    /\ info["unlock"].index < 2 => screen.option = info["unlock"].index

MenuInv == MenuTypeOK /\ Phases /\ ScreenAgrees

\* Before BootLinux has returned there was one warning at most, and its notice
\* tells whether it was paused.
FirstWarning ==
  returns = 0 =>
    /\ main \in {"load", "draw", "wait", "linux", "os", "off"}
    /\ main = "draw" => drawing = "yellow"
    /\ main \in {"load", "draw"} => ~poweroff /\ event = "none"
    /\ main = "wait" /\ poweroff => screen.notice # "pause"

-----------------------------------------------------------------------------
(* The menus and their options                                             *)

LEMMA MenuOwners ==
  /\ "yellow" \in Menus /\ "fastboot" \in Menus
  /\ \A m \in Menus : Owner(m) \in Owners
  /\ Owner("yellow") = "warning" /\ Owner("fastboot") = "fastboot"
  /\ \A c \in Changes : c # "yellow" /\ c # "fastboot" /\ Owner(c) = "unlock"
BY MenuAssumption DEF Menus, Owner, Owners

LEMMA MenuOptions ==
  /\ Len(Options("yellow")) = 0
  /\ Len(Options("fastboot")) = 5
  /\ \A i \in 1 .. 5 : Options("fastboot")[i] # "change"
  /\ \A c \in Changes : /\ Len(Options(c)) = 2
                        /\ Options(c)[1] # "change"
<1>1. Options("yellow") = <<>>
  BY DEF Options
<1>2. Options("fastboot") = <<"restart", "fastboot", "recover", "poweroff", "qmmi">>
  BY DEF Options
<1>3. \A c \in Changes : Options(c) = <<"restart", "change">>
  BY MenuOwners DEF Options
<1> QED
  BY <1>1, <1>2, <1>3

\* The menu of an event that is not zero
LEMMA InfoKinds ==
  ASSUME InfoTyped, NEW o \in Owners
  PROVE  /\ info[o].num \in Nat /\ info[o].index \in Nat
         /\ o = "warning" => info[o].type = "yellow"
         /\ o = "fastboot" => info[o].type \in {"yellow", "fastboot"}
         /\ o = "unlock" => info[o].type \in {"yellow"} \cup Changes
<1>1. info[o] \in InfoOf(o)
  BY DEF InfoTyped
<1>2. \A m \in Menus : m \in {"yellow", "fastboot"} \cup Changes
  BY DEF Menus
<1> QED
  BY <1>1, <1>2, MenuOwners DEF InfoOf

\* One gMenuInfo is replaced by a well-formed one.
LEMMA InfoUpdate ==
  ASSUME InfoTyped, NEW o \in Owners, NEW i \in InfoOf(o),
         i.type # "yellow" => i.num = Len(Options(i.type)),
         info' = [info EXCEPT ![o] = i]
  PROVE  /\ InfoTyped'
         /\ info'[o] = i
         /\ \A x \in Owners : x # o => info'[x] = info[x]
BY DEF InfoTyped

LEMMA ZeroTyped == \A o \in Owners : Zero \in InfoOf(o)
BY DEF Zero, InfoOf

LEMMA DrawnTyped ==
  ASSUME InfoTyped, NEW m \in Menus
  PROVE  /\ Drawn(m) \in InfoOf(Owner(m))
         /\ Drawn(m).type = m /\ Drawn(m).num = Len(Options(m))
         /\ m \in Changes => Drawn(m).index = 2
<1>1. Owner(m) \in Owners
  BY MenuOwners
<1>2. info[Owner(m)].index \in Nat /\ info[Owner(m)].timeout \in BOOLEAN
  BY <1>1 DEF InfoTyped, InfoOf
<1>3. Len(Options(m)) \in Nat /\ (m \in Changes => Len(Options(m)) = 2)
  BY MenuOptions DEF Menus
<1>4. (m = "yellow" \/ info[Owner(m)].timeout) \in BOOLEAN
  BY <1>2
<1> QED
  BY <1>2, <1>3, <1>4 DEF Drawn, InfoOf

-----------------------------------------------------------------------------
(* The steps                                                               *)

LEMMA MenuInvInit == Init => MenuInv /\ FirstWarning
<1> SUFFICES ASSUME Init
             PROVE  MenuInv /\ FirstWarning
  OBVIOUS
<1>1. InfoTyped
  BY ZeroTyped DEF Init, InfoTyped, Zero
<1>2. ScreenTyped
  BY DEF Init, ScreenTyped, Blank
<1> QED
  BY <1>1, <1>2 DEF Init, MenuInv, MenuTypeOK, Phases, ScreenAgrees, FirstWarning,
                    Mains

\* ShowScreen: a half drawn menu has a state of zero.
LEMMA ShowScreenInv ==
  ASSUME MenuInv, NEW m \in Menus, ShowScreen(m), main # "draw",
         m = "fastboot" => event = "none"
  PROVE  MenuInv'
<1>1. /\ main' = "draw" /\ drawing' = m /\ screen' = Blank
      /\ info' = [info EXCEPT ![Owner(m)] = Zero]
      /\ UNCHANGED <<event, poweroff, returns>>
  BY DEF ShowScreen
<1>2. Owner(m) \in Owners
  BY MenuOwners
<1>3. /\ InfoTyped' /\ info'[Owner(m)] = Zero
      /\ \A x \in Owners : x # Owner(m) => info'[x] = info[x]
  BY <1>1, <1>2, ZeroTyped, InfoUpdate DEF MenuInv, MenuTypeOK, Zero
<1>4. MenuTypeOK'
  BY <1>1, <1>3 DEF MenuInv, MenuTypeOK, ScreenTyped, Blank, Mains
<1>5. m \in Changes => info'["unlock"].type = "yellow"
  BY <1>3, MenuOwners DEF Zero
<1>6. Phases'
  BY <1>1, <1>5 DEF Phases
<1>7. ScreenAgrees'
  BY <1>1, <1>5 DEF ScreenAgrees, Menus
<1> QED
  BY <1>4, <1>6, <1>7 DEF MenuInv

\* MenuKeysHandler with a key
LEMMA PollInv ==
  ASSUME MenuInv, NEW key \in Keys, NEW held \in BOOLEAN, Poll(key, held)
  PROVE  /\ MenuInv'
         /\ FirstWarning => FirstWarning'
         /\ main' = "off" => main # "wait"
<1>1. event \in Owners /\ main \notin {"os", "exit", "off"} /\ UNCHANGED <<drawing, returns>>
  BY DEF Poll, Signalled, MenuInv, MenuTypeOK
<1>2. InfoTyped /\ info[event] \in InfoOf(event)
  BY <1>1 DEF MenuInv, MenuTypeOK, InfoTyped
<1> USE DEF MenuInv, MenuTypeOK, Phases, ScreenAgrees, FirstWarning
<1>3. CASE Nothing
  BY <1>1, <1>3 DEF Nothing, InfoTyped, ScreenTyped
<1>4. ASSUME NEW i \in Nat, Moves(i), info[event].type # "yellow"
      PROVE  MenuInv' /\ (FirstWarning => FirstWarning') /\ main' = main
  <2> DEFINE new == [info[event] EXCEPT !.index = i]
  <2>1. new \in InfoOf(event) /\ new.type = info[event].type
        /\ new.num = info[event].num /\ new.index = i
    BY <1>2 DEF InfoOf
  <2>2. info' = [info EXCEPT ![event] = new]
    BY <1>4 DEF Moves
  <2> HIDE DEF new
  <2>3. /\ InfoTyped' /\ info'[event] = new
        /\ \A x \in Owners : x # event => info'[x] = info[x]
    BY <1>1, <1>2, <2>1, <2>2, InfoUpdate DEF InfoTyped
  <2>4. /\ UNCHANGED <<main, event, poweroff>>
        /\ screen' = [screen EXCEPT !.option = i]
    BY <1>4 DEF Moves
  <2>5. ScreenTyped' /\ screen'.menu = screen.menu /\ screen'.option = i
        /\ screen'.notice = screen.notice
    BY <2>4 DEF ScreenTyped
  <2>6. MenuTypeOK'
    BY <1>1, <2>3, <2>4, <2>5
  <2>7. info'["unlock"].type = info["unlock"].type
    BY <1>1, <2>1, <2>3 DEF Owners
  <2>8. Phases'
    BY <1>1, <2>4, <2>7
  <2>9. ScreenAgrees'
    BY <1>1, <1>4, <2>1, <2>3, <2>4, <2>5
  <2> QED
    BY <1>1, <2>4, <2>5, <2>6, <2>8, <2>9
<1>5. CASE Pauses /\ info[event].type = "yellow"
  <2> DEFINE new == [info[event] EXCEPT !.timeout = TRUE]
  <2>1. new \in InfoOf(event) /\ new.type = "yellow"
    BY <1>2, <1>5 DEF InfoOf
  <2>2. info' = [info EXCEPT ![event] = new]
    BY <1>5 DEF Pauses
  <2> HIDE DEF new
  <2>3. /\ InfoTyped' /\ info'[event] = new
        /\ \A x \in Owners : x # event => info'[x] = info[x]
    BY <1>1, <1>2, <2>1, <2>2, InfoUpdate
  <2>4. /\ UNCHANGED <<main, event>>
        /\ poweroff' = (poweroff \/ event = "warning")
        /\ screen' = [screen EXCEPT !.notice = "continue"]
    BY <1>5 DEF Pauses
  <2>5. ScreenTyped' /\ screen'.notice = "continue"
    BY <2>4 DEF ScreenTyped
  <2>6. poweroff' \in BOOLEAN
    BY <2>4
  <2>7. MenuTypeOK'
    BY <1>1, <2>3, <2>4, <2>5, <2>6
  <2>8. info'["unlock"].type = info["unlock"].type
    BY <1>1, <1>5, <2>1, <2>3 DEF Owners
  <2>9. Phases'
    BY <1>1, <2>4, <2>8
  <2>10. ScreenAgrees'
    BY <1>5, <2>1, <2>3, <2>4
  <2>11. FirstWarning => FirstWarning'
    BY <1>1, <2>4, <2>5 DEF Owners
  <2> QED
    BY <2>4, <2>7, <2>9, <2>10, <2>11
<1>6. CASE Continues
  <2>1. /\ event' = "none" /\ screen' = Blank /\ UNCHANGED <<main, info, poweroff>>
    BY <1>6 DEF Continues, ExitDetection
  <2> QED
    BY <1>1, <2>1 DEF Blank, InfoTyped, ScreenTyped
<1>7. CASE info[event].type # "yellow"
           /\ \E option : Executes(info[event].type, option)
  <2>1. /\ main' = "off" /\ event' = "none" /\ screen' = Blank
        /\ UNCHANGED <<info, poweroff>>
    BY <1>7 DEF Executes
  <2>2. main # "wait"
    BY <1>1, <1>2, <1>7, InfoKinds DEF Owners
  <2> QED
    BY <1>1, <2>1, <2>2 DEF Blank, InfoTyped, ScreenTyped, Mains
<1>8. CASE PowerKeyFunc
  BY <1>3, <1>5, <1>6, <1>7, <1>8 DEF PowerKeyFunc
<1>9. ASSUME NEW k, VolumeKeyFunc(k)
      PROVE  MenuInv' /\ (FirstWarning => FirstWarning') /\ main' = main
  <2>1. CASE info[event].type = "yellow"
    BY <1>1, <1>9, <2>1 DEF VolumeKeyFunc, Nothing, InfoTyped, ScreenTyped
  <2>2. CASE info[event].type # "yellow"
    <3>1. info[event].num \in Nat /\ info[event].index \in Nat
      BY <1>1, <1>2, InfoKinds
    <3>2. info[event].num > 0
      <4>1. info[event].num = Len(Options(info[event].type))
        BY <1>1, <1>2, <2>2 DEF InfoTyped
      <4>2. info[event].type = "fastboot" \/ info[event].type \in Changes
        BY <1>1, <1>2, <2>2, InfoKinds DEF Owners
      <4> QED
        BY <4>1, <4>2, MenuOptions
    <3>3. /\ Up(info[event].index, info[event].num) \in Nat
          /\ Down(info[event].index, info[event].num) \in Nat
      BY <3>1, <3>2 DEF Up, Down
    <3> QED
      BY <1>4, <1>9, <2>2, <3>3 DEF VolumeKeyFunc
  <2> QED
    BY <2>1, <2>2
<1>10. Nothing \/ PowerKeyFunc \/ \E k \in Keys : VolumeKeyFunc(k)
  <2>1. Nothing \/ KeyFunc(lastKey)
    BY DEF Poll
  <2> QED
    BY <2>1 DEF KeyFunc, Keys
<1> QED
  BY <1>1, <1>3, <1>8, <1>9, <1>10

LEMMA MenuInvNext ==
  MenuInv /\ [Next]_vars => MenuInv' /\ (FirstWarning => FirstWarning')
<1> SUFFICES ASSUME MenuInv, [Next]_vars
             PROVE  MenuInv' /\ (FirstWarning => FirstWarning')
  OBVIOUS
<1> USE DEF MenuInv, MenuTypeOK, Phases, ScreenAgrees, FirstWarning
<1>1. ASSUME UNCHANGED <<main, drawing, event, info, poweroff, screen, returns>>
      PROVE  MenuInv' /\ (FirstWarning => FirstWarning')
  BY <1>1 DEF InfoTyped, ScreenTyped
<1>2. CASE UNCHANGED vars \/ Tick
  BY <1>1, <1>2 DEF vars, Tick
<1>3. CASE DetectKeys
  <2>1. /\ main = "draw" /\ drawing \in Menus
        /\ info' = [info EXCEPT ![Owner(drawing)] = Drawn(drawing)]
        /\ screen' = [menu |-> drawing,
                      option |-> IF drawing = "fastboot" THEN 0 ELSE -1,
                      notice |-> IF drawing = "yellow" THEN "pause" ELSE "none"]
        /\ event' = Owner(drawing)
        /\ main' = IF drawing = "yellow" THEN "wait" ELSE "fastboot"
        /\ drawing' = "none"
        /\ UNCHANGED <<poweroff, returns>>
    BY <1>3 DEF DetectKeys
  <2>2. Owner(drawing) \in Owners
    BY <2>1, MenuOwners
  <2>3. /\ InfoTyped' /\ info'[Owner(drawing)] = Drawn(drawing)
        /\ \A x \in Owners : x # Owner(drawing) => info'[x] = info[x]
    <3>1. /\ InfoTyped /\ Drawn(drawing) \in InfoOf(Owner(drawing))
          /\ Drawn(drawing).num = Len(Options(Drawn(drawing).type))
      BY <2>1, DrawnTyped
    <3> QED
      BY <2>1, <2>2, <3>1, InfoUpdate
  <2>4. ScreenTyped'
    BY <2>1 DEF ScreenTyped
  <2>5. MenuTypeOK'
    BY <2>1, <2>2, <2>3, <2>4 DEF Mains
  <2>6. Phases'
    BY <2>1, MenuOwners
  <2>7. ScreenAgrees'
    <3>1. SUFFICES ASSUME event' = "unlock"
                   PROVE  screen'.menu = info'["unlock"].type
                          /\ ~(info'["unlock"].index < 2)
      OBVIOUS
    <3>2. drawing \in Changes
      BY <2>1, <3>1, MenuOwners DEF Menus
    <3> QED
      BY <2>1, <2>3, <3>1, <3>2, DrawnTyped
  <2>8. FirstWarning => FirstWarning'
    BY <2>1
  <2> QED
    BY <2>5, <2>6, <2>7, <2>8
<1>4. CASE DrawFails
  <2>1. /\ main = "draw" /\ drawing' = "none" /\ UNCHANGED <<info, poweroff, returns>>
        /\ IF drawing = "yellow"
           THEN main' = "linux" /\ event' = "none" /\ screen' = Blank
           ELSE main' = "fastboot" /\ UNCHANGED <<event, screen>>
    BY <1>4 DEF DrawFails, ExitDetection
  <2>2. MenuTypeOK' /\ Phases'
    BY <2>1 DEF Blank, InfoTyped, ScreenTyped, Mains
  <2>3. ScreenAgrees' /\ (FirstWarning => FirstWarning')
    BY <2>1
  <2> QED
    BY <2>2, <2>3
<1>5. CASE LoadImageAndAuth
  <2>1. main \in {"load", "continue"}
    BY <1>5 DEF LoadImageAndAuth
  <2>2. CASE ShowScreen("yellow")
    <3>1. MenuInv'
      BY <2>1, <2>2, ShowScreenInv, MenuOwners
    <3>2. FirstWarning => FirstWarning'
      BY <2>1, <2>2 DEF ShowScreen
    <3> QED
      BY <3>1, <3>2
  <2>3. CASE ~ShowScreen("yellow")
    <3>1. /\ main' = "linux" /\ UNCHANGED <<drawing, info, poweroff, returns>>
          /\ IF main = "continue" THEN event' = "none" /\ screen' = Blank
             ELSE UNCHANGED <<event, screen>>
      BY <1>5, <2>3 DEF LoadImageAndAuth, ExitDetection
    <3>2. ScreenTyped'
      BY <3>1 DEF ScreenTyped, Blank
    <3> QED
      BY <2>1, <3>1, <3>2 DEF InfoTyped, Mains
  <2> QED
    BY <2>2, <2>3
<1>6. CASE WaitEnds \/ BootOs \/ CmdContinue
  BY <1>6 DEF WaitEnds, BootOs, CmdContinue, InfoTyped, ScreenTyped, Mains
<1>7. CASE BootLinuxReturns
  <2>1. CASE returns = 0
    <3>1. /\ main = "linux" /\ main' = "draw" /\ drawing' = "fastboot"
          /\ info' = [info EXCEPT !["fastboot"] = Zero]
          /\ screen' = Blank /\ UNCHANGED <<event, poweroff>>
          /\ returns' = 1
      BY <1>7, <2>1 DEF BootLinuxReturns
    <3>2. InfoTyped'
      BY <3>1, ZeroTyped, InfoUpdate DEF Zero, Owners
    <3>3. MenuTypeOK'
      BY <3>1, <3>2, MenuOwners DEF ScreenTyped, Blank, Mains
    <3> QED
      BY <3>1, <3>3, MenuOwners
  <2>2. CASE returns # 0
    <3>1. /\ main = "linux" /\ main' = "exit" /\ returns' = returns + 1
          /\ UNCHANGED <<drawing, event, info, poweroff, screen>>
      BY <1>7, <2>2 DEF BootLinuxReturns
    <3> QED
      BY <3>1 DEF InfoTyped, ScreenTyped, Mains
  <2> QED
    BY <2>1, <2>2
<1>8. ASSUME NEW c \in Changes, SetDeviceUnlock(c)
      PROVE  MenuInv' /\ (FirstWarning => FirstWarning')
  <2>1. c \in Menus /\ c # "fastboot" /\ main = "fastboot" /\ ShowScreen(c)
    BY <1>8, MenuOwners DEF SetDeviceUnlock, Menus
  <2>2. MenuInv'
    BY <2>1, ShowScreenInv
  <2> QED
    BY <2>1, <2>2 DEF ShowScreen
<1>9. CASE Timeout \/ KeyError
  <2>1. /\ main' \in {main, "off"} /\ event' = "none" /\ screen' = Blank
        /\ UNCHANGED <<drawing, info, poweroff, returns>>
    BY <1>9 DEF Timeout, KeyError, ExitDetection
  <2> QED
    BY <2>1 DEF InfoTyped, ScreenTyped, Blank, Mains
<1>10. ASSUME NEW key \in Keys, NEW held \in BOOLEAN, Poll(key, held)
       PROVE  MenuInv' /\ (FirstWarning => FirstWarning')
  BY <1>10, PollInv
<1> QED
  BY <1>2, <1>3, <1>4, <1>5, <1>6, <1>7, <1>8, <1>9, <1>10
  DEF Next, MainThread, MenuKeysHandler

LEMMA MenuSafety == Spec => [](MenuInv /\ FirstWarning)
<1>1. MenuInv /\ FirstWarning /\ [Next]_vars => (MenuInv /\ FirstWarning)'
  BY MenuInvNext
<1> QED
  BY <1>1, MenuInvInit, PTL DEF Spec

-----------------------------------------------------------------------------
(* The theorems                                                            *)

LEMMA ConfirmedStep ==
  ASSUME MenuInv, [Next]_vars, chosen' # chosen, chosen'.option = "change",
         drawing # "yellow"
  PROVE  screen.menu = chosen'.menu /\ screen.option = 1
<1>1. PICK key \in Keys, held \in BOOLEAN : Poll(key, held)
  BY DEF Next, vars, MainThread, MenuKeysHandler, Tick, DetectKeys, DrawFails,
         LoadImageAndAuth, ShowScreen, WaitEnds, BootOs, BootLinuxReturns,
         SetDeviceUnlock, CmdContinue, Timeout, KeyError
<1>2. event \in Owners
  BY <1>1 DEF Poll, Signalled, MenuInv, MenuTypeOK
<1> DEFINE i == info[event]
<1>3. /\ i.type # "yellow" /\ i.index < i.num
      /\ Executes(i.type, Options(i.type)[i.index + 1])
  BY <1>1 DEF Poll, KeyFunc, PowerKeyFunc, VolumeKeyFunc, Pauses, Continues,
              Moves, Nothing
<1>4. chosen'.menu = i.type /\ Options(i.type)[i.index + 1] = "change"
  BY <1>3 DEF Executes
<1>5. InfoTyped
  BY DEF MenuInv, MenuTypeOK
<1>6. i.num = Len(Options(i.type)) /\ i.index \in Nat
  BY <1>2, <1>3, <1>5, InfoKinds DEF InfoTyped
<1>7. event # "fastboot"
  <2> SUFFICES ASSUME event = "fastboot"
               PROVE  FALSE
    OBVIOUS
  <2>1. i.type = "fastboot" /\ i.num = 5 /\ i.index + 1 \in 1 .. 5
    BY <1>2, <1>3, <1>5, <1>6, InfoKinds, MenuOptions
  <2> QED
    BY <1>4, <2>1, MenuOptions
<1>8. event = "unlock" /\ i.type \in Changes
  BY <1>2, <1>3, <1>5, <1>7, InfoKinds DEF Owners
<1>9. i.index = 1
  BY <1>3, <1>4, <1>6, <1>8, MenuOptions
<1> QED
  BY <1>3, <1>4, <1>8, <1>9 DEF MenuInv, ScreenAgrees

\* No key, held or repeated, that the timer event handles between any two steps
\* of the main thread changes the lock state unless the screen shows the menu
\* that asks for this change with its second option highlighted.
THEOREM Confirmed == Spec => ConfirmedOnScreen
<1>1. MenuInv /\ [Next]_vars =>
        [ chosen' # chosen /\ chosen'.option = "change" /\ drawing # "yellow"
            => screen.menu = chosen'.menu /\ screen.option = 1 ]_vars
  BY ConfirmedStep
<1> QED
  BY <1>1, MenuSafety, PTL DEF Spec, ConfirmedOnScreen

\* The first warning that offers to pause the boot does not shut the device
\* down: only a press of the power key lets its time end in ShutdownDevice.
THEOREM PauseIsOffered == Spec => PauseOffered
<1>1. MenuInv /\ FirstWarning /\ [Next]_vars =>
        [returns = 0 /\ main = "wait" /\ screen.notice = "pause" => main' # "off"]_vars
  <2> SUFFICES ASSUME MenuInv, FirstWarning, Next,
                      returns = 0, main = "wait", screen.notice = "pause",
                      main' = "off"
               PROVE  FALSE
    OBVIOUS
  <2>1. ~poweroff /\ event \in {"none", "warning"}
    BY DEF MenuInv, Phases, FirstWarning
  <2>2. ~Timeout
    BY <2>1 DEF Timeout, Signalled
  <2>3. ~MainThread /\ ~Tick /\ ~KeyError
    BY DEF MainThread, DetectKeys, DrawFails, LoadImageAndAuth, WaitEnds, BootOs,
           BootLinuxReturns, SetDeviceUnlock, CmdContinue, Tick, KeyError
  <2>4. ASSUME NEW key \in Keys, NEW held \in BOOLEAN
        PROVE  ~Poll(key, held)
    BY PollInv
  <2> QED
    BY <2>2, <2>3, <2>4 DEF Next, MenuKeysHandler
<1> QED
  BY <1>1, MenuSafety, PTL DEF Spec, PauseOffered
=============================================================================
