------------------------------ MODULE KeyMenus ------------------------------
(***************************************************************************)
(* The menus and the keys (MenuKeysDetection.c with FastbootMenu.c,        *)
(* UnlockMenu.c and VerifiedBootMenu.c).  A timer event handles the keys   *)
(* at TPL_CALLBACK, whatever the main thread does meanwhile: it draws      *)
(* menus, waits for a warning to be acknowledged, executes commands of the *)
(* host.  Both share the state of the menus, which each file keeps in a    *)
(* static gMenuInfo; the event carries the one it belongs to.              *)
(*                                                                         *)
(* A menu is drawn line by line, so the event that was there before may be *)
(* signalled while a menu is half drawn and its state is zero.  The few    *)
(* instructions that set the state at the end are one step.                *)
(***************************************************************************)
EXTENDS Integers, Sequences

CONSTANTS
  Changes,        \* the lock state changes that a host asks for
  MaxReturns      \* times BootLinux fails and returns

ASSUME MenuAssumption ==
  MaxReturns \in Nat /\ Changes \cap {"yellow", "fastboot"} = {}

VARIABLES
  main,       \* what the main thread does
  drawing,    \* the menu it draws
  event,      \* CallbackKeyDetection: the gMenuInfo it belongs to, or none
  info,       \* the three gMenuInfo
  poweroff,   \* the warning's NoticeMsg.Action is POWEROFF; static
  screen,     \* what the user sees: menu, highlighted option, notice
  late,       \* more than TimeoutTime has passed since StartTimer
  lastKey,    \* LastKey
  isRefresh,  \* IsRefresh
  chosen,     \* the option that was executed, and on which menu
  returns

vars == <<main, drawing, event, info, poweroff, screen, late, lastKey, isRefresh,
          chosen, returns>>

Owners == {"warning", "fastboot", "unlock"}       \* the three gMenuInfo
Menus == {"yellow", "fastboot"} \cup Changes
Owner(menu) == IF menu = "yellow" THEN "warning"
               ELSE IF menu = "fastboot" THEN "fastboot" ELSE "unlock"
Keys == {"none", "up", "down", "power"}

\* The actions of the options, in their order on the menu.
Options(menu) ==
  CASE menu = "fastboot" -> <<"restart", "fastboot", "recover", "poweroff", "qmmi">>
    [] menu = "yellow" -> <<>>
    [] OTHER -> <<"restart", "change">>

Blank == [menu |-> "none", option |-> -1, notice |-> "none"]
NoChoice == [menu |-> "none", option |-> "none"]

\* DISPLAY_MENU_YELLOW is zero.
Zero == [type |-> "yellow", num |-> 0, index |-> 0, timeout |-> FALSE]

Init ==
  /\ main = "load" /\ drawing = "none" /\ event = "none"
  /\ info = [o \in Owners |-> Zero]
  /\ poweroff = FALSE /\ late = FALSE /\ isRefresh = FALSE
  /\ screen = Blank
  /\ lastKey = "none" /\ chosen = NoChoice
  /\ returns = 0

-----------------------------------------------------------------------------
(* The main thread                                                         *)

keyState == <<lastKey, isRefresh>>

\* UnlockMenuShowScreen, FastbootMenuShowScreen, VerifiedBootMenuShowScreen:
\* the state is zeroed, then the lines are drawn.
ShowScreen(menu) ==
  /\ main' = "draw"
  /\ drawing' = menu
  /\ info' = [info EXCEPT ![Owner(menu)] = Zero]
  /\ screen' = Blank
  /\ UNCHANGED <<event, poweroff, late, keyState, chosen, returns>>

\* Mutants: the last option is selected from the start; the warning has no
\* time.
DrawnSelected(menu) ==
  [type |-> menu, num |-> Len(Options(menu)),
   index |-> IF menu \in Changes THEN Len(Options(menu)) - 1 ELSE info[Owner(menu)].index,
   timeout |-> menu = "yellow" \/ info[Owner(menu)].timeout]
DrawnWithoutTime(menu) ==
  [type |-> menu, num |-> Len(Options(menu)),
   index |-> IF menu \in Changes THEN Len(Options(menu)) ELSE info[Owner(menu)].index,
   timeout |-> FALSE]

\* The state a menu is drawn with.  The unlock menu highlights no option.
Drawn(menu) ==
  [type |-> menu, num |-> Len(Options(menu)),
   index |-> IF menu \in Changes THEN Len(Options(menu)) ELSE info[Owner(menu)].index,
   timeout |-> menu = "yellow" \/ info[Owner(menu)].timeout]

\* The end of ShowScreen, and MenuKeysDetectionInit: StartTimer, and an event
\* of this menu in place of the one before.
DetectKeys ==
  /\ main = "draw"
  /\ info' = [info EXCEPT ![Owner(drawing)] = Drawn(drawing)]
  /\ screen' = [menu |-> drawing, option |-> IF drawing = "fastboot" THEN 0 ELSE -1,
                notice |-> IF drawing = "yellow" THEN "pause" ELSE "none"]
  /\ event' = Owner(drawing)
  /\ late' = FALSE
  /\ main' = IF drawing = "yellow" THEN "wait" ELSE "fastboot"
  /\ drawing' = "none"
  /\ UNCHANGED <<poweroff, keyState, chosen, returns>>

\* ExitMenuKeysDetection
ExitDetection == event' = "none" /\ screen' = Blank

\* DrawMenu fails: the state stays as it is, and so does the event.
\* DisplayVerifiedBootScreen waits 5 seconds instead.
DrawFails ==
  /\ main = "draw"
  /\ IF drawing = "yellow" THEN main' = "linux" /\ ExitDetection
     ELSE main' = "fastboot" /\ UNCHANGED <<event, screen>>
  /\ drawing' = "none"
  /\ UNCHANGED <<info, poweroff, late, keyState, chosen, returns>>

\* LoadImageAndAuth, up to DisplayVerifiedBootScreen, called by
\* LinuxLoaderEntry ("load") or CmdContinue ("continue").  A warning is shown
\* when BootState is YELLOW, which depends on the slot.
LoadImageAndAuth ==
  /\ main \in {"load", "continue"}
  /\ \/ ShowScreen("yellow")
     \/ /\ main' = "linux"
        /\ IF main = "continue" THEN ExitDetection ELSE UNCHANGED <<event, screen>>
        /\ UNCHANGED <<drawing, info, poweroff, late, keyState, chosen, returns>>

\* WaitForExitKeysDetection; CmdContinue calls ExitMenuKeysDetection again.
WaitEnds ==
  /\ main = "wait" /\ event = "none"
  /\ main' = "linux"
  /\ UNCHANGED <<drawing, event, info, poweroff, screen, late, keyState, chosen, returns>>

BootOs ==
  /\ main = "linux"
  /\ main' = "os"
  /\ UNCHANGED <<drawing, event, info, poweroff, screen, late, keyState, chosen, returns>>

\* BootLinux returns.  The first time LinuxLoaderEntry goes on to fastboot,
\* which shows its menu; after CmdContinue the loader ends.
BootLinuxReturns ==
  /\ main = "linux" /\ returns < MaxReturns
  /\ returns' = returns + 1
  /\ IF returns = 0
     THEN /\ main' = "draw" /\ drawing' = "fastboot"
          /\ info' = [info EXCEPT !["fastboot"] = Zero]
          /\ screen' = Blank
     ELSE main' = "exit" /\ UNCHANGED <<drawing, info, screen>>
  /\ UNCHANGED <<event, poweroff, late, keyState, chosen>>

\* SetDeviceUnlock displays a menu, in place of any other.
SetDeviceUnlock(c) == main = "fastboot" /\ ShowScreen(c)

CmdContinue ==
  /\ main = "fastboot"
  /\ main' = "continue"
  /\ UNCHANGED <<drawing, event, info, poweroff, screen, late, keyState, chosen, returns>>

-----------------------------------------------------------------------------
(* MenuKeysHandler                                                         *)

\* Up and down from index i of n options; anything beyond the last option
\* is a start value.
Up(i, n) == IF i = 0 \/ i > n - 1 THEN n - 1 ELSE i - 1

Down(i, n) == IF i >= n - 1 THEN 0 ELSE i + 1

\* MenuVolumeUpFunc, MenuVolumeDownFunc: the new option is highlighted on
\* whatever the screen shows.
Moves(i) ==
  /\ info' = [info EXCEPT ![event].index = i]
  /\ screen' = [screen EXCEPT !.option = i]
  /\ UNCHANGED <<main, event, poweroff, late, isRefresh, chosen>>

\* UpdateDeviceStatus with an option that restarts or stops the device.
Executes(menu, option) ==
  /\ chosen' = [menu |-> menu, option |-> option]
  /\ main' = "off" /\ event' = "none" /\ screen' = Blank
  /\ UNCHANGED <<info, poweroff, late, isRefresh>>

\* PowerKeyFunc on a warning: the first press pauses, the next one continues.
\* IsRefresh and the notice's action stay as they are from then on.
Pauses ==
  /\ ~isRefresh /\ isRefresh' = TRUE
  /\ late' = FALSE
  /\ info' = [info EXCEPT ![event].timeout = TRUE]
  /\ poweroff' = (poweroff \/ event = "warning")
  /\ screen' = [screen EXCEPT !.notice = "continue"]
  /\ UNCHANGED <<main, event, chosen>>

Continues ==
  /\ isRefresh
  /\ ExitDetection
  /\ UNCHANGED <<main, info, poweroff, late, isRefresh, chosen>>

Nothing == UNCHANGED <<main, event, info, poweroff, screen, late, isRefresh, chosen>>

PowerKeyFunc ==
  LET i == info[event] IN
  \/ i.type = "yellow" /\ (Pauses \/ Continues)
  \/ i.type # "yellow" /\ i.index < i.num
       /\ Executes(i.type, Options(i.type)[i.index + 1])
  \/ i.type # "yellow" /\ i.index >= i.num /\ Nothing

VolumeKeyFunc(key) ==
  LET i == info[event] IN
  IF i.type = "yellow" THEN Nothing
  ELSE Moves(IF key = "up" THEN Up(i.index, i.num) ELSE Down(i.index, i.num))

KeyFunc(key) ==
  \/ key = "power" /\ PowerKeyFunc
  \/ key \in {"up", "down"} /\ VolumeKeyFunc(key)
  \/ key = "none" /\ Nothing

\* MenuPagesAction
Signalled == event # "none" /\ main \notin {"os", "exit", "off"}

TimedOut == info[event].timeout /\ late

\* Mutant: the action of the notice is not looked at.
TimeoutAlwaysOff ==
  /\ Signalled /\ TimedOut
  /\ ExitDetection
  /\ main' = IF info[event].type = "yellow" THEN "off" ELSE main
  /\ UNCHANGED <<drawing, info, poweroff, late, keyState, chosen, returns>>

\* The warning's time is over: the detection ends, and the device is shut
\* down when the boot was paused.
Timeout ==
  /\ Signalled /\ TimedOut
  /\ ExitDetection
  /\ main' = IF info[event].type = "yellow" /\ (event = "warning" => poweroff)
             THEN "off" ELSE main
  /\ UNCHANGED <<drawing, info, poweroff, late, keyState, chosen, returns>>

\* A key acts when it is released, or again and again when it is held.
Poll(key, held) ==
  /\ Signalled /\ ~TimedOut
  /\ held => key = lastKey
  /\ IF held \/ key = "none" THEN KeyFunc(lastKey) ELSE Nothing
  /\ lastKey' = key
  /\ UNCHANGED <<drawing, returns>>

\* GetKeyPress fails, or StartKeyDetectTimer has failed at the end of the
\* step before (MenuKeysDetectionInit, the last call of the handler): either
\* way ExitMenuKeysDetection, with no other effect.
KeyError ==
  /\ Signalled /\ ~TimedOut
  /\ ExitDetection
  /\ UNCHANGED <<main, drawing, info, poweroff, late, keyState, chosen, returns>>

\* GetTimerCountms () - StartTimer
Tick ==
  /\ ~late
  /\ late' = TRUE
  /\ UNCHANGED <<main, drawing, event, info, poweroff, screen, keyState, chosen, returns>>

-----------------------------------------------------------------------------

MainThread ==
  \/ DetectKeys \/ DrawFails \/ LoadImageAndAuth \/ WaitEnds \/ BootOs
  \/ BootLinuxReturns \/ CmdContinue \/ \E c \in Changes : SetDeviceUnlock(c)

MenuKeysHandler ==
  \/ Timeout \/ KeyError
  \/ \E key \in Keys, held \in BOOLEAN : Poll(key, held)

Next == MainThread \/ MenuKeysHandler \/ Tick

Spec == Init /\ [][Next]_vars

\* Time passes, the timer is signalled and the waiting loop looks at the
\* event.
FairSpec ==
  Spec /\ WF_vars(Tick) /\ WF_vars(Timeout) /\ WF_vars(WaitEnds) /\ WF_vars(DetectKeys)

-----------------------------------------------------------------------------
(* Properties                                                              *)

\* A change of the lock state is executed only when the screen shows the menu
\* that asks for it, completely drawn, with the option highlighted by a volume
\* key: neither another menu drawn in its place nor a key held meanwhile (the
\* static LastKey) confirms anything.  The exception is a warning that is being
\* drawn: the event of the menu it replaces is still signalled.
ConfirmedOnScreen ==
  [][ chosen' # chosen /\ chosen'.option = "change" /\ drawing # "yellow"
        => screen.menu = chosen'.menu /\ screen.option = 1 ]_vars

\* A warning that offers to pause the boot ("PRESS POWER KEY TO PAUSE BOOT")
\* leads to a boot when nobody presses a key.  That is so for the first one:
\* IsRefresh and the notice's action keep their values for a second.
PauseOffered ==
  [][ returns = 0 /\ main = "wait" /\ screen.notice = "pause" => main' # "off" ]_vars

\* WaitForExitKeysDetection returns, or the device is shut down, whatever keys
\* are pressed.
WarningEnds == main = "wait" ~> main # "wait"

=============================================================================
