------------------------------ MODULE DeviceUi ------------------------------
(* The device's own touch screen: the native child's screens, their touch     *)
(* handlers and labels (eez/src/ui, cgo/screen.c, the jetkvm_ui_* entry points *)
(* of cgo/ctrl.c) and the main process's goroutines that drive them           *)
(* (display.go, hw.go, rpcSetDisplayRotation).                                *)
(*                                                                            *)
(* Every call into C, the LVGL timer handler with all touch callbacks         *)
(* included, runs under cgoLock (internal/native/cgo_linux.go), so one C call  *)
(* is one step; the goroutines' sequences of calls interleave.                *)
(* Time is counted in units of five seconds, the shorter hold time.           *)
EXTENDS ScreenTree, FiniteSets

CONSTANTS
  Updaters,       \* goroutines that may run updateDisplay at the same time
  Fingered,       \* widgets the finger is put on
  Networks,       \* states of the network: "down", "ipv4", "ipv6"
  Links,          \* indicators whose subject changes
  Rotations,      \* rotations the rotation setting is changed to
  BlankFacts,     \* facts of the About page that are empty on this build
  VersionLength,  \* length of the application's version string
  SystemLength,   \* length of the system's version string
  MaxChanges,     \* bound: changes of the network
  MaxEvents       \* bound: other update requests, rotation settings, deaths of
                  \* the child and reboots that fail

ASSUME UiAssumption ==
  /\ Updaters # {} /\ IsFiniteSet(Updaters)
  /\ Fingered \subseteq DOMAIN objects
  /\ Networks \subseteq {"down", "ipv4", "ipv6"} /\ "down" \in Networks
  /\ Links \subseteq {"usb_status_label", "hdmi_status_label", "cloud_status_icon"}
  /\ BlankFacts \subseteq {"build_branch", "build_date", "golang_version",
                           "kernel_version", "cpu_serial"}
  /\ MaxChanges \in Nat /\ MaxEvents \in Nat

Degrees == 0..65535     \* uint16_t

ASSUME RotationAssumption == Rotations \subseteq Degrees

ASSUME VersionAssumption == VersionLength \in 1..99 /\ SystemLength \in 1..99

VARIABLES
  \* The native child.
  active,         \* the screen LVGL shows
  currentScreen,  \* the screen ui_tick refreshes
  hidden,         \* the widgets with LV_OBJ_FLAG_HIDDEN
  main_screen,    \* the variable of that name
  vars,           \* lengths of app_version and system_version, and whether
                  \* lvgl_version has been composed
  text,           \* length of the version texts on the boot and About screens
  status,         \* the status labels: which say Connected, LV_STATE_* set on them
  locks,          \* the hold actions whose lock is set
  panel,          \* rotation, display, calibration, padding, touchscreen
  touch,          \* the finger, as LVGL follows it
  \* The main process.
  net,            \* the network: "down", "ipv4" or "ipv6" (both addresses)
  links,          \* indicators whose subject is up: usbState, lastVideoState.Ready,
                  \* cloudConnectionState
  config,         \* config.DisplayRotation and the rotation the child starts with
  inited,         \* displayInited
  pending,        \* goroutines about to call requestDisplayUpdate
  upd,            \* per goroutine of updateDisplay: pc, IsUp as read
  reboot,         \* hwReboot: pc, IsUp as read
  \* What the environment may still do, and histories for the properties.
  changes,        \* network changes so far, at most MaxChanges
  events,         \* other events so far, at most MaxEvents
  restarted,      \* the child has died and its successor is not yet announced
  fired,          \* RPC events sent during this press
  stuck,          \* hold actions whose finger left by a swipe after they fired
  settled         \* an update has run alone since the last change

native == <<active, currentScreen, hidden, main_screen, vars, text, status, locks, panel, touch>>
main   == <<net, links, config, inited, pending, upd, reboot>>
hist   == <<fired, stuck, settled>>
env    == <<changes, events, restarted>>
vars_  == <<native, main, env, hist>>
-----------------------------------------------------------------------------
(* The three actions that need a held button, with their hold times, the      *)
(* widgets they swap once they fire and the RPC they send.                    *)
Holds == {"action_reset_config", "action_dhcpc", "action_reboot"}

HoldTime(a) == IF a = "action_reset_config" THEN 2 ELSE 1

SwappedOut(a) == IF a = "action_reset_config" THEN {"reset_config_button"} ELSE {}
SwappedIn(a)  == IF a = "action_reset_config" THEN {"reset_config_spinner"} ELSE {}

Rpc(a) == CASE a = "action_reset_config" -> "resetConfig"
            [] a = "action_dhcpc"        -> "toggleDHCPClient"
            [] a = "action_reboot"       -> "reboot"

MaxHold == 2                            \* the longest hold time

(* Where a handler that only switches screens goes; None: it does not.        *)
MainScreens == {"home_screen", "no_network_screen"}

Direction(h) == IF h = "action_home_screen_gesture" THEN "left" ELSE "right"

(* mutant: the menu's swipe knows one main screen only                         *)
main_switch_to_home_only(main_var) ==
  IF main_var = "home_screen" THEN main_var ELSE None

handle_gesture_main_screen_switch(main_var) ==
  IF main_var \in MainScreens THEN main_var ELSE None

Target(h, main_var) ==
  CASE h = "action_switch_to_menu"          -> "menu_screen"
    [] h = "action_switch_to_advanced_menu" -> "menu_advanced_screen"
    [] h = "action_switch_to_status"        -> "status_screen"
    [] h = "action_switch_to_about"         -> "about_screen"
    [] h = "action_switch_to_reset_config"  -> "reset_config_screen"
    [] h = "action_switch_to_dhcpc"         -> "switch_dhcp_client_screen"
    [] h = "action_switch_to_reboot"        -> "reboot_screen"
    [] h = "action_menu_screen_gesture"     -> handle_gesture_main_screen_switch(main_var)
    [] h \in {"action_menu_advanced_screen_gesture", "action_reset_config_screen_gesture",
              "action_home_screen_gesture", "action_about_screen_gesture"}
                                            -> "menu_screen"
    [] OTHER                                -> None

(* Handlers that act on a swipe only, and only on one direction.              *)
DirectedGestures ==
  {"action_menu_advanced_screen_gesture", "action_reset_config_screen_gesture",
   "action_home_screen_gesture", "action_about_screen_gesture"}
-----------------------------------------------------------------------------
(* Start of the child: all screens are built, each refreshed once (this        *)
(* composes lvgl_version, whose terminator is written into app_version before  *)
(* that has a value), the rotation is applied, then the version is set.        *)

Calibrated(p) == [p EXCEPT !.shifted = IF p.touchscreen THEN p.rotation = 90 ELSE @]

SetPads(p) ==
  IF ~ {"flex_screen", "flex_screen_menu"} \subseteq DOMAIN ui_styles THEN p.pads
  ELSE CASE p.rotation = 90  -> [s \in DOMAIN p.pads |-> <<24, 44>>]
         [] p.rotation = 270 -> [s \in DOMAIN p.pads |-> <<44, 24>>]
         [] OTHER            -> p.pads

(* mutant: the display takes any number of degrees                             *)
rotation_unmapped(p, r) ==
  LET q == Calibrated([p EXCEPT !.rotation = r, !.display = r])
  IN  [q EXCEPT !.pads = SetPads(q)]

lvgl_set_rotation(p, r) ==
  LET q == Calibrated([p EXCEPT !.rotation = r,
                                !.display = IF r \in {0, 90, 180, 270} THEN r ELSE @])
  IN  [q EXCEPT !.pads = SetPads(q)]

NewPanel ==
  [rotation |-> 270, display |-> 0, shifted |-> FALSE, touchscreen |-> FALSE,
   pads |-> [s \in {"flex_screen", "flex_screen_menu"} |-> InitialPads[s]]]

NoTouch == [on |-> None, since |-> 0, long |-> FALSE, swiped |-> FALSE, wait |-> FALSE]

NewVars == [app |-> 0, system |-> 0, lvgl |-> FALSE]

NewTexts == [app |-> [s \in {"boot_screen", "about_screen"} |-> 0], system |-> 0]

NewStatus == [connected |-> {}, states |-> {}]

(* get_var_lvgl_version: the first call ends app_version at 31 characters.     *)
get_var_lvgl_version(v) ==
  [v EXCEPT !.lvgl = TRUE, !.app = IF v.lvgl \/ @ < 31 THEN @ ELSE 31]

set_var_app_version(v, n) == [v EXCEPT !.app = IF n < 99 THEN n ELSE 99]

set_var_system_version(v, n) == [v EXCEPT !.system = IF n < 99 THEN n ELSE 99]

(* mutant: the version is set before the screens are built                     *)
UiVarsSetFirst ==
  get_var_lvgl_version(set_var_system_version(set_var_app_version(NewVars, VersionLength),
                                              SystemLength))

(* ui_init with create_screens, then setUIVars.                                *)
UiVarsAtStart ==
  set_var_system_version(set_var_app_version(get_var_lvgl_version(NewVars), VersionLength),
                         SystemLength)

ChildStarts(r) ==
  /\ active' = "boot_screen" /\ currentScreen' = "boot_screen"
  /\ hidden' = InitiallyHidden
  /\ main_screen' = "home_screen"
  /\ vars' = UiVarsAtStart
  /\ text' = NewTexts
  /\ status' = NewStatus
  /\ locks' = {}
  /\ panel' = lvgl_set_rotation(NewPanel, r)
  /\ touch' = NoTouch

IdleUpdate == [pc |-> "idle", up |-> FALSE, alone |-> FALSE]

Init ==
  /\ active = "boot_screen" /\ currentScreen = "boot_screen"
  /\ hidden = InitiallyHidden
  /\ main_screen = "home_screen"
  /\ vars = UiVarsAtStart
  /\ text = NewTexts
  /\ status = NewStatus /\ links = {}
  /\ locks = {}
  /\ touch = NoTouch
  /\ net = "down" /\ inited = FALSE /\ pending = 0
  /\ config = [rotation |-> 270, start |-> 270]
  /\ panel = lvgl_set_rotation(NewPanel, 270)
  /\ upd = [u \in Updaters |-> IdleUpdate]
  /\ reboot = [pc |-> "idle", up |-> FALSE]
  /\ changes = 0 /\ events = 0 /\ restarted = FALSE
  /\ fired = 0 /\ stuck = {} /\ settled = FALSE
-----------------------------------------------------------------------------
(* LVGL: a finger on the screen.                                               *)

(* The widgets of each screen that a finger can hit while they are visible.  *)
Clickables ==
  [s \in {Screens[i] : i \in DOMAIN Screens} |->
     {w \in DOMAIN objects : s \in Path[w] /\ objects[w].clickable}]

Hittable == {w \in Clickables[active] : Path[w] \cap hidden = {}}

(* loadScreen: from a touch handler, which also moves ui_tick.                 *)
loadScreen(s) == active' = s /\ currentScreen' = s

Stay == UNCHANGED <<active, currentScreen>>

LoadTarget(s) == IF s = None THEN Stay ELSE loadScreen(s)

(* The single handler of an event, None if the widget has none for it.         *)
HandlerOf(w, event) ==
  IF Handlers(w, event) = {} THEN None ELSE CHOOSE h \in Handlers(w, event) : TRUE

(* PRESSED.  A hold action notes the time: touch.since counts from it.          *)
Press(w) ==
  /\ panel.touchscreen /\ touch = NoTouch
  /\ touch' = [NoTouch EXCEPT !.on = w]
  /\ fired' = 0
  /\ LoadTarget(Target(HandlerOf(w, "PRESSED"), main_screen))
  /\ UNCHANGED <<hidden, main_screen, vars, text, status, locks, panel, main, env,
                 stuck, settled>>

(* Five seconds pass with the finger on a button that has to be held.  A reboot  *)
(* that is under way is over before that (hwReboot sleeps one second).          *)
TimePasses ==
  /\ reboot.pc = "idle"
  /\ touch.on # None /\ touch.since < MaxHold
  /\ Handlers(touch.on, "PRESSING") # {}
  /\ touch' = [touch EXCEPT !.since = @ + 1]
  /\ UNCHANGED <<active, currentScreen, hidden, main_screen, vars, text, status, locks, panel,
                 main, env, hist>>

(* rpcReboot; nativeCmdLock lets in one request at a time, and it reboots.       *)
RebootAsked == IF reboot.pc = "idle" THEN [reboot EXCEPT !.pc = "asked"] ELSE reboot

(* mutant: nothing remembers that the hold has already been served             *)
FireUnlocked(a) ==
  /\ UNCHANGED locks
  /\ hidden' = (hidden \cup SwappedOut(a)) \ SwappedIn(a)
  /\ fired' = IF fired < 2 THEN fired + 1 ELSE fired
  /\ reboot' = RebootAsked

(* The configuration is saved before the reboot; when that fails there is none. *)
rpcToggleDHCPClient == {RebootAsked, reboot}

(* OnRpcEvent of native.go: the other RPCs always end in rpcReboot.             *)
Requested(a) == IF a = "action_dhcpc" THEN rpcToggleDHCPClient ELSE {RebootAsked}

(* handle_hold_action on PRESSING: once the time is over and unless the lock    *)
(* says that it has been done, swap button and spinner and call the RPC handler. *)
(* Before that only the label counts down.                                     *)
Fire(a) ==
  /\ locks' = locks \cup {a}
  /\ hidden' = (hidden \cup SwappedOut(a)) \ SwappedIn(a)
  /\ fired' = fired + 1
  /\ reboot' \in Requested(a)

Pressing(a) ==
  /\ touch.on # None /\ ~ touch.wait
  /\ a \in Handlers(touch.on, "PRESSING")
  /\ touch.since >= HoldTime(a) /\ a \notin locks
  /\ Fire(a)
  /\ UNCHANGED <<active, currentScreen, main_screen, vars, text, status, panel, touch, net, links, config,
                 inited, pending, upd, env, stuck, settled>>

(* LONG_PRESSED, once per press.                                               *)
LongPress ==
  /\ touch.on # None /\ ~ touch.wait /\ ~ touch.long
  /\ Handlers(touch.on, "LONG_PRESSED") # {}
  /\ touch' = [touch EXCEPT !.long = TRUE]
  /\ LoadTarget(Target(HandlerOf(touch.on, "LONG_PRESSED"), main_screen))
  /\ UNCHANGED <<hidden, main_screen, vars, text, status, locks, panel, main, env, hist>>

(* GESTURE, once per press.  It climbs to the screen of the touched widget,    *)
(* also when another screen is shown by now.  A directed handler that acts     *)
(* tells LVGL to wait for the release: no further event of this press arrives. *)
Swipe(direction) ==
  LET h == HandlerOf(ScreenOf(touch.on), "GESTURE")
      acts == h \notin DirectedGestures \/ Direction(h) = direction
  IN
  /\ touch.on # None /\ ~ touch.wait /\ ~ touch.swiped
  /\ h # None
  /\ touch' = [touch EXCEPT !.swiped = TRUE, !.wait = acts /\ h \in DirectedGestures]
  /\ IF acts THEN LoadTarget(Target(h, main_screen)) ELSE Stay
  /\ stuck' = IF acts /\ h \in DirectedGestures
              THEN stuck \cup {a \in Holds : /\ a \in Handlers(touch.on, "RELEASED")
                                             /\ a \in locks}
              ELSE stuck
  /\ UNCHANGED <<hidden, main_screen, vars, text, status, locks, panel, main, env,
                 fired, settled>>

(* RELEASED and then CLICKED on the pressed widget; neither after wait_release. *)
HoldReleased(a) == locks \ {a}

Release ==
  LET h == HandlerOf(touch.on, "RELEASED") IN
  /\ touch.on # None
  /\ touch' = NoTouch /\ fired' = 0
  /\ IF h \in Holds /\ ~ touch.wait
     THEN locks' = HoldReleased(h) /\ stuck' = stuck \ {h}
     ELSE UNCHANGED <<locks, stuck>>
  /\ IF touch.wait THEN Stay
     ELSE LoadTarget(Target(HandlerOf(touch.on, "CLICKED"), main_screen))
  /\ UNCHANGED <<hidden, main_screen, vars, text, status, panel, main, env, settled>>
-----------------------------------------------------------------------------
(* The tick goroutine: tick_screen(currentScreen).  Only two screens have       *)
(* anything to refresh.                                                        *)
tick_screen_boot_screen ==
  text' = [text EXCEPT !.app["boot_screen"] = vars.app] /\ UNCHANGED vars

tick_screen_about_screen ==
  /\ text' = [text EXCEPT !.app["about_screen"] = vars.app, !.system = vars.system]
  /\ vars' = get_var_lvgl_version(vars)

tick_screen ==
  \/ currentScreen = "boot_screen" /\ tick_screen_boot_screen
  \/ currentScreen = "about_screen" /\ tick_screen_about_screen

Tick ==
  /\ tick_screen
  /\ UNCHANGED <<active, currentScreen, hidden, main_screen, status, locks, panel, touch, main,
                 env, hist>>

(* mutant: the device found later starts uncalibrated                          *)
discovery_uncalibrated ==
  /\ ~ panel.touchscreen
  /\ panel' = [panel EXCEPT !.touchscreen = TRUE]
  /\ UNCHANGED <<active, currentScreen, hidden, main_screen, vars, text, status, locks, touch, main,
                 env, hist>>
-----------------------------------------------------------------------------
(* The main process.                                                           *)

(* evdev discovery reports the touchscreen.                                    *)
evdev_discovery_cb ==
  /\ ~ panel.touchscreen
  /\ panel' = Calibrated([panel EXCEPT !.touchscreen = TRUE])
  /\ UNCHANGED <<active, currentScreen, hidden, main_screen, vars, text, status, locks, touch, main,
                 env, hist>>

IsUp(n) == n # "down"

MainScreenFor(up) == IF up THEN "home_screen" ELSE "no_network_screen"

(* A running update or a failed reboot's switch may still act on what it read. *)
NotAlone == [u \in Updaters |-> [upd[u] EXCEPT !.alone = FALSE]]

Event == events < MaxEvents /\ events' = events + 1 /\ UNCHANGED changes

(* The network state changes; its callback asks for an update.                 *)
NetworkChanges(n) ==
  /\ changes < MaxChanges /\ changes' = changes + 1 /\ UNCHANGED events
  /\ n # net
  /\ net' = n /\ pending' = pending + 1
  /\ upd' = NotAlone /\ settled' = FALSE
  /\ UNCHANGED <<native, links, config, inited, reboot, restarted, fired, stuck>>

(* USB, video or the cloud connection comes or goes; their handlers ask for an  *)
(* update.                                                                     *)
LinkChanges(w) ==
  /\ Event /\ pending' = pending + 1
  /\ links' = IF w \in links THEN links \ {w} ELSE links \cup {w}
  /\ upd' = NotAlone /\ settled' = FALSE
  /\ UNCHANGED <<native, net, config, inited, reboot, restarted, fired, stuck>>

(* Names the C code knows; others have no effect.                              *)
ObjFlags ==
  {"LV_OBJ_FLAG_HIDDEN", "LV_OBJ_FLAG_CLICKABLE", "LV_OBJ_FLAG_SCROLLABLE",
   "LV_OBJ_FLAG_CLICK_FOCUSABLE", "LV_OBJ_FLAG_SCROLL_ON_FOCUS", "LV_OBJ_FLAG_SCROLL_CHAIN",
   "LV_OBJ_FLAG_PRESS_LOCK", "LV_OBJ_FLAG_OVERFLOW_VISIBLE"}

ObjStates ==
  {"LV_STATE_USER_1", "LV_STATE_USER_2", "LV_STATE_USER_3", "LV_STATE_USER_4",
   "LV_STATE_DISABLED", "LV_STATE_CHECKED", "LV_STATE_FOCUSED"}

(* The objects among some names.                                               *)
ui_get_obj(names) == names \cap DOMAIN objects

(* W is the set of widgets that have the flag.                                 *)
jetkvm_ui_add_flag(W, names, flag) ==
  W \cup {n \in ui_get_obj(names) : flag \in ObjFlags}

jetkvm_ui_clear_flag(W, names, flag) ==
  W \ {n \in ui_get_obj(names) : flag \in ObjFlags}

Hide(W, names) == jetkvm_ui_add_flag(W, names, "LV_OBJ_FLAG_HIDDEN")
Show(W, names) == jetkvm_ui_clear_flag(W, names, "LV_OBJ_FLAG_HIDDEN")

(* S is the set of pairs of a widget and a state it has.                       *)
jetkvm_ui_add_state(S, w, state) ==
  S \cup {<<o, state>> : o \in {n \in ui_get_obj({w}) : state \in ObjStates}}

jetkvm_ui_clear_state(S, w, state) ==
  S \ {<<o, state>> : o \in {n \in ui_get_obj({w}) : state \in ObjStates}}

(* C is the set of status labels that say Connected.                           *)
jetkvm_ui_set_text(C, w, connected) ==
  IF connected THEN C \cup ui_get_obj({w}) ELSE C \ ui_get_obj({w})

(* updateDisplayUsbState, and the same for HDMI.                               *)
updateDisplayUsbState(s, w) ==
  [connected |-> jetkvm_ui_set_text(s.connected, w, w \in links),
   states    |-> IF w \in links THEN jetkvm_ui_add_state(s.states, w, "LV_STATE_CHECKED")
                 ELSE jetkvm_ui_clear_state(s.states, w, "LV_STATE_CHECKED")]

(* UpdateLabelAndChangeVisibility: an empty fact hides its container too.      *)
ChangeVisibility(W, names, empty) ==
  IF empty THEN Hide(W, names \cup {n \o "_container" : n \in names})
  ELSE Show(W, names \cup {n \o "_container" : n \in names})

Facts == {"build_branch", "build_date", "golang_version", "kernel_version", "cpu_serial"}

updateStaticContents(W) ==
  ChangeVisibility(ChangeVisibility(W, BlankFacts, TRUE), Facts \ BlankFacts, FALSE)

CloudIcon(W) ==
  IF "cloud_status_icon" \in links THEN Show(W, {"cloud_status_icon"})
  ELSE Hide(W, {"cloud_status_icon"})

(* initDisplay's goroutine.                                                    *)
InitDisplay ==
  /\ ~ inited
  /\ inited' = TRUE /\ pending' = pending + 1
  /\ hidden' = updateStaticContents(hidden)
  /\ UNCHANGED <<active, currentScreen, main_screen, vars, text, status, locks, panel, touch,
                 net, links, config, upd, reboot, env, hist>>

(* requestDisplayUpdate.                                                       *)
RequestDropped ==
  /\ pending > 0 /\ ~ inited
  /\ pending' = pending - 1
  /\ UNCHANGED <<native, net, links, config, inited, upd, reboot, env, hist>>

RequestStarts(u) ==
  /\ pending > 0 /\ inited
  /\ upd[u].pc = "idle"
  /\ pending' = pending - 1
  /\ LET first == \A v \in Updaters : upd[v].pc = "idle"
     IN  upd' = [NotAlone EXCEPT ![u] = [IdleUpdate EXCEPT
                   !.pc = "labels",
                   !.alone = first /\ ~ restarted /\ reboot.pc \notin {"check", "load"}]]
  /\ UNCHANGED <<native, net, links, config, inited, reboot, env, hist>>

(* updateDisplay: the labels, the buttons that are always hidden, the two status *)
(* labels and the icon of the cloud connection, widgets that nothing else      *)
(* touches (the icon comes after the switch; its blinking is addressed to an    *)
(* object that does not exist and has no effect); ...                          *)
UpdateLabels(u) ==
  /\ upd[u].pc = "labels"
  /\ hidden' = CloudIcon(Hide(ChangeVisibility(hidden, {"home_info_ipv6_addr"}, net # "ipv6"),
                              {"menu_btn_network", "menu_btn_access"}))
  /\ status' = updateDisplayUsbState(updateDisplayUsbState(status, "usb_status_label"),
                                     "hdmi_status_label")
  /\ upd' = [upd EXCEPT ![u].pc = "variable"]
  /\ UNCHANGED <<active, currentScreen, main_screen, vars, text, locks, panel, touch,
                 net, links, config, inited, pending, reboot, env, hist>>

(* ... IsUp, and UISetVar("main_screen"), ...                                  *)
set_var_main_screen(up) == main_screen' = MainScreenFor(up)

(* mutant: the switch comes before the variable                                *)
UpdateLooksFirst(u) ==
  /\ upd[u].pc = "variable"
  /\ IF active \in {MainScreenFor(~ IsUp(net)), "boot_screen"}
     THEN active' = MainScreenFor(IsUp(net)) ELSE UNCHANGED active
  /\ upd' = [upd EXCEPT ![u].pc = "look", ![u].up = IsUp(net)]
  /\ UNCHANGED <<currentScreen, main_screen, hidden, vars, text, status, locks, panel, touch,
                 net, links, config, inited, pending, reboot, env, hist>>

UpdateVariable(u) ==
  /\ upd[u].pc = "variable"
  /\ set_var_main_screen(IsUp(net))
  /\ upd' = [upd EXCEPT ![u].pc = "look", ![u].up = IsUp(net)]
  /\ UNCHANGED <<active, currentScreen, hidden, vars, text, status, locks, panel, touch,
                 net, links, config, inited, pending, reboot, env, hist>>

(* mutant: only the other main screen is switched away from                     *)
UpdateLookMainOnly(u) ==
  LET other == MainScreenFor(~ upd[u].up) IN
  /\ upd[u].pc = "look"
  /\ IF active = other
     THEN upd' = [upd EXCEPT ![u].pc = "load"] /\ UNCHANGED settled
     ELSE upd' = [upd EXCEPT ![u] = IdleUpdate] /\ settled' = (settled \/ upd[u].alone)
  /\ UNCHANGED <<native, net, links, config, inited, pending, reboot, env,
                 fired, stuck>>

(* ... SwitchToScreenIf: read the shown screen, ...                            *)
UpdateLook(u) ==
  LET other == MainScreenFor(~ upd[u].up) IN
  /\ upd[u].pc = "look"
  /\ IF active \in {other, "boot_screen"}
     THEN upd' = [upd EXCEPT ![u].pc = "load"] /\ UNCHANGED settled
     ELSE upd' = [upd EXCEPT ![u] = IdleUpdate] /\ settled' = (settled \/ upd[u].alone)
  /\ UNCHANGED <<native, net, links, config, inited, pending, reboot, env,
                 fired, stuck>>

(* ... and then load the other (jetkvm_ui_load_screen: ui_tick is not told).   *)
jetkvm_ui_load_screen(s) == active' = s /\ UNCHANGED currentScreen

UpdateLoad(u) ==
  /\ upd[u].pc = "load"
  /\ jetkvm_ui_load_screen(MainScreenFor(upd[u].up))
  /\ upd' = [upd EXCEPT ![u] = IdleUpdate]
  /\ settled' = (settled \/ upd[u].alone)
  /\ UNCHANGED <<hidden, main_screen, vars, text, status, locks, panel, touch,
                 net, links, config, inited, pending, reboot, env, fired, stuck>>

(* hwReboot on an RPC of the display: the rebooting screen, the command, and    *)
(* the main screen again if the command cannot be started.                     *)
RebootShows ==
  /\ reboot.pc = "asked"
  /\ jetkvm_ui_load_screen("rebooting_screen")
  /\ reboot' = [reboot EXCEPT !.pc = "command"]
  /\ UNCHANGED <<hidden, main_screen, vars, text, status, locks, panel, touch, net, links, config, inited,
                 pending, upd, env, hist>>

RebootFails ==
  /\ Event
  /\ reboot.pc = "command"
  /\ reboot' = [reboot EXCEPT !.pc = "check", !.up = IsUp(net)]
  /\ upd' = NotAlone
  /\ UNCHANGED <<native, net, links, config, inited, pending, restarted, hist>>

RebootLooks ==
  /\ reboot.pc = "check"
  /\ reboot' = [reboot EXCEPT !.pc = IF active = MainScreenFor(reboot.up)
                                     THEN "idle" ELSE "load"]
  /\ UNCHANGED <<native, net, links, config, inited, pending, upd, env, hist>>

RebootReturns ==
  /\ reboot.pc = "load"
  /\ jetkvm_ui_load_screen(MainScreenFor(reboot.up))
  /\ reboot' = [reboot EXCEPT !.pc = "idle"]
  /\ UNCHANGED <<hidden, main_screen, vars, text, status, locks, panel, touch, net, links, config, inited,
                 pending, upd, env, hist>>

(* The device restarts: both processes start afresh.                           *)
DeviceReboots ==
  /\ reboot.pc = "command"
  /\ ChildStarts(config.rotation)
  /\ config' = [config EXCEPT !.start = config.rotation]
  /\ inited' = FALSE /\ pending' = 0
  /\ upd' = [u \in Updaters |-> IdleUpdate]
  /\ reboot' = [pc |-> "idle", up |-> FALSE]
  /\ restarted' = FALSE
  /\ fired' = 0 /\ stuck' = {} /\ settled' = FALSE
  /\ links' = {} /\ UNCHANGED <<net, changes, events>>

(* The child dies and the supervisor starts the next one with the options of    *)
(* the first; a switch that was inside the child is lost.                      *)
ChildDies ==
  /\ Event
  /\ ChildStarts(config.start)
  /\ restarted' = TRUE
  /\ upd' = [u \in Updaters |-> IF upd[u].pc = "load" THEN IdleUpdate ELSE NotAlone[u]]
  /\ reboot' = [reboot EXCEPT !.pc = IF @ = "load" THEN "idle" ELSE @]
  /\ fired' = 0 /\ stuck' = {} /\ settled' = FALSE
  /\ UNCHANGED <<net, links, config, inited, pending>>

(* configureDisplayOnNativeRestart.                                            *)
configureDisplayOnNativeRestart ==
  /\ restarted /\ restarted' = FALSE
  /\ hidden' = updateStaticContents(hidden)
  /\ pending' = pending + 1
  /\ UNCHANGED <<active, currentScreen, main_screen, vars, text, status, locks, panel, touch,
                 net, links, config, inited, upd, reboot, changes, events, hist>>

(* rpcSetDisplayRotation.                                                      *)
SetRotation(r) ==
  /\ Event /\ r # config.rotation
  /\ config' = [config EXCEPT !.rotation = r]
  /\ panel' = lvgl_set_rotation(panel, r)
  /\ UNCHANGED <<active, currentScreen, hidden, main_screen, vars, text, status, locks, touch,
                 net, links, inited, pending, upd, reboot, restarted, hist>>
-----------------------------------------------------------------------------
(* Facts about the table of widgets that the code above relies on.             *)

(* Every widget a handler or updateDisplay swaps is in the table.              *)
ASSUME NamedWidgets ==
  {"reset_config_button", "reset_config_spinner", "home_info_ipv6_addr", "menu_btn_network",
   "menu_btn_access", "usb_status_label", "hdmi_status_label", "cloud_status_icon"}
     \cup Facts \cup {f \o "_container" : f \in Facts} \subseteq DOMAIN objects

(* The container of a fact is its own, and no widget that is swapped elsewhere. *)
ASSUME OwnContainers ==
  \A f \in Facts :
    /\ \A g \in Facts : f \o "_container" = g \o "_container" => f = g
    /\ f \o "_container" \notin
         Facts \cup {"reset_config_button", "reset_config_spinner", "home_info_ipv6_addr",
                     "home_info_ipv6_addr" \o "_container", "menu_btn_network",
                     "menu_btn_access", "cloud_status_icon"}

(* The address of the home screen has no container.                            *)
ASSUME BareAddress == "home_info_ipv6_addr" \o "_container" \notin DOMAIN objects

(* A button that counts the time it is held is told when it is let go.         *)
ASSUME HoldsAreReleased ==
  \A w \in DOMAIN objects :
    \A a \in Holds \cap Handlers(w, "PRESSING") : a \in Handlers(w, "RELEASED")

(* A swipe leads from the menu to the main screen, and to the menu from every    *)
(* other screen but the two that wait.                                         *)
ASSUME SwipesLeave ==
  /\ "action_menu_screen_gesture" \in Handlers("menu_screen", "GESTURE")
  /\ \A s \in {Screens[i] : i \in DOMAIN Screens}
                \ {"boot_screen", "rebooting_screen", "menu_screen"} :
       Handlers(s, "GESTURE") \cap DirectedGestures # {}
-----------------------------------------------------------------------------
Finger == \/ \E w \in Fingered \cap Hittable : Press(w)
          \/ TimePasses \/ LongPress \/ Release
          \/ \E a \in Holds : Pressing(a)
          \/ \E d \in {"left", "right"} : Swipe(d)

UpdateSteps == \E u \in Updaters : \/ RequestStarts(u) \/ UpdateLabels(u) \/ UpdateVariable(u)
                                   \/ UpdateLook(u) \/ UpdateLoad(u)

Goroutines == \/ InitDisplay \/ RequestDropped \/ configureDisplayOnNativeRestart
              \/ UpdateSteps
              \/ RebootShows \/ RebootLooks \/ RebootReturns

Next ==
  \/ Finger
  \/ Tick \/ evdev_discovery_cb
  \/ Goroutines
  \/ RebootFails \/ DeviceReboots
  \/ \E n \in Networks : NetworkChanges(n)
  \/ \E w \in Links : LinkChanges(w)
  \/ ChildDies
  \/ \E r \in Rotations : SetRotation(r)

Spec == Init /\ [][Next]_vars_

(* The tick goroutine and every goroutine of the main process keep running.     *)
FairSpec ==
  /\ Spec
  /\ WF_vars_(Tick) /\ WF_vars_(evdev_discovery_cb)
  /\ WF_vars_(InitDisplay) /\ WF_vars_(RequestDropped)
  /\ WF_vars_(configureDisplayOnNativeRestart) /\ WF_vars_(UpdateSteps)
  /\ WF_vars_(RebootShows) /\ WF_vars_(RebootLooks) /\ WF_vars_(RebootReturns)
-----------------------------------------------------------------------------
(* Properties.                                                                 *)

(* Type correctness: every variable of the child and of the main process stays  *)
(* in its range.                                                               *)
TypeOK ==
  /\ {active, currentScreen} \subseteq {Screens[i] : i \in DOMAIN Screens}
  /\ hidden \subseteq DOMAIN objects
  /\ main_screen \in MainScreens
  /\ vars \in [app : 0..99, system : 0..99, lvgl : BOOLEAN]
  /\ text \in [app : [{"boot_screen", "about_screen"} -> 0..99], system : 0..99]
  /\ locks \subseteq Holds /\ links \subseteq Links
  /\ status.connected \cup {p[1] : p \in status.states} \subseteq DOMAIN objects
  /\ panel.display \in {0, 90, 180, 270}
  /\ touch.on \in DOMAIN objects \cup {None} /\ touch.since \in 0..MaxHold
  /\ net \in Networks
  /\ pending \in 0..(MaxChanges + 2 * MaxEvents + 2)
  /\ changes \in 0..MaxChanges /\ events \in 0..MaxEvents

(* The screens the touch handlers of the shown screen lead to.                  *)
TouchHandlers ==
  UNION {Handlers(w, e) : w \in Hittable, e \in {"PRESSED", "CLICKED", "LONG_PRESSED"}}

Exits ==
  {Target(h, main_screen) : h \in TouchHandlers \cup Handlers(active, "GESTURE")}
    \ {None, active}

(* A visitor is never locked into a page: whatever is hidden and wherever the   *)
(* goroutines have put the display, the shown screen offers a touch handler     *)
(* that leaves it, and one that leads to the menu or to the main screen.  Only   *)
(* the boot and the rebooting screen offer nothing.                            *)
NeverStuck ==
  \/ active \in {"boot_screen", "rebooting_screen"}
  \/ active = "menu_screen" /\ main_screen \in Exits
  \/ active # "menu_screen" /\ "menu_screen" \in Exits

(* A hold sends its RPC at most once per press and never before its time; the   *)
(* button it belongs to is the one under the finger.  The lock that sees to it   *)
(* is held only while that press lasts, so that the next one fires again.  The   *)
(* exception is the finger that leaves the button by a swipe after firing: the   *)
(* release is then never delivered (wait_release).                             *)
OncePerHold ==
  /\ fired <= 1
  /\ fired = 1 => \E a \in Holds : /\ touch.on # None
                                   /\ a \in Handlers(touch.on, "PRESSING")
                                   /\ touch.since >= HoldTime(a)
  /\ \A a \in Holds \cap locks :
       a \in stuck \/ (touch.on # None /\ a \in Handlers(touch.on, "RELEASED"))

(* Once an update has run alone after the last change of the network or of the   *)
(* child, the menu leads to the right main screen, the wrong main screen and     *)
(* the boot screen are not shown, the address is shown exactly if there is one,  *)
(* what the build leaves empty or unfinished is hidden, and the indicators of    *)
(* USB, HDMI and the cloud say, in word and colour, what is the case.           *)
DisplaySettles ==
  settled => /\ main_screen = MainScreenFor(IsUp(net))
             /\ active \notin {MainScreenFor(~ IsUp(net)), "boot_screen"}
             /\ ("home_info_ipv6_addr" \in hidden) = (net # "ipv6")
             /\ {"menu_btn_network", "menu_btn_access"} \subseteq hidden
             /\ \A w \in {"usb_status_label", "hdmi_status_label"} :
                  /\ (w \in status.connected) = (w \in links)
                  /\ (<<w, "LV_STATE_CHECKED">> \in status.states) = (w \in links)
             /\ ("cloud_status_icon" \in hidden) = ("cloud_status_icon" \notin links)
             /\ \A f \in Facts : (f \o "_container" \in hidden) = (f \in BlankFacts)

(* The calibration in force is the one apply_touch_calibration has for the          *)
(* rotation that is shown, whether the touchscreen was discovered before or after    *)
(* the rotation was set or the child restarted: with a rotation the display knows,   *)
(* the display stands as asked, touches are shifted at 90 degrees and at 90 only,    *)
(* and every screen padded for the bezel has its wide side where that rotation       *)
(* puts it.                                                                          *)
CalibrationFollows ==
  panel.rotation \in {90, 270} =>
     /\ panel.display = panel.rotation
     /\ panel.touchscreen => panel.shifted = (panel.display = 90)
     /\ \A s \in {objects[Screens[i]].style : i \in DOMAIN Screens} \cap DOMAIN panel.pads :
          panel.pads[s] = IF panel.display = 90 THEN <<24, 44>> ELSE <<44, 24>>

(* Touches are shifted at both orientations, in opposite directions, as the comment  *)
(* above apply_touch_calibration says ("-TOUCH_Y_OFFSET at 270").                    *)
ShiftedBothWays ==
  panel.touchscreen /\ panel.rotation \in {90, 270} => panel.shifted

(* The display configured after a restart of the child is the configured one:    *)
(* once the restart has been announced and no update is pending, the picture has  *)
(* the rotation of the configuration.                                           *)
RotationSurvives ==
  (~ restarted /\ settled /\ config.rotation \in {90, 270})
     => panel.rotation = config.rotation

(* The version reaches the reader: while the boot or the About screen is shown,   *)
(* the tick goroutine refreshes that very screen, and it shows the whole strings.  *)
VersionShown ==
  \A s \in {"boot_screen", "about_screen"} :
     (active = s) ~> (\/ active # s
                      \/ /\ text.app[s] = VersionLength
                         /\ s = "about_screen" => text.system = SystemLength)

(* The display never stays on the boot screen: after every start and restart it   *)
(* is left, also when the network never comes up.                               *)
BootEnds == (active = "boot_screen") ~> (active # "boot_screen")
=============================================================================
