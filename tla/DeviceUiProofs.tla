--------------------------- MODULE DeviceUiProofs ---------------------------
(* Proofs about the device's own touch screen (DeviceUi), for every set of     *)
(* updating goroutines, every choice of touched widgets, networks, links and    *)
(* rotations, and every bound.  The table of widgets is a fixed value that the  *)
(* provers leave unexpanded: what the arguments need of it are the named        *)
(* assumptions of ScreenTree and DeviceUi, which TLC evaluates completely.      *)
EXTENDS DeviceUi, TLAPS

-----------------------------------------------------------------------------
(* The inductive invariant.                                                    *)

Shown == {Screens[i] : i \in DOMAIN Screens}

PadNames == {"flex_screen", "flex_screen_menu"}

(* The shape of the records, where TypeOK names single fields only.            *)
Places == DOMAIN objects \cup {None}

Spans == 0..MaxHold

Touches == [on : Places, since : Spans, long : BOOLEAN, swiped : BOOLEAN, wait : BOOLEAN]

UpdatePcs == {"idle", "labels", "variable", "look", "load"}

Updates == [pc : UpdatePcs, up : BOOLEAN, alone : BOOLEAN]

RebootPcs == {"idle", "asked", "command", "check", "load"}

Reboots == [pc : RebootPcs, up : BOOLEAN]

Lengths == 0..99

AppTexts == [{"boot_screen", "about_screen"} -> Lengths]

ScreenInv == active \in Shown /\ currentScreen \in Shown /\ main_screen \in MainScreens

ProcInv ==
  /\ upd \in [Updaters -> Updates]
  /\ reboot \in Reboots
  /\ inited \in BOOLEAN /\ restarted \in BOOLEAN /\ settled \in BOOLEAN

DataInv ==
  /\ hidden \subseteq DOMAIN objects
  /\ vars \in [app : Lengths, system : Lengths, lvgl : BOOLEAN]
  /\ text \in [app : AppTexts, system : Lengths]
  /\ links \subseteq Links /\ net \in Networks

StatusInv ==
  /\ status.connected \subseteq DOMAIN objects
  /\ \A p \in status.states : p[1] \in DOMAIN objects

(* Every pending update is owed to a change, to an event or to the start: a     *)
(* child that died and is not yet announced, and a display that is not yet       *)
(* initialised, will each add one.                                             *)
Owed == (IF inited THEN 0 ELSE 1) + (IF restarted THEN 1 ELSE 0)

CountInv ==
  /\ changes \in 0..MaxChanges /\ events \in 0..MaxEvents /\ pending \in Nat
  /\ pending + Owed <= changes + events + 1

(* The lock of a hold: an action that has fired during this press holds it, and  *)
(* whoever holds it is under the finger or has been swiped away.                *)
HoldInv ==
  /\ touch \in Touches
  /\ locks \subseteq Holds
  /\ fired \in 0..1
  /\ fired = 1 => \E a \in Holds : /\ touch.on # None
                                   /\ a \in Handlers(touch.on, "PRESSING")
                                   /\ touch.since >= HoldTime(a)
                                   /\ a \in locks
  /\ \A a \in locks : a \in stuck \/ (touch.on # None /\ a \in Handlers(touch.on, "RELEASED"))
  /\ touch.wait => locks \subseteq stuck

PadPairs == {<<44, 24>>, <<24, 44>>} \cup {InitialPads[s] : s \in PadNames}

PadSettings == [PadNames -> PadPairs]

Turned == {0, 90, 180, 270}

Panels == [rotation : Degrees, display : Turned, shifted : BOOLEAN,
           touchscreen : BOOLEAN, pads : PadSettings]

PanelFits(p) ==
  p.rotation \in {90, 270} =>
     /\ p.display = p.rotation
     /\ p.touchscreen => p.shifted = (p.rotation = 90)
     /\ \A s \in PadNames : p.pads[s] = IF p.rotation = 90 THEN <<24, 44>> ELSE <<44, 24>>

PanelInv ==
  /\ config \in [rotation : Degrees, start : Degrees]
  /\ panel \in Panels /\ PanelFits(panel)

(* What updateDisplay writes: the labels, and the facts that are written once.  *)
LabelsRight ==
  /\ ("home_info_ipv6_addr" \in hidden) = (net # "ipv6")
  /\ {"menu_btn_network", "menu_btn_access"} \subseteq hidden
  /\ \A w \in {"usb_status_label", "hdmi_status_label"} :
       /\ (w \in status.connected) = (w \in links)
       /\ (<<w, "LV_STATE_CHECKED">> \in status.states) = (w \in links)
  /\ ("cloud_status_icon" \in hidden) = ("cloud_status_icon" \notin links)

FactsRight == \A f \in Facts : (f \o "_container" \in hidden) = (f \in BlankFacts)

MainRight == main_screen = MainScreenFor(IsUp(net))

ActiveRight == active \notin {MainScreenFor(~ IsUp(net)), "boot_screen"}

(* The last change has been seen: by an update that is alone or by one before.  *)
Seen == settled \/ \E u \in Updaters : upd[u].alone

FactsInv == inited /\ ~ restarted => FactsRight

SeenInv ==
  Seen => /\ inited /\ ~ restarted
          /\ \A u \in Updaters : upd[u].pc \in {"look", "load"} => upd[u].up = IsUp(net)
          /\ reboot.pc \in {"check", "load"} => reboot.up = IsUp(net)

AloneInv ==
  \A u \in Updaters :
    upd[u].alone => /\ upd[u].pc \in {"labels", "variable", "look", "load"}
                    /\ upd[u].pc # "labels" => LabelsRight
                    /\ upd[u].pc \in {"look", "load"} => MainRight

SettledInv == settled => LabelsRight /\ MainRight /\ ActiveRight

SettleInv == FactsInv /\ SeenInv /\ AloneInv /\ SettledInv

IInv ==
  /\ ScreenInv /\ ProcInv /\ DataInv /\ StatusInv /\ CountInv
  /\ HoldInv /\ PanelInv /\ SettleInv

-----------------------------------------------------------------------------
(* Screens.                                                                    *)

(* The screens by name.                                                        *)
LEMMA ShownByName ==
  Shown = {"boot_screen", "no_network_screen", "home_screen", "menu_screen",
           "menu_advanced_screen", "menu_network_screen", "about_screen", "status_screen",
           "reset_config_screen", "reboot_screen", "rebooting_screen",
           "switch_dhcp_client_screen"}
<1>1. DOMAIN Screens = 1..12
  BY DEF Screens
<1>2. DOMAIN Screens = {1, 2, 3, 4, 5, 6, 7, 8, 9, 10, 11, 12}
  BY <1>1
<1>3. QED
  BY <1>2 DEF Shown, Screens

(* A touch handler leads nowhere, to a page of the menu or to the screen that   *)
(* main_screen names.                                                          *)
LEMMA TargetIsPage ==
  ASSUME NEW h, NEW m
  PROVE  Target(h, m) \in {None, "menu_screen", "menu_advanced_screen", "status_screen",
                           "about_screen", "reset_config_screen", "switch_dhcp_client_screen",
                           "reboot_screen"} \cup (MainScreens \cap {m})
BY DEF Target, handle_gesture_main_screen_switch, None

(* Switching to where a handler leads keeps to the screens, and never shows the  *)
(* boot screen or a main screen that is not main_screen.                       *)
LEMMA TargetKeeps ==
  ASSUME NEW h, LoadTarget(Target(h, main_screen)), ScreenInv
  PROVE  /\ active' \in Shown /\ currentScreen' \in Shown
         /\ active' # active => active' # "boot_screen"
         /\ active' # active => active' \notin MainScreens \/ active' = main_screen
<1>1. CASE Target(h, main_screen) = None
  BY <1>1 DEF LoadTarget, Stay, ScreenInv
<1>2. CASE Target(h, main_screen) # None
  <2>1. active' = Target(h, main_screen) /\ currentScreen' = Target(h, main_screen)
    BY <1>2 DEF LoadTarget, loadScreen
  <2> DEFINE t == Target(h, main_screen)
  <2>2. t \in {"menu_screen", "menu_advanced_screen", "status_screen",
               "about_screen", "reset_config_screen", "switch_dhcp_client_screen",
               "reboot_screen"} \cup (MainScreens \cap {main_screen})
    BY <1>2, TargetIsPage
  <2> HIDE DEF t
  <2>3. t \in Shown
    BY <2>2, ShownByName DEF MainScreens
  <2>4. t # "boot_screen" /\ (t \notin MainScreens \/ t = main_screen)
    BY <2>2 DEF MainScreens
  <2>5. QED
    BY <2>1, <2>3, <2>4 DEF t
<1>3. QED
  BY <1>1, <1>2

(* The screens of the program's own switches.                                  *)
LEMMA MainIsShown ==
  ASSUME NEW up
  PROVE  MainScreenFor(up) \in Shown /\ MainScreenFor(up) \in MainScreens
BY ShownByName DEF MainScreenFor, MainScreens

(* Steps that touch neither the shown screen nor main_screen.                  *)
Elsewhere == UNCHANGED <<active, currentScreen, main_screen>>

(* Every step stays among the screens that exist.                             *)
LEMMA ScreenStep ==
  ASSUME ScreenInv, [Next]_vars_
  PROVE  ScreenInv'
<1>1. ASSUME Elsewhere
      PROVE  ScreenInv'
  BY <1>1 DEF Elsewhere, ScreenInv
<1>2. ASSUME NEW h, LoadTarget(Target(h, main_screen)), UNCHANGED main_screen
      PROVE  ScreenInv'
  BY <1>2, TargetKeeps DEF ScreenInv
<1>3. ASSUME NEW r, ChildStarts(r)
      PROVE  ScreenInv'
  BY <1>3, ShownByName DEF ChildStarts, ScreenInv, MainScreens
<1>4. ASSUME NEW s \in Shown, jetkvm_ui_load_screen(s), UNCHANGED main_screen
      PROVE  ScreenInv'
  BY <1>4 DEF jetkvm_ui_load_screen, ScreenInv
<1>5. CASE Finger
  <2>1. ASSUME NEW w, Press(w) PROVE ScreenInv'
    BY <2>1, <1>2 DEF Press
  <2>2. CASE TimePasses
    BY <2>2, <1>1 DEF TimePasses, Elsewhere
  <2>3. CASE LongPress
    BY <2>3, <1>2 DEF LongPress
  <2>4. CASE Release
    <3>1. CASE touch.wait
      BY <2>4, <3>1, <1>1 DEF Release, Stay, Elsewhere
    <3>2. CASE ~ touch.wait
      BY <2>4, <3>2, <1>2 DEF Release
    <3>3. QED
      BY <3>1, <3>2
  <2>5. ASSUME NEW a \in Holds, Pressing(a) PROVE ScreenInv'
    BY <2>5, <1>1 DEF Pressing, Elsewhere
  <2>6. ASSUME NEW d, Swipe(d) PROVE ScreenInv'
    <3>1. UNCHANGED main_screen
      BY <2>6 DEF Swipe
    <3>2. Stay \/ \E h : LoadTarget(Target(h, main_screen))
      BY <2>6 DEF Swipe
    <3>3. QED
      BY <3>1, <3>2, <1>1, <1>2 DEF Stay, Elsewhere
  <2>7. QED
    BY <1>5, <2>1, <2>2, <2>3, <2>4, <2>5, <2>6 DEF Finger
<1>6. CASE Tick
  BY <1>6, <1>1 DEF Tick, Elsewhere
<1>7. CASE evdev_discovery_cb
  BY <1>7, <1>1 DEF evdev_discovery_cb, Elsewhere
<1>8. CASE Goroutines
  <2>1. CASE InitDisplay \/ RequestDropped \/ configureDisplayOnNativeRestart \/ RebootLooks
    BY <2>1, <1>1 DEF InitDisplay, RequestDropped, configureDisplayOnNativeRestart, RebootLooks,
                      Elsewhere, native
  <2>2. ASSUME NEW u \in Updaters, RequestStarts(u) \/ UpdateLabels(u) \/ UpdateLook(u)
        PROVE  ScreenInv'
    BY <2>2, <1>1 DEF RequestStarts, UpdateLabels, UpdateLook, Elsewhere, native
  <2>3. ASSUME NEW u \in Updaters, UpdateVariable(u) PROVE ScreenInv'
    BY <2>3, MainIsShown DEF UpdateVariable, set_var_main_screen, ScreenInv
  <2>4. ASSUME NEW u \in Updaters, UpdateLoad(u) PROVE ScreenInv'
    BY <2>4, <1>4, MainIsShown DEF UpdateLoad
  <2>5. CASE RebootShows
    BY <2>5, <1>4, ShownByName DEF RebootShows
  <2>6. CASE RebootReturns
    BY <2>6, <1>4, MainIsShown DEF RebootReturns
  <2>7. QED
    BY <1>8, <2>1, <2>2, <2>3, <2>4, <2>5, <2>6 DEF Goroutines, UpdateSteps
<1>9. CASE RebootFails \/ \E r \in Rotations : SetRotation(r)
  BY <1>9, <1>1 DEF RebootFails, SetRotation, Elsewhere, native
<1>10. CASE DeviceReboots \/ ChildDies
  BY <1>10, <1>3 DEF DeviceReboots, ChildDies
<1>11. CASE \E n \in Networks : NetworkChanges(n)
  BY <1>11, <1>1 DEF NetworkChanges, Elsewhere, native
<1>12. CASE \E w \in Links : LinkChanges(w)
  BY <1>12, <1>1 DEF LinkChanges, Elsewhere, native
<1>13. CASE UNCHANGED vars_
  BY <1>13, <1>1 DEF vars_, native, Elsewhere
<1>14. QED
  BY <1>5, <1>6, <1>7, <1>8, <1>9, <1>10, <1>11, <1>12, <1>13 DEF Next

-----------------------------------------------------------------------------
(* The panel.                                                                  *)

(* Applying a rotation: display, calibration and padding all follow it.        *)
LEMMA RotationFits ==
  ASSUME NEW p \in Panels, NEW r \in Degrees
  PROVE  lvgl_set_rotation(p, r) \in Panels /\ PanelFits(lvgl_set_rotation(p, r))
<1> DEFINE shown == IF r \in {0, 90, 180, 270} THEN r ELSE p.display
           p1 == [p EXCEPT !.rotation = r, !.display = shown]
           q == Calibrated(p1)
           w == SetPads(q)
           s == lvgl_set_rotation(p, r)
<1>1. shown \in Turned /\ (r \in {90, 270} => shown = r)
  <2>1. p.display \in Turned
    BY DEF Panels
  <2>2. QED
    BY <2>1 DEF Turned
<1>2. s = [q EXCEPT !.pads = w]
  BY DEF lvgl_set_rotation
<1> HIDE DEF shown, s
<1>3. p1 \in Panels /\ p1.rotation = r /\ p1.display = shown
  BY <1>1 DEF Panels
<1> HIDE DEF p1
<1>4. /\ q \in Panels /\ q.rotation = r /\ q.display = shown
      /\ q.touchscreen => q.shifted = (r = 90)
  BY <1>3 DEF Panels, Calibrated
<1> HIDE DEF q
<1>5. q.pads \in PadSettings
  BY <1>4 DEF Panels
<1>6. DOMAIN q.pads = PadNames
  BY <1>5 DEF PadSettings
<1>7. PadNames \subseteq DOMAIN ui_styles
  BY PaddedStyles DEF PadNames
<1>8. /\ r = 90 => w = [n \in PadNames |-> <<24, 44>>]
      /\ r = 270 => w = [n \in PadNames |-> <<44, 24>>]
      /\ r \notin {90, 270} => w = q.pads
  BY <1>4, <1>6, <1>7 DEF SetPads, PadNames
<1> HIDE DEF w
<1>9. w \in PadSettings
  BY <1>5, <1>8 DEF PadPairs, PadSettings
<1>10. s \in Panels
  BY <1>2, <1>4, <1>9 DEF Panels
<1>11. s.pads = w /\ s.rotation = r /\ s.display = shown
  BY <1>2, <1>4 DEF Panels
<1>12. s.touchscreen = q.touchscreen /\ s.shifted = q.shifted
  BY <1>2, <1>4 DEF Panels
<1>13. r \in {90, 270} =>
         \A n \in PadNames : w[n] = IF r = 90 THEN <<24, 44>> ELSE <<44, 24>>
  BY <1>8
<1>14. PanelFits(s)
  BY <1>1, <1>4, <1>11, <1>12, <1>13 DEF PanelFits
<1>15. QED
  BY <1>10, <1>14 DEF s

(* The touchscreen, whenever it is discovered, is calibrated for the rotation    *)
(* of that moment.                                                             *)
LEMMA DiscoveryFits ==
  ASSUME NEW p \in Panels, PanelFits(p),
         NEW q, q = Calibrated([p EXCEPT !.touchscreen = TRUE])
  PROVE  q \in Panels /\ PanelFits(q)
<1> DEFINE p1 == [p EXCEPT !.touchscreen = TRUE]
<1>1. /\ p1 \in Panels /\ p1.touchscreen /\ p1.rotation = p.rotation
      /\ p1.display = p.display /\ p1.pads = p.pads
  BY DEF Panels
<1>2. q = Calibrated(p1)
  OBVIOUS
<1> HIDE DEF p1
<1>3. q \in Panels
  BY <1>1, <1>2 DEF Panels, Calibrated
<1>4. /\ q.rotation = p.rotation /\ q.display = p.display /\ q.pads = p.pads
      /\ q.shifted = (p.rotation = 90)
  BY <1>1, <1>2 DEF Panels, Calibrated
<1>5. (q.touchscreen => q.shifted = (q.rotation = 90))
  BY <1>4
<1>6. ASSUME q.rotation \in {90, 270}
      PROVE  /\ q.display = q.rotation
             /\ \A s \in PadNames : q.pads[s] = IF q.rotation = 90 THEN <<24, 44>> ELSE <<44, 24>>
  <2>1. p.rotation \in {90, 270}
    BY <1>4, <1>6, Zenon
  <2>2. /\ p.display = p.rotation
        /\ \A s \in PadNames : p.pads[s] = IF p.rotation = 90 THEN <<24, 44>> ELSE <<44, 24>>
    BY <2>1, Zenon DEF PanelFits
  <2>3. QED
    BY <1>4, <2>2, Zenon
<1>7. PanelFits(q)
  BY <1>5, <1>6, Zenon DEF PanelFits
<1>8. QED
  BY <1>3, <1>7

(* The panel of a child that has just started.                                *)
LEMMA NewPanelTyped == NewPanel \in Panels
<1>1. [s \in PadNames |-> InitialPads[s]] \in [PadNames -> PadPairs]
  BY DEF PadPairs
<1>2. QED
  BY <1>1 DEF NewPanel, Panels, PadSettings, PadNames, Turned, Degrees

(* The parts of UiAssumption, one by one.                                      *)
LEMMA AssumedSets ==
  /\ Rotations \subseteq Degrees
  /\ MaxChanges \in Nat /\ MaxEvents \in Nat
  /\ VersionLength \in 1..99 /\ SystemLength \in 1..99
  /\ Fingered \subseteq DOMAIN objects
  /\ BlankFacts \subseteq Facts
  /\ "down" \in Networks
<1>1. Rotations \subseteq Degrees
  BY RotationAssumption
<1>2. BlankFacts \subseteq Facts
  BY UiAssumption, Zenon DEF Facts
<1>3. MaxChanges \in Nat /\ MaxEvents \in Nat
  BY UiAssumption, Zenon
<1>4. VersionLength \in 1..99 /\ SystemLength \in 1..99
  BY VersionAssumption
<1>5. Fingered \subseteq DOMAIN objects
  BY UiAssumption, Zenon
<1>6. "down" \in Networks
  BY UiAssumption, Zenon
<1>7. QED
  BY <1>1, <1>2, <1>3, <1>4, <1>5, <1>6

(* Every step keeps the panel in agreement with its rotation.                 *)
LEMMA PanelStep ==
  ASSUME PanelInv, [Next]_vars_
  PROVE  PanelInv'
<1>1. ASSUME UNCHANGED <<panel, config>>
      PROVE  PanelInv'
  BY <1>1 DEF PanelInv
<1>2. ASSUME NEW r \in Degrees, ChildStarts(r)
      PROVE  panel' \in Panels /\ PanelFits(panel')
  BY <1>2, NewPanelTyped, RotationFits DEF ChildStarts
<1>3. CASE Finger
  BY <1>3, <1>1 DEF Finger, Press, TimePasses, LongPress, Release, Pressing, Swipe, main
<1>4. CASE Tick
  BY <1>4, <1>1 DEF Tick, main
<1>5. CASE evdev_discovery_cb
  BY <1>5, DiscoveryFits DEF evdev_discovery_cb, PanelInv, main
<1>6. CASE Goroutines
  <2>1. CASE InitDisplay \/ RequestDropped \/ configureDisplayOnNativeRestart
             \/ RebootShows \/ RebootLooks \/ RebootReturns
    BY <2>1, <1>1 DEF InitDisplay, RequestDropped, configureDisplayOnNativeRestart, RebootShows,
                      RebootLooks, RebootReturns, native
  <2>2. CASE UpdateSteps
    BY <2>2, <1>1 DEF UpdateSteps, RequestStarts, UpdateLabels, UpdateVariable, UpdateLook,
                      UpdateLoad, native
  <2>3. QED
    BY <1>6, <2>1, <2>2 DEF Goroutines
<1>7. CASE RebootFails
  BY <1>7, <1>1 DEF RebootFails, native
<1>8. CASE DeviceReboots \/ ChildDies
  <2>1. config.rotation \in Degrees /\ config.start \in Degrees
    BY DEF PanelInv
  <2>2. panel' \in Panels /\ PanelFits(panel')
    BY <1>8, <1>2, <2>1 DEF DeviceReboots, ChildDies
  <2>3. config' \in [rotation : Degrees, start : Degrees]
    BY <1>8, <2>1 DEF DeviceReboots, ChildDies, PanelInv
  <2>4. QED
    BY <2>2, <2>3 DEF PanelInv
<1>9. CASE \E n \in Networks : NetworkChanges(n)
  BY <1>9, <1>1 DEF NetworkChanges, native
<1>10. CASE \E w \in Links : LinkChanges(w)
  BY <1>10, <1>1 DEF LinkChanges, native
<1>11. CASE \E r \in Rotations : SetRotation(r)
  <2>1. PICK r \in Rotations : SetRotation(r)
    BY <1>11
  <2>2. r \in Degrees
    BY AssumedSets
  <2>3. panel' \in Panels /\ PanelFits(panel')
    BY <2>1, <2>2, RotationFits DEF SetRotation, PanelInv
  <2>4. config' \in [rotation : Degrees, start : Degrees]
    BY <2>1, <2>2 DEF SetRotation, PanelInv
  <2>5. QED
    BY <2>3, <2>4 DEF PanelInv
<1>12. CASE UNCHANGED vars_
  BY <1>12, <1>1 DEF vars_, native, main
<1>13. QED
  BY <1>3, <1>4, <1>5, <1>6, <1>7, <1>8, <1>9, <1>10, <1>11, <1>12 DEF Next


-----------------------------------------------------------------------------
(* Pending updates.                                                            *)

(* Every request for an update is paid for.                                   *)
LEMMA CountStep ==
  ASSUME ProcInv, CountInv, [Next]_vars_
  PROVE  CountInv'
<1>1. ASSUME UNCHANGED <<pending, changes, events, inited, restarted>>
      PROVE  CountInv'
  BY <1>1 DEF CountInv, Owed
<1>2. CASE Finger
  BY <1>2, <1>1 DEF Finger, Press, TimePasses, LongPress, Release, Pressing, Swipe, main, env
<1>3. CASE Tick \/ evdev_discovery_cb
  BY <1>3, <1>1 DEF Tick, evdev_discovery_cb, main, env
<1>4. CASE Goroutines
  <2>1. CASE InitDisplay
    BY <2>1 DEF InitDisplay, CountInv, Owed, ProcInv, env
  <2>2. CASE RequestDropped
    BY <2>2 DEF RequestDropped, CountInv, Owed, ProcInv, env
  <2>3. CASE configureDisplayOnNativeRestart
    BY <2>3 DEF configureDisplayOnNativeRestart, CountInv, Owed, ProcInv
  <2>4. ASSUME NEW u \in Updaters, RequestStarts(u)
        PROVE  CountInv'
    BY <2>4 DEF RequestStarts, CountInv, Owed, ProcInv, env
  <2>5. ASSUME NEW u \in Updaters,
               UpdateLabels(u) \/ UpdateVariable(u) \/ UpdateLook(u) \/ UpdateLoad(u)
        PROVE  CountInv'
    BY <2>5, <1>1 DEF UpdateLabels, UpdateVariable, UpdateLook, UpdateLoad, env
  <2>6. CASE RebootShows \/ RebootLooks \/ RebootReturns
    BY <2>6, <1>1 DEF RebootShows, RebootLooks, RebootReturns, env
  <2>7. QED
    BY <1>4, <2>1, <2>2, <2>3, <2>4, <2>5, <2>6 DEF Goroutines, UpdateSteps
<1>5. CASE RebootFails
  BY <1>5, AssumedSets DEF RebootFails, Event, CountInv, Owed, ProcInv
<1>6. CASE DeviceReboots
  BY <1>6 DEF DeviceReboots, CountInv, Owed
<1>7. CASE \E n \in Networks : NetworkChanges(n)
  BY <1>7, AssumedSets DEF NetworkChanges, CountInv, Owed
<1>8. CASE \E w \in Links : LinkChanges(w)
  BY <1>8, AssumedSets DEF LinkChanges, Event, CountInv, Owed
<1>9. CASE ChildDies
  BY <1>9, AssumedSets DEF ChildDies, Event, CountInv, Owed, ProcInv
<1>10. CASE \E r \in Rotations : SetRotation(r)
  BY <1>10, AssumedSets DEF SetRotation, Event, CountInv, Owed
<1>11. CASE UNCHANGED vars_
  BY <1>11, <1>1 DEF vars_, main, env
<1>12. QED
  BY <1>2, <1>3, <1>4, <1>5, <1>6, <1>7, <1>8, <1>9, <1>10, <1>11 DEF Next

-----------------------------------------------------------------------------
(* The goroutines' own state.                                                  *)

(* What the goroutines' records look like after the assignments to them.      *)
LEMMA UpdateTyped ==
  ASSUME upd \in [Updaters -> Updates]
  PROVE  /\ IdleUpdate \in Updates
         /\ NotAlone \in [Updaters -> Updates]
         /\ \A u \in Updaters : /\ NotAlone[u].pc = upd[u].pc
                                /\ NotAlone[u].up = upd[u].up
                                /\ ~ NotAlone[u].alone
         /\ \A u \in Updaters, p \in UpdatePcs : [upd EXCEPT ![u].pc = p] \in [Updaters -> Updates]
         /\ \A u \in Updaters : [upd EXCEPT ![u] = IdleUpdate] \in [Updaters -> Updates]
<1>1. IdleUpdate \in Updates
  BY DEF IdleUpdate, Updates, UpdatePcs
<1>2. ASSUME NEW u \in Updaters
      PROVE  /\ [upd[u] EXCEPT !.alone = FALSE] \in Updates
             /\ [upd[u] EXCEPT !.alone = FALSE].pc = upd[u].pc
             /\ [upd[u] EXCEPT !.alone = FALSE].up = upd[u].up
             /\ ~ [upd[u] EXCEPT !.alone = FALSE].alone
  <2>1. upd[u] \in Updates
    OBVIOUS
  <2>2. QED
    BY <2>1 DEF Updates
<1>3. NotAlone \in [Updaters -> Updates]
  BY <1>2 DEF NotAlone
<1>4. \A u \in Updaters : /\ NotAlone[u].pc = upd[u].pc
                          /\ NotAlone[u].up = upd[u].up
                          /\ ~ NotAlone[u].alone
  BY <1>2 DEF NotAlone
<1>5. \A u \in Updaters, p \in UpdatePcs : [upd EXCEPT ![u].pc = p] \in [Updaters -> Updates]
  <2>1. ASSUME NEW u \in Updaters, NEW p \in UpdatePcs
        PROVE  [upd[u] EXCEPT !.pc = p] \in Updates
    <3>1. upd[u] \in Updates
      OBVIOUS
    <3>2. QED
      BY <3>1 DEF Updates
  <2>2. QED
    BY <2>1
<1>6. QED
  BY <1>1, <1>3, <1>4, <1>5

(* The goroutines keep to their steps.                                        *)
LEMMA ProcStep ==
  ASSUME ProcInv, [Next]_vars_
  PROVE  ProcInv'
<1>0. ASSUME NEW p \in RebootPcs
      PROVE  [reboot EXCEPT !.pc = p] \in Reboots
  BY DEF ProcInv, Reboots
<1>1. ASSUME UNCHANGED <<upd, reboot, inited, restarted, settled>>
      PROVE  ProcInv'
  BY <1>1 DEF ProcInv
<1>2. CASE Finger
  <2>1. ASSUME NEW a, Pressing(a) PROVE ProcInv'
    <3>1. reboot' \in Reboots
      BY <2>1, <1>0 DEF Pressing, Fire, Requested, rpcToggleDHCPClient, RebootAsked, ProcInv, RebootPcs
    <3>2. QED
      BY <2>1, <3>1 DEF Pressing, ProcInv, env
  <2>2. QED
    BY <1>2, <1>1, <2>1 DEF Finger, Press, TimePasses, LongPress, Release, Swipe, main, env, hist
<1>3. CASE Tick \/ evdev_discovery_cb
  BY <1>3, <1>1 DEF Tick, evdev_discovery_cb, main, env, hist
<1>4. CASE Goroutines
  <2>1. CASE InitDisplay
    BY <2>1 DEF InitDisplay, ProcInv, env, hist
  <2>2. CASE RequestDropped
    BY <2>2, <1>1 DEF RequestDropped, env, hist
  <2>3. CASE configureDisplayOnNativeRestart
    BY <2>3 DEF configureDisplayOnNativeRestart, ProcInv, hist
  <2>4. ASSUME NEW u \in Updaters, RequestStarts(u)
        PROVE  ProcInv'
    <3> DEFINE free == (\A v \in Updaters : upd[v].pc = "idle")
                       /\ ~ restarted /\ reboot.pc \notin {"check", "load"}
               new == [IdleUpdate EXCEPT !.pc = "labels", !.alone = free]
    <3>1. free \in BOOLEAN
      BY Zenon
    <3>2. upd' = [NotAlone EXCEPT ![u] = new]
      BY <2>4 DEF RequestStarts
    <3> HIDE DEF free
    <3>3. new \in Updates
      BY <3>1 DEF IdleUpdate, Updates, UpdatePcs
    <3> HIDE DEF new
    <3>4. upd' \in [Updaters -> Updates]
      BY <3>2, <3>3, UpdateTyped DEF ProcInv
    <3>5. QED
      BY <2>4, <3>4 DEF RequestStarts, ProcInv, env, hist
  <2>5. ASSUME NEW u \in Updaters, UpdateLabels(u)
        PROVE  ProcInv'
    BY <2>5, UpdateTyped DEF UpdateLabels, ProcInv, UpdatePcs, env, hist
  <2>6. ASSUME NEW u \in Updaters, UpdateVariable(u)
        PROVE  ProcInv'
    <3> DEFINE new == [upd[u] EXCEPT !.pc = "look", !.up = IsUp(net)]
    <3>1. IsUp(net) \in BOOLEAN
      BY Zenon DEF IsUp
    <3>2. upd' = [upd EXCEPT ![u] = new]
      BY <2>6 DEF UpdateVariable
    <3>3. upd[u] \in Updates
      BY DEF ProcInv
    <3>4. new \in Updates
      BY <3>1, <3>3 DEF Updates, UpdatePcs
    <3> HIDE DEF new
    <3>5. QED
      BY <2>6, <3>2, <3>4 DEF UpdateVariable, ProcInv, env, hist
  <2>7. ASSUME NEW u \in Updaters, UpdateLook(u)
        PROVE  ProcInv'
    <3>1. upd' \in [Updaters -> Updates]
      BY <2>7, UpdateTyped DEF UpdateLook, ProcInv, UpdatePcs
    <3>2. settled' \in BOOLEAN
      BY <2>7, Zenon DEF UpdateLook, ProcInv
    <3>3. QED
      BY <2>7, <3>1, <3>2 DEF UpdateLook, ProcInv, env
  <2>8. ASSUME NEW u \in Updaters, UpdateLoad(u)
        PROVE  ProcInv'
    <3>1. upd' \in [Updaters -> Updates]
      BY <2>8, UpdateTyped DEF UpdateLoad, ProcInv
    <3>2. settled' \in BOOLEAN
      BY <2>8, Zenon DEF UpdateLoad
    <3>3. QED
      BY <2>8, <3>1, <3>2 DEF UpdateLoad, ProcInv, env
  <2>9. CASE RebootShows \/ RebootLooks \/ RebootReturns
    <3>1. reboot' \in Reboots
      BY <2>9, <1>0 DEF RebootShows, RebootLooks, RebootReturns, RebootPcs
    <3>2. QED
      BY <2>9, <3>1 DEF RebootShows, RebootLooks, RebootReturns, ProcInv, env, hist
  <2>10. QED
    BY <1>4, <2>1, <2>2, <2>3, <2>4, <2>5, <2>6, <2>7, <2>8, <2>9 DEF Goroutines, UpdateSteps
<1>5. CASE RebootFails
  <2>1. IsUp(net) \in BOOLEAN
    BY Zenon DEF IsUp
  <2>2. reboot' \in Reboots
    BY <1>5, <2>1 DEF RebootFails, ProcInv, Reboots, RebootPcs
  <2>3. QED
    BY <1>5, <2>2, UpdateTyped DEF RebootFails, ProcInv, hist
<1>6. CASE DeviceReboots
  BY <1>6, UpdateTyped DEF DeviceReboots, ProcInv, Reboots, RebootPcs
<1>7. CASE \E n \in Networks : NetworkChanges(n)
  BY <1>7, UpdateTyped DEF NetworkChanges, ProcInv
<1>8. CASE \E w \in Links : LinkChanges(w)
  BY <1>8, UpdateTyped DEF LinkChanges, ProcInv
<1>9. CASE ChildDies
  <2>1. upd' \in [Updaters -> Updates]
    BY <1>9, UpdateTyped DEF ChildDies, ProcInv
  <2>2. reboot' \in Reboots
    <3> DEFINE p == IF reboot.pc = "load" THEN "idle" ELSE reboot.pc
    <3>1. p \in RebootPcs
      BY DEF ProcInv, Reboots, RebootPcs
    <3>2. reboot' = [reboot EXCEPT !.pc = p]
      BY <1>9 DEF ChildDies
    <3> HIDE DEF p
    <3>3. QED
      BY <1>0, <3>1, <3>2
  <2>3. QED
    BY <1>9, <2>1, <2>2 DEF ChildDies, ProcInv
<1>10. CASE \E r \in Rotations : SetRotation(r)
  BY <1>10, <1>1 DEF SetRotation, hist
<1>11. CASE UNCHANGED vars_
  BY <1>11, <1>1 DEF vars_, main, env, hist
<1>12. QED
  BY <1>2, <1>3, <1>4, <1>5, <1>6, <1>7, <1>8, <1>9, <1>10, <1>11 DEF Next

-----------------------------------------------------------------------------
(* Widgets, version strings, network and links.                                *)

(* What hiding and showing does to the set of hidden widgets.                 *)
LEMMA HideShow ==
  ASSUME NEW W, NEW names
  PROVE  /\ Hide(W, names) = W \cup (names \cap DOMAIN objects)
         /\ Show(W, names) = W \ (names \cap DOMAIN objects)
BY DEF Hide, Show, jetkvm_ui_add_flag, jetkvm_ui_clear_flag, ui_get_obj, ObjFlags

(* Only widgets of the table are ever hidden.                                 *)
LEMMA WidgetsStay ==
  ASSUME NEW W \in SUBSET DOMAIN objects
  PROVE  /\ \A names : Hide(W, names) \in SUBSET DOMAIN objects
         /\ \A names : Show(W, names) \in SUBSET DOMAIN objects
         /\ \A names, empty : ChangeVisibility(W, names, empty) \in SUBSET DOMAIN objects
         /\ CloudIcon(W) \in SUBSET DOMAIN objects
<1>1. /\ \A names : Hide(W, names) \in SUBSET DOMAIN objects
      /\ \A names : Show(W, names) \in SUBSET DOMAIN objects
  BY HideShow
<1>2. QED
  BY <1>1 DEF ChangeVisibility, CloudIcon

(* The same of the static contents.                                           *)
LEMMA StaticStay ==
  ASSUME NEW W \in SUBSET DOMAIN objects
  PROVE  updateStaticContents(W) \in SUBSET DOMAIN objects
<1> DEFINE V == ChangeVisibility(W, BlankFacts, TRUE)
<1>1. V \in SUBSET DOMAIN objects
  BY WidgetsStay
<1> HIDE DEF V
<1>2. ChangeVisibility(V, Facts \ BlankFacts, FALSE) \in SUBSET DOMAIN objects
  BY <1>1, WidgetsStay
<1>3. QED
  BY <1>2 DEF updateStaticContents, V

(* No step hides anything but a widget of the table.                          *)
LEMMA HiddenStep ==
  ASSUME hidden \in SUBSET DOMAIN objects, [Next]_vars_
  PROVE  hidden' \in SUBSET DOMAIN objects
<1>1. CASE UNCHANGED hidden
  BY <1>1
<1>2. ASSUME NEW r, ChildStarts(r)
      PROVE  hidden' \in SUBSET DOMAIN objects
  BY <1>2 DEF ChildStarts, InitiallyHidden
<1>3. ASSUME NEW a \in Holds, Pressing(a)
      PROVE  hidden' \in SUBSET DOMAIN objects
  <2>1. "reset_config_button" \in DOMAIN objects
    BY NamedWidgets, Zenon
  <2>2. QED
    BY <1>3, <2>1 DEF Pressing, Fire, SwappedOut, SwappedIn
<1>4. CASE InitDisplay \/ configureDisplayOnNativeRestart
  BY <1>4, StaticStay DEF InitDisplay, configureDisplayOnNativeRestart
<1>5. ASSUME NEW u \in Updaters, UpdateLabels(u)
      PROVE  hidden' \in SUBSET DOMAIN objects
  <2> DEFINE V == ChangeVisibility(hidden, {"home_info_ipv6_addr"}, net # "ipv6")
             X == Hide(V, {"menu_btn_network", "menu_btn_access"})
  <2>1. V \in SUBSET DOMAIN objects
    BY WidgetsStay
  <2>2. hidden' = CloudIcon(X)
    BY <1>5 DEF UpdateLabels
  <2> HIDE DEF V
  <2>3. X \in SUBSET DOMAIN objects
    BY <2>1, WidgetsStay
  <2> HIDE DEF X
  <2>4. QED
    BY <2>2, <2>3, WidgetsStay
<1>6. CASE Finger
  BY <1>6, <1>1, <1>3 DEF Finger, Press, TimePasses, LongPress, Release, Swipe
<1>7. CASE Tick \/ evdev_discovery_cb
  BY <1>7, <1>1 DEF Tick, evdev_discovery_cb
<1>8. CASE Goroutines
  <2>1. CASE RequestDropped \/ RebootShows \/ RebootLooks \/ RebootReturns
    BY <2>1, <1>1 DEF RequestDropped, RebootShows, RebootLooks, RebootReturns, native
  <2>2. ASSUME NEW u \in Updaters, RequestStarts(u) \/ UpdateVariable(u) \/ UpdateLook(u)
                                   \/ UpdateLoad(u)
        PROVE  hidden' \in SUBSET DOMAIN objects
    BY <2>2, <1>1 DEF RequestStarts, UpdateVariable, UpdateLook, UpdateLoad, native
  <2>3. QED
    BY <1>8, <1>4, <1>5, <2>1, <2>2 DEF Goroutines, UpdateSteps
<1>9. CASE RebootFails \/ \E r \in Rotations : SetRotation(r)
  BY <1>9, <1>1 DEF RebootFails, SetRotation, native
<1>10. CASE DeviceReboots \/ ChildDies
  BY <1>10, <1>2 DEF DeviceReboots, ChildDies
<1>11. CASE \E n \in Networks : NetworkChanges(n)
  BY <1>11, <1>1 DEF NetworkChanges, native
<1>12. CASE \E w \in Links : LinkChanges(w)
  BY <1>12, <1>1 DEF LinkChanges, native
<1>13. CASE UNCHANGED vars_
  BY <1>13, <1>1 DEF vars_, native
<1>14. QED
  BY <1>6, <1>7, <1>8, <1>9, <1>10, <1>11, <1>12, <1>13 DEF Next

(* The version strings stay within their buffers.                              *)
LEMMA VersionsFit ==
  /\ UiVarsAtStart \in [app : Lengths, system : Lengths, lvgl : BOOLEAN]
  /\ NewTexts \in [app : AppTexts, system : Lengths]
  /\ \A v \in [app : Lengths, system : Lengths, lvgl : BOOLEAN] :
       get_var_lvgl_version(v) \in [app : Lengths, system : Lengths, lvgl : BOOLEAN]
<1>1. NewVars \in [app : Lengths, system : Lengths, lvgl : BOOLEAN]
  BY DEF NewVars, Lengths
<1>2. NewTexts \in [app : AppTexts, system : Lengths]
  BY DEF NewTexts, Lengths, AppTexts
<1>3. ASSUME NEW v \in [app : Lengths, system : Lengths, lvgl : BOOLEAN]
      PROVE  get_var_lvgl_version(v) \in [app : Lengths, system : Lengths, lvgl : BOOLEAN]
  <2>1. (IF v.lvgl \/ v.app < 31 THEN v.app ELSE 31) \in Lengths
    BY DEF Lengths
  <2>2. QED
    BY <2>1 DEF get_var_lvgl_version
<1>4. ASSUME NEW v \in [app : Lengths, system : Lengths, lvgl : BOOLEAN], NEW n \in 1..99
      PROVE  /\ set_var_app_version(v, n) \in [app : Lengths, system : Lengths, lvgl : BOOLEAN]
             /\ set_var_system_version(v, n) \in [app : Lengths, system : Lengths, lvgl : BOOLEAN]
  <2>1. (IF n < 99 THEN n ELSE 99) \in Lengths
    BY DEF Lengths
  <2>2. QED
    BY <2>1 DEF set_var_app_version, set_var_system_version
<1>5. UiVarsAtStart \in [app : Lengths, system : Lengths, lvgl : BOOLEAN]
  BY <1>1, <1>3, <1>4, AssumedSets DEF UiVarsAtStart
<1>6. QED
  BY <1>2, <1>3, <1>5

(* Widgets, version strings, network and links keep their types.              *)
LEMMA DataStep ==
  ASSUME DataInv, [Next]_vars_
  PROVE  DataInv'
<1>0. hidden' \in SUBSET DOMAIN objects
  BY HiddenStep DEF DataInv
<1>1. ASSUME UNCHANGED <<vars, text, links, net>>
      PROVE  DataInv'
  BY <1>0, <1>1 DEF DataInv
<1>2. ASSUME NEW r, ChildStarts(r), links' \subseteq Links, net' \in Networks
      PROVE  DataInv'
  BY <1>0, <1>2, VersionsFit DEF ChildStarts, DataInv
<1>3. CASE Finger
  BY <1>3, <1>1 DEF Finger, Press, TimePasses, LongPress, Release, Pressing, Swipe, main
<1>4. CASE Tick
  <2>1. vars' \in [app : Lengths, system : Lengths, lvgl : BOOLEAN]
    BY <1>4, VersionsFit DEF Tick, tick_screen, tick_screen_boot_screen,
                             tick_screen_about_screen, DataInv
  <2>2. vars.app \in Lengths /\ vars.system \in Lengths
    BY DEF DataInv
  <2>3. \A s \in {"boot_screen", "about_screen"} :
          [text.app EXCEPT ![s] = vars.app] \in AppTexts
    <3>1. text.app \in AppTexts
      BY DEF DataInv
    <3>2. QED
      BY <2>2, <3>1 DEF AppTexts
  <2>4. text' \in [app : AppTexts, system : Lengths]
    BY <1>4, <2>2, <2>3 DEF Tick, tick_screen, tick_screen_boot_screen,
                            tick_screen_about_screen, DataInv
  <2>5. QED
    BY <1>0, <1>4, <2>1, <2>4 DEF Tick, DataInv, main
<1>5. CASE evdev_discovery_cb
  BY <1>5, <1>1 DEF evdev_discovery_cb, main
<1>6. CASE Goroutines
  <2>1. CASE InitDisplay \/ RequestDropped \/ configureDisplayOnNativeRestart
             \/ RebootShows \/ RebootLooks \/ RebootReturns
    BY <2>1, <1>1 DEF InitDisplay, RequestDropped, configureDisplayOnNativeRestart, RebootShows,
                      RebootLooks, RebootReturns, native
  <2>2. CASE UpdateSteps
    BY <2>2, <1>1 DEF UpdateSteps, RequestStarts, UpdateLabels, UpdateVariable, UpdateLook,
                      UpdateLoad, native
  <2>3. QED
    BY <1>6, <2>1, <2>2 DEF Goroutines
<1>7. CASE RebootFails \/ \E r \in Rotations : SetRotation(r)
  BY <1>7, <1>1 DEF RebootFails, SetRotation, native
<1>8. CASE DeviceReboots \/ ChildDies
  BY <1>8, <1>2 DEF DeviceReboots, ChildDies, DataInv
<1>9. CASE \E n \in Networks : NetworkChanges(n)
  BY <1>0, <1>9 DEF NetworkChanges, native, DataInv
<1>10. CASE \E w \in Links : LinkChanges(w)
  BY <1>0, <1>10 DEF LinkChanges, native, DataInv
<1>11. CASE UNCHANGED vars_
  BY <1>11, <1>1 DEF vars_, native, main
<1>12. QED
  BY <1>3, <1>4, <1>5, <1>6, <1>7, <1>8, <1>9, <1>10, <1>11 DEF Next

(* One status label: the word and the colour follow the link.                  *)
LEMMA LabelFollows ==
  ASSUME NEW s, NEW w \in DOMAIN objects
  PROVE  LET t == updateDisplayUsbState(s, w)
         IN  /\ t.connected = IF w \in links THEN s.connected \cup {w} ELSE s.connected \ {w}
             /\ t.states = IF w \in links THEN s.states \cup {<<w, "LV_STATE_CHECKED">>}
                           ELSE s.states \ {<<w, "LV_STATE_CHECKED">>}
BY DEF updateDisplayUsbState, jetkvm_ui_set_text, jetkvm_ui_add_state, jetkvm_ui_clear_state,
       ui_get_obj, ObjStates

(* Both status labels.                                                         *)
LEMMA LabelsFollow ==
  ASSUME NEW s, NEW t, t = updateDisplayUsbState(updateDisplayUsbState(s, "usb_status_label"),
                                                 "hdmi_status_label")
  PROVE  /\ \A w : w \in t.connected => w \in s.connected \/ w \in DOMAIN objects
         /\ \A p \in t.states : p \in s.states \/ p[1] \in DOMAIN objects
         /\ \A w \in {"usb_status_label", "hdmi_status_label"} :
              /\ (w \in t.connected) = (w \in links)
              /\ (<<w, "LV_STATE_CHECKED">> \in t.states) = (w \in links)
<1> DEFINE r == updateDisplayUsbState(s, "usb_status_label")
<1>1. "usb_status_label" \in DOMAIN objects /\ "hdmi_status_label" \in DOMAIN objects
  BY NamedWidgets, Zenon
<1>2. /\ r.connected = IF "usb_status_label" \in links THEN s.connected \cup {"usb_status_label"}
                       ELSE s.connected \ {"usb_status_label"}
      /\ r.states = IF "usb_status_label" \in links
                    THEN s.states \cup {<<"usb_status_label", "LV_STATE_CHECKED">>}
                    ELSE s.states \ {<<"usb_status_label", "LV_STATE_CHECKED">>}
  BY <1>1, LabelFollows
<1>3. t = updateDisplayUsbState(r, "hdmi_status_label")
  OBVIOUS
<1> HIDE DEF r
<1>4. /\ t.connected = IF "hdmi_status_label" \in links THEN r.connected \cup {"hdmi_status_label"}
                       ELSE r.connected \ {"hdmi_status_label"}
      /\ t.states = IF "hdmi_status_label" \in links
                    THEN r.states \cup {<<"hdmi_status_label", "LV_STATE_CHECKED">>}
                    ELSE r.states \ {<<"hdmi_status_label", "LV_STATE_CHECKED">>}
  BY <1>1, <1>3, LabelFollows
<1>5. QED
  BY <1>1, <1>2, <1>4

(* The status labels are widgets of the table.                                *)
LEMMA StatusStep ==
  ASSUME StatusInv, [Next]_vars_
  PROVE  StatusInv'
<1>1. CASE UNCHANGED status
  BY <1>1 DEF StatusInv
<1>2. ASSUME NEW r, ChildStarts(r)
      PROVE  StatusInv'
  BY <1>2 DEF ChildStarts, NewStatus, StatusInv
<1>3. ASSUME NEW u \in Updaters, UpdateLabels(u)
      PROVE  StatusInv'
  <2>1. status' = updateDisplayUsbState(updateDisplayUsbState(status, "usb_status_label"),
                                        "hdmi_status_label")
    BY <1>3 DEF UpdateLabels
  <2>2. /\ \A w : w \in status'.connected => w \in status.connected \/ w \in DOMAIN objects
        /\ \A p \in status'.states : p \in status.states \/ p[1] \in DOMAIN objects
    BY <2>1, LabelsFollow
  <2>3. QED
    BY <2>2 DEF StatusInv
<1>4. CASE Finger
  BY <1>4, <1>1 DEF Finger, Press, TimePasses, LongPress, Release, Pressing, Swipe
<1>5. CASE Tick \/ evdev_discovery_cb
  BY <1>5, <1>1 DEF Tick, evdev_discovery_cb
<1>6. CASE Goroutines
  <2>1. CASE InitDisplay \/ RequestDropped \/ configureDisplayOnNativeRestart
             \/ RebootShows \/ RebootLooks \/ RebootReturns
    BY <2>1, <1>1 DEF InitDisplay, RequestDropped, configureDisplayOnNativeRestart, RebootShows,
                      RebootLooks, RebootReturns, native
  <2>2. ASSUME NEW u \in Updaters, RequestStarts(u) \/ UpdateVariable(u) \/ UpdateLook(u)
                                   \/ UpdateLoad(u)
        PROVE  StatusInv'
    BY <2>2, <1>1 DEF RequestStarts, UpdateVariable, UpdateLook, UpdateLoad, native
  <2>3. QED
    BY <1>6, <1>3, <2>1, <2>2 DEF Goroutines, UpdateSteps
<1>7. CASE RebootFails \/ \E r \in Rotations : SetRotation(r)
  BY <1>7, <1>1 DEF RebootFails, SetRotation, native
<1>8. CASE DeviceReboots \/ ChildDies
  BY <1>8, <1>2 DEF DeviceReboots, ChildDies
<1>9. CASE \E n \in Networks : NetworkChanges(n)
  BY <1>9, <1>1 DEF NetworkChanges, native
<1>10. CASE \E w \in Links : LinkChanges(w)
  BY <1>10, <1>1 DEF LinkChanges, native
<1>11. CASE UNCHANGED vars_
  BY <1>11, <1>1 DEF vars_, native
<1>12. QED
  BY <1>4, <1>5, <1>6, <1>7, <1>8, <1>9, <1>10, <1>11 DEF Next

-----------------------------------------------------------------------------
(* The finger and the locks of the hold actions.                               *)

(* The handler of an event is the one the table has.                           *)
LEMMA TheHandler ==
  ASSUME NEW w \in DOMAIN objects, NEW e, NEW h \in Handlers(w, e)
  PROVE  HandlerOf(w, e) = h /\ \A g \in Handlers(w, e) : g = h
<1>1. ASSUME NEW g \in Handlers(w, e), NEW k \in Handlers(w, e)
      PROVE  g = k
  <2>1. <<e, g>> \in objects[w].on /\ <<e, k>> \in objects[w].on
    BY DEF Handlers
  <2>2. \A p, q \in objects[w].on : p[1] = q[1] => p[2] = q[2]
    BY OneHandlerEach
  <2>3. <<e, g>>[1] = <<e, k>>[1] => <<e, g>>[2] = <<e, k>>[2]
    BY <2>1, <2>2
  <2>4. QED
    BY <2>3
<1>2. QED
  BY <1>1 DEF HandlerOf

(* Every step keeps the locks of the hold actions in order.                   *)
LEMMA HoldStep ==
  ASSUME HoldInv, [Next]_vars_
  PROVE  HoldInv'
<1>1. CASE UNCHANGED <<touch, locks, fired, stuck>>
  BY <1>1 DEF HoldInv
<1>2. NoTouch \in Touches /\ NoTouch.on = None /\ NoTouch.wait = FALSE
  BY DEF NoTouch, Touches, Places, Spans, MaxHold
<1>3. ASSUME NEW r, ChildStarts(r), fired' = 0
      PROVE  HoldInv'
  BY <1>2, <1>3 DEF ChildStarts, HoldInv
<1>4. CASE Finger
  <2>1. ASSUME NEW w \in Fingered, Press(w) PROVE HoldInv'
    <3>1. w \in Places /\ touch' = [NoTouch EXCEPT !.on = w]
      BY <2>1, AssumedSets DEF Press, Places
    <3>2. touch' \in Touches /\ touch'.on = w /\ touch'.wait = FALSE
      BY <1>2, <3>1 DEF Touches
    <3>3. locks \subseteq stuck
      BY <2>1, <1>2 DEF Press, HoldInv
    <3>4. locks' = locks /\ stuck' = stuck /\ fired' = 0
      BY <2>1 DEF Press
    <3>5. QED
      BY <3>2, <3>3, <3>4 DEF HoldInv
  <2>2. CASE TimePasses
    <3>1. touch.since + 1 \in Spans
      BY <2>2 DEF TimePasses, HoldInv, Touches, Spans, MaxHold
    <3>2. /\ touch' \in Touches /\ touch'.on = touch.on /\ touch'.wait = touch.wait
          /\ touch'.since = touch.since + 1
      BY <2>2, <3>1 DEF TimePasses, HoldInv, Touches
    <3>3. touch.since \in Nat
      BY DEF HoldInv, Touches, Spans, MaxHold
    <3>4. \A a : touch.since >= HoldTime(a) => touch'.since >= HoldTime(a)
      BY <3>2, <3>3 DEF HoldTime
    <3>5. UNCHANGED <<locks, fired, stuck>>
      BY <2>2 DEF TimePasses, hist
    <3>6. QED
      BY <3>2, <3>4, <3>5 DEF HoldInv
  <2>3. CASE LongPress
    <3>1. /\ touch' \in Touches /\ touch'.on = touch.on /\ touch'.wait = touch.wait
          /\ touch'.since = touch.since
      BY <2>3 DEF LongPress, HoldInv, Touches
    <3>2. UNCHANGED <<locks, fired, stuck>>
      BY <2>3 DEF LongPress, hist
    <3>3. QED
      BY <3>1, <3>2 DEF HoldInv
  <2>4. CASE Release
    <3> DEFINE h == HandlerOf(touch.on, "RELEASED")
    <3>1. touch' = NoTouch /\ fired' = 0 /\ touch.on \in DOMAIN objects
      BY <2>4 DEF Release, HoldInv, Touches, Places
    <3>2. /\ locks' = IF h \in Holds /\ ~ touch.wait THEN locks \ {h} ELSE locks
          /\ stuck' = IF h \in Holds /\ ~ touch.wait THEN stuck \ {h} ELSE stuck
      BY <2>4 DEF Release, HoldReleased
    <3>3. \A a \in Handlers(touch.on, "RELEASED") : a = h
      BY <3>1, TheHandler
    <3> HIDE DEF h
    <3>4. locks' \subseteq stuck'
      BY <3>2, <3>3 DEF HoldInv
    <3>5. locks' \subseteq Holds
      BY <3>2 DEF HoldInv
    <3>6. QED
      BY <1>2, <3>1, <3>4, <3>5 DEF HoldInv
  <2>5. ASSUME NEW a \in Holds, Pressing(a) PROVE HoldInv'
    <3>1. /\ touch.on \in DOMAIN objects /\ touch.on # None
          /\ a \in Handlers(touch.on, "PRESSING") /\ a \notin locks
          /\ ~ touch.wait /\ touch.since >= HoldTime(a)
      BY <2>5 DEF Pressing, HoldInv, Touches, Places
    <3>2. a \in Handlers(touch.on, "RELEASED")
      BY <3>1, HoldsAreReleased
    <3>3. fired = 0
      BY <3>1, TheHandler DEF HoldInv
    <3>4. locks' = locks \cup {a} /\ fired' = 1 /\ touch' = touch /\ stuck' = stuck
      BY <2>5, <3>3 DEF Pressing, Fire
    <3>5. QED
      BY <3>1, <3>2, <3>4 DEF HoldInv
  <2>6. ASSUME NEW d, Swipe(d) PROVE HoldInv'
    <3> DEFINE h == HandlerOf(ScreenOf(touch.on), "GESTURE")
               leaves == (h \notin DirectedGestures \/ Direction(h) = d) /\ h \in DirectedGestures
    <3>1. leaves \in BOOLEAN
      BY Zenon
    <3>2. /\ touch.on # None
          /\ touch' = [touch EXCEPT !.swiped = TRUE, !.wait = leaves]
          /\ leaves => \A a \in Holds : a \in Handlers(touch.on, "RELEASED") /\ a \in locks
                                          => a \in stuck'
          /\ stuck \subseteq stuck'
          /\ UNCHANGED <<locks, fired>>
      BY <2>6 DEF Swipe
    <3> HIDE DEF leaves
    <3>3. /\ touch' \in Touches /\ touch'.on = touch.on /\ touch'.since = touch.since
      BY <3>1, <3>2 DEF HoldInv, Touches
    <3>4. touch'.wait => leaves
      BY <3>1, <3>2 DEF HoldInv, Touches
    <3>5. leaves => locks \subseteq stuck'
      BY <3>2 DEF HoldInv
    <3>6. QED
      BY <3>2, <3>3, <3>4, <3>5 DEF HoldInv
  <2>7. QED
    BY <1>4, <2>1, <2>2, <2>3, <2>4, <2>5, <2>6 DEF Finger
<1>5. CASE Tick \/ evdev_discovery_cb
  BY <1>5, <1>1 DEF Tick, evdev_discovery_cb, hist
<1>6. CASE Goroutines
  <2>1. CASE InitDisplay \/ RequestDropped \/ configureDisplayOnNativeRestart
             \/ RebootShows \/ RebootLooks \/ RebootReturns
    BY <2>1, <1>1 DEF InitDisplay, RequestDropped, configureDisplayOnNativeRestart, RebootShows,
                      RebootLooks, RebootReturns, native, hist
  <2>2. CASE UpdateSteps
    BY <2>2, <1>1 DEF UpdateSteps, RequestStarts, UpdateLabels, UpdateVariable, UpdateLook,
                      UpdateLoad, native, hist
  <2>3. QED
    BY <1>6, <2>1, <2>2 DEF Goroutines
<1>7. CASE RebootFails \/ \E r \in Rotations : SetRotation(r)
  BY <1>7, <1>1 DEF RebootFails, SetRotation, native, hist
<1>8. CASE DeviceReboots \/ ChildDies
  BY <1>8, <1>3 DEF DeviceReboots, ChildDies
<1>9. CASE \E n \in Networks : NetworkChanges(n)
  BY <1>9, <1>1 DEF NetworkChanges, native
<1>10. CASE \E w \in Links : LinkChanges(w)
  BY <1>10, <1>1 DEF LinkChanges, native
<1>11. CASE UNCHANGED vars_
  BY <1>11, <1>1 DEF vars_, native, hist
<1>12. QED
  BY <1>4, <1>5, <1>6, <1>7, <1>8, <1>9, <1>10, <1>11 DEF Next

-----------------------------------------------------------------------------
(* The display settles.                                                        *)

(* The static contents: a fact is hidden exactly if the build leaves it empty.  *)
LEMMA StaticFacts ==
  ASSUME NEW W, NEW f \in Facts
  PROVE  (f \o "_container" \in updateStaticContents(W)) = (f \in BlankFacts)
<1> DEFINE c(g) == g \o "_container"
           blank == BlankFacts \cup {c(g) : g \in BlankFacts}
           full  == (Facts \ BlankFacts) \cup {c(g) : g \in Facts \ BlankFacts}
<1>1. c(f) \in DOMAIN objects
  BY NamedWidgets
<1>2. c(f) \notin Facts /\ \A g \in Facts : c(f) = c(g) => f = g
  BY OwnContainers
<1>3. BlankFacts \subseteq Facts
  BY AssumedSets
<1>4. updateStaticContents(W)
        = (W \cup (blank \cap DOMAIN objects)) \ (full \cap DOMAIN objects)
  BY HideShow DEF updateStaticContents, ChangeVisibility
<1>5. c(f) \in blank <=> f \in BlankFacts
  BY <1>2, <1>3
<1>6. c(f) \in full <=> f \notin BlankFacts
  BY <1>2, <1>3
<1> HIDE DEF c, blank, full
<1>7. c(f) \in updateStaticContents(W) <=> f \in BlankFacts
  BY <1>1, <1>4, <1>5, <1>6
<1>8. (c(f) \in updateStaticContents(W)) = (f \in BlankFacts)
  BY <1>7, SMT
<1>9. QED
  BY <1>8 DEF c

(* The labels: what UpdateLabels writes, and that it leaves the facts alone.    *)
LEMMA LabelsWritten ==
  ASSUME NEW u \in Updaters, UpdateLabels(u)
  PROVE  LabelsRight' /\ \A f \in Facts : (f \o "_container" \in hidden') = (f \o "_container" \in hidden)
<1> DEFINE a == "home_info_ipv6_addr"
           V == ChangeVisibility(hidden, {a}, net # "ipv6")
           X == Hide(V, {"menu_btn_network", "menu_btn_access"})
<1>1. {a, "menu_btn_network", "menu_btn_access", "cloud_status_icon"} \subseteq DOMAIN objects
  BY NamedWidgets, Zenon
<1>2. a \o "_container" \notin DOMAIN objects
  BY BareAddress
<1>3. V = IF net # "ipv6" THEN hidden \cup {a} ELSE hidden \ {a}
  <2>1. ({a} \cup {n \o "_container" : n \in {a}}) \cap DOMAIN objects = {a}
    BY <1>1, <1>2
  <2>2. /\ Hide(hidden, {a} \cup {n \o "_container" : n \in {a}}) = hidden \cup {a}
        /\ Show(hidden, {a} \cup {n \o "_container" : n \in {a}}) = hidden \ {a}
    BY <2>1, HideShow
  <2>3. QED
    BY <2>2, Zenon DEF ChangeVisibility
<1>4. hidden' = CloudIcon(X) /\ UNCHANGED <<net, links>>
  BY DEF UpdateLabels
<1> HIDE DEF V
<1>5. X = V \cup {"menu_btn_network", "menu_btn_access"}
  BY <1>1, HideShow
<1> HIDE DEF X
<1>6. hidden' = IF "cloud_status_icon" \in links THEN X \ {"cloud_status_icon"}
                ELSE X \cup {"cloud_status_icon"}
  <2>1. /\ Hide(X, {"cloud_status_icon"}) = X \cup {"cloud_status_icon"}
        /\ Show(X, {"cloud_status_icon"}) = X \ {"cloud_status_icon"}
    BY <1>1, HideShow
  <2>2. QED
    BY <1>4, <2>1, Zenon DEF CloudIcon
<1>7. /\ a \in hidden' <=> net' # "ipv6"
      /\ {"menu_btn_network", "menu_btn_access"} \subseteq hidden'
      /\ "cloud_status_icon" \in hidden' <=> "cloud_status_icon" \notin links'
  BY <1>3, <1>4, <1>5, <1>6
<1>8. \A w \in {"usb_status_label", "hdmi_status_label"} :
        /\ (w \in status'.connected) = (w \in links')
        /\ (<<w, "LV_STATE_CHECKED">> \in status'.states) = (w \in links')
  <2>1. status' = updateDisplayUsbState(updateDisplayUsbState(status, "usb_status_label"),
                                        "hdmi_status_label")
    BY DEF UpdateLabels
  <2>2. QED
    BY <1>4, <2>1, LabelsFollow
<1>9. LabelsRight'
  BY <1>7, <1>8, SMT DEF LabelsRight
<1>10. ASSUME NEW f \in Facts
       PROVE  (f \o "_container" \in hidden') = (f \o "_container" \in hidden)
  <2> DEFINE c == f \o "_container"
  <2>1. c \notin {a, "menu_btn_network", "menu_btn_access", "cloud_status_icon"}
    BY OwnContainers
  <2> HIDE DEF c
  <2>2. c \in hidden' <=> c \in hidden
    BY <1>3, <1>5, <1>6, <2>1
  <2>3. (c \in hidden') = (c \in hidden)
    BY <2>2, SMT
  <2>4. QED
    BY <2>3 DEF c
<1>11. QED
  BY <1>9, <1>10

(* A hold that fires swaps its own widgets only.                               *)
LEMMA FireKeeps ==
  ASSUME NEW a \in Holds, Pressing(a)
  PROVE  /\ LabelsRight => LabelsRight'
         /\ \A f \in Facts : (f \o "_container" \in hidden') = (f \o "_container" \in hidden)
<1>1. hidden' = (hidden \cup SwappedOut(a)) \ SwappedIn(a)
  BY DEF Pressing, Fire
<1>2. /\ SwappedOut(a) \subseteq {"reset_config_button"}
      /\ SwappedIn(a) \subseteq {"reset_config_spinner"}
  BY DEF SwappedOut, SwappedIn
<1>3. \A x : x \notin {"reset_config_button", "reset_config_spinner"}
               => (x \in hidden' <=> x \in hidden)
  BY <1>1, <1>2
<1>4. UNCHANGED <<net, links, status>>
  BY DEF Pressing
<1>5. LabelsRight => LabelsRight'
  <2>1. /\ "home_info_ipv6_addr" \in hidden' <=> "home_info_ipv6_addr" \in hidden
        /\ "cloud_status_icon" \in hidden' <=> "cloud_status_icon" \in hidden
        /\ "menu_btn_network" \in hidden' <=> "menu_btn_network" \in hidden
        /\ "menu_btn_access" \in hidden' <=> "menu_btn_access" \in hidden
    BY <1>3
  <2>2. QED
    BY <1>4, <2>1 DEF LabelsRight
<1>6. ASSUME NEW f \in Facts
      PROVE  (f \o "_container" \in hidden') = (f \o "_container" \in hidden)
  <2> DEFINE c == f \o "_container"
  <2>1. c \notin {"reset_config_button", "reset_config_spinner"}
    BY OwnContainers
  <2> HIDE DEF c
  <2>2. c \in hidden' <=> c \in hidden
    BY <1>3, <2>1
  <2>3. (c \in hidden') = (c \in hidden)
    BY <2>2, SMT
  <2>4. QED
    BY <2>3 DEF c
<1>7. QED
  BY <1>5, <1>6

(* Steps of nobody who updates.                                                *)
LEMMA SettleFrame ==
  ASSUME SettleInv,
         UNCHANGED <<net, upd, inited, restarted, settled, main_screen>>,
         LabelsRight => LabelsRight',
         FactsRight => FactsRight',
         settled /\ MainRight /\ ActiveRight => ActiveRight',
         reboot'.pc \in {"check", "load"} => reboot.pc \in {"check", "load"} /\ reboot'.up = reboot.up
  PROVE  SettleInv'
<1>1. Seen' <=> Seen
  BY DEF Seen
<1>2. MainRight' <=> MainRight
  BY DEF MainRight
<1>3. FactsInv'
  BY DEF SettleInv, FactsInv
<1>4. SeenInv'
  BY <1>1 DEF SettleInv, SeenInv
<1>5. AloneInv'
  BY <1>2 DEF SettleInv, AloneInv
<1>6. SettledInv'
  BY <1>2 DEF SettleInv, SettledInv
<1>7. QED
  BY <1>3, <1>4, <1>5, <1>6 DEF SettleInv

(* Steps after which a change still has to be seen.                            *)
LEMMA Unseen ==
  ASSUME ~ Seen', FactsInv'
  PROVE  SettleInv'
BY DEF Seen, SettleInv, SeenInv, AloneInv, SettledInv

(* The labels say what they said if nothing they depend on has changed.       *)
LEMMA SameLabels ==
  ASSUME UNCHANGED <<hidden, status, net, links>>
  PROVE  (LabelsRight' <=> LabelsRight) /\ (FactsRight' <=> FactsRight)
BY DEF LabelsRight, FactsRight

(* Where a finger leads is never the wrong main screen or the boot screen.      *)
LEMMA FingerKeeps ==
  ASSUME ScreenInv, NEW h, LoadTarget(Target(h, main_screen)) \/ Stay, UNCHANGED net
  PROVE  MainRight /\ ActiveRight => ActiveRight'
<1> SUFFICES ASSUME MainRight, ActiveRight, active' # active
             PROVE  ActiveRight'
  BY DEF ActiveRight
<1>1. active' # "boot_screen" /\ (active' \notin MainScreens \/ active' = main_screen)
  BY TargetKeeps DEF Stay
<1>2. MainScreenFor(~ IsUp(net)) \in MainScreens /\ MainScreenFor(~ IsUp(net)) # main_screen
  BY DEF MainRight, MainScreenFor, MainScreens, IsUp
<1>3. QED
  BY <1>1, <1>2 DEF ActiveRight

(* A finger does not unsettle the display.                                    *)
LEMMA SettleFinger ==
  ASSUME ScreenInv, ProcInv, SettleInv, Finger
  PROVE  SettleInv'
<1>1. ASSUME NEW h, LoadTarget(Target(h, main_screen)) \/ Stay,
             UNCHANGED <<hidden, status, net, links, upd, inited, restarted, settled,
                         main_screen, reboot>>
      PROVE  SettleInv'
  BY <1>1, FingerKeeps, SameLabels, SettleFrame
<1>2. ASSUME NEW w, Press(w) PROVE SettleInv'
  BY <1>1, <1>2 DEF Press, main, env
<1>3. CASE TimePasses
  BY <1>1, <1>3 DEF TimePasses, Stay, main, env, hist
<1>4. CASE LongPress
  BY <1>1, <1>4 DEF LongPress, main, env, hist
<1>5. CASE Release
  BY <1>1, <1>5 DEF Release, main, env
<1>6. ASSUME NEW d, Swipe(d) PROVE SettleInv'
  BY <1>1, <1>6 DEF Swipe, main, env
<1>7. ASSUME NEW a \in Holds, Pressing(a) PROVE SettleInv'
  <2>1. /\ UNCHANGED <<net, upd, inited, restarted, settled, main_screen, active>>
    BY <1>7 DEF Pressing, env
  <2>2. LabelsRight => LabelsRight'
    BY <1>7, FireKeeps
  <2>3. FactsRight => FactsRight'
    <3>1. \A f \in Facts : (f \o "_container" \in hidden') = (f \o "_container" \in hidden)
      BY <1>7, FireKeeps
    <3>2. QED
      BY <3>1 DEF FactsRight
  <2>4. reboot'.pc \in {"check", "load"} => reboot' = reboot
    <3>1. reboot' = reboot \/ reboot' = [reboot EXCEPT !.pc = "asked"]
      BY <1>7, Zenon DEF Pressing, Fire, Requested, rpcToggleDHCPClient, RebootAsked
    <3>2. reboot \in Reboots
      BY DEF ProcInv
    <3>3. QED
      BY <3>1, <3>2 DEF Reboots
  <2>5. ActiveRight => ActiveRight'
    BY <2>1 DEF ActiveRight
  <2>6. QED
    BY <2>1, <2>2, <2>3, <2>4, <2>5, SettleFrame
<1>8. QED
  BY <1>2, <1>3, <1>4, <1>5, <1>6, <1>7 DEF Finger

LEMMA SettleReboot ==
  ASSUME SettleInv, ProcInv, RebootShows \/ RebootLooks \/ RebootReturns
  PROVE  SettleInv'
<1>1. /\ UNCHANGED <<hidden, status, net, links, upd, inited, restarted, settled, main_screen>>
  BY DEF RebootShows, RebootLooks, RebootReturns, native, env, hist
<1>2. reboot'.pc \in {"check", "load"} => reboot.pc \in {"check", "load"} /\ reboot'.up = reboot.up
  BY DEF RebootShows, RebootLooks, RebootReturns, ProcInv, Reboots
<1>3. CASE RebootShows
  <2>1. ActiveRight'
    BY <1>1, <1>3 DEF RebootShows, jetkvm_ui_load_screen, ActiveRight, MainScreenFor
  <2>2. QED
    BY <1>1, <1>2, <2>1, SameLabels, SettleFrame
<1>4. CASE RebootLooks
  <2>1. ActiveRight => ActiveRight'
    BY <1>1, <1>4 DEF RebootLooks, native, ActiveRight
  <2>2. QED
    BY <1>1, <1>2, <2>1, SameLabels, SettleFrame
<1>5. CASE RebootReturns
  <2>1. settled => reboot.up = IsUp(net)
    BY <1>5 DEF RebootReturns, SettleInv, SeenInv, Seen
  <2>2. active' = MainScreenFor(reboot.up)
    BY <1>5 DEF RebootReturns, jetkvm_ui_load_screen
  <2>3. settled => ActiveRight'
    BY <1>1, <2>1, <2>2 DEF ActiveRight, MainScreenFor, IsUp
  <2>4. QED
    BY <1>1, <1>2, <2>3, SameLabels, SettleFrame
<1>6. QED
  BY <1>3, <1>4, <1>5

(* An update starts: it is alone exactly if nothing stale can still act.        *)
LEMMA SettleStarts ==
  ASSUME SettleInv, ProcInv, NEW u \in Updaters, RequestStarts(u)
  PROVE  SettleInv'
<1> DEFINE free == (\A v \in Updaters : upd[v].pc = "idle")
                   /\ ~ restarted /\ reboot.pc \notin {"check", "load"}
<1>1. /\ inited /\ UNCHANGED <<hidden, status, net, links, inited, restarted, settled, main_screen,
                               active, reboot>>
  BY DEF RequestStarts, native, env, hist
<1>2. upd' = [NotAlone EXCEPT ![u] = [IdleUpdate EXCEPT !.pc = "labels", !.alone = free]]
  BY DEF RequestStarts
<1>3. free \in BOOLEAN
  BY Zenon
<1>4. NotAlone \in [Updaters -> Updates]
  BY UpdateTyped DEF ProcInv
<1>5. upd'[u].pc = "labels" /\ upd'[u].alone = free
  BY <1>2, <1>3, <1>4 DEF IdleUpdate
<1>6. \A v \in Updaters \ {u} : /\ upd'[v].pc = upd[v].pc /\ upd'[v].up = upd[v].up
                                /\ ~ upd'[v].alone
  BY <1>2, <1>4, UpdateTyped DEF ProcInv
<1>7. FactsInv'
  BY <1>1, SameLabels DEF SettleInv, FactsInv
<1>8. SeenInv'
  <2>1. CASE settled
    BY <2>1, <1>1, <1>5, <1>6 DEF SettleInv, SeenInv, Seen
  <2>2. CASE ~ settled
    <3>1. Seen' => free
      BY <2>2, <1>1, <1>5, <1>6 DEF Seen
    <3>2. QED
      BY <3>1, <1>1, <1>5, <1>6 DEF SeenInv
  <2>3. QED
    BY <2>1, <2>2
<1>9. AloneInv'
  BY <1>5, <1>6 DEF AloneInv
<1>10. SettledInv'
  BY <1>1, SameLabels DEF SettleInv, SettledInv, MainRight, ActiveRight
<1>11. QED
  BY <1>7, <1>8, <1>9, <1>10 DEF SettleInv

(* Writing the labels makes them right.                                       *)
LEMMA SettleLabels ==
  ASSUME SettleInv, ProcInv, NEW u \in Updaters, UpdateLabels(u)
  PROVE  SettleInv'
<1>1. LabelsRight' /\ \A f \in Facts : (f \o "_container" \in hidden') = (f \o "_container" \in hidden)
  BY LabelsWritten
<1>2. /\ upd' = [upd EXCEPT ![u].pc = "variable"]
      /\ UNCHANGED <<net, links, inited, restarted, settled, main_screen, active, reboot>>
  BY DEF UpdateLabels, env, hist
<1>3. /\ upd'[u].pc = "variable" /\ upd'[u].alone = upd[u].alone
      /\ \A v \in Updaters \ {u} : upd'[v] = upd[v]
  BY <1>2 DEF ProcInv, Updates
<1>4. FactsInv'
  BY <1>1, <1>2 DEF SettleInv, FactsInv, FactsRight
<1>5. Seen' => Seen
  BY <1>2, <1>3 DEF Seen
<1>6. SeenInv'
  BY <1>2, <1>3, <1>5 DEF SettleInv, SeenInv
<1>7. AloneInv'
  <2>1. MainRight' <=> MainRight
    BY <1>2 DEF MainRight
  <2>2. QED
    BY <1>1, <1>3, <2>1 DEF SettleInv, AloneInv
<1>8. SettledInv'
  BY <1>1, <1>2 DEF SettleInv, SettledInv, MainRight, ActiveRight
<1>9. QED
  BY <1>4, <1>6, <1>7, <1>8 DEF SettleInv

(* Reading the network and setting main_screen makes that one right.          *)
LEMMA SettleVariable ==
  ASSUME SettleInv, ProcInv, NEW u \in Updaters, UpdateVariable(u)
  PROVE  SettleInv'
<1>1. /\ upd' = [upd EXCEPT ![u] = [upd[u] EXCEPT !.pc = "look", !.up = IsUp(net)]]
      /\ UNCHANGED <<hidden, status, net, links, inited, restarted, settled, active, reboot>>
      /\ main_screen' = MainScreenFor(IsUp(net)) /\ upd[u].pc = "variable"
  BY DEF UpdateVariable, set_var_main_screen, env, hist
<1>2. MainRight'
  BY <1>1 DEF MainRight
<1>3. upd[u] \in Updates
  BY DEF ProcInv
<1>4. /\ upd'[u].pc = "look" /\ upd'[u].up = IsUp(net) /\ upd'[u].alone = upd[u].alone
      /\ \A v \in Updaters \ {u} : upd'[v] = upd[v]
  BY <1>1, <1>3 DEF ProcInv, Updates
<1>5. FactsInv'
  BY <1>1, SameLabels DEF SettleInv, FactsInv
<1>6. Seen' => Seen
  BY <1>1, <1>4 DEF Seen
<1>7. SeenInv'
  BY <1>1, <1>4, <1>6 DEF SettleInv, SeenInv
<1>8. AloneInv'
  BY <1>1, <1>2, <1>4, SameLabels DEF SettleInv, AloneInv
<1>9. SettledInv'
  BY <1>1, <1>2, SameLabels DEF SettleInv, SettledInv, ActiveRight
<1>10. QED
  BY <1>5, <1>7, <1>8, <1>9 DEF SettleInv

(* The end of an update: after it, the right screen is shown.                   *)
LEMMA SettleEnds ==
  ASSUME SettleInv, ProcInv, NEW u \in Updaters,
         upd[u].pc \in {"look", "load"},
         upd' = [upd EXCEPT ![u] = IdleUpdate],
         settled' = (settled \/ upd[u].alone),
         Seen => ActiveRight',
         UNCHANGED <<hidden, status, net, links, main_screen, inited, restarted, reboot>>
  PROVE  SettleInv'
<1>1. /\ upd'[u].pc = "idle" /\ upd'[u].alone = FALSE
      /\ \A v \in Updaters \ {u} : upd'[v] = upd[v]
  BY DEF ProcInv, IdleUpdate
<1>2. settled' => Seen
  BY DEF Seen
<1>3. Seen' => Seen
  BY <1>1, <1>2 DEF Seen
<1>4. MainRight' <=> MainRight
  BY DEF MainRight
<1>5. FactsInv'
  BY SameLabels DEF SettleInv, FactsInv
<1>6. SeenInv'
  BY <1>1, <1>3 DEF SettleInv, SeenInv
<1>7. AloneInv'
  BY <1>1, <1>4, SameLabels DEF SettleInv, AloneInv
<1>8. SettledInv'
  <2>1. settled' => LabelsRight /\ MainRight
    BY DEF SettleInv, SettledInv, AloneInv
  <2>2. QED
    BY <1>2, <1>4, <2>1, SameLabels DEF SettledInv
<1>9. QED
  BY <1>5, <1>6, <1>7, <1>8 DEF SettleInv

(* Looking at the shown screen: nothing to switch, or the switch is to come.  *)
LEMMA SettleLook ==
  ASSUME SettleInv, ProcInv, NEW u \in Updaters, UpdateLook(u)
  PROVE  SettleInv'
<1>1. UNCHANGED <<hidden, status, net, links, main_screen, active, inited, restarted, reboot>>
  BY DEF UpdateLook, native, env
<1>2. upd[u].pc = "look"
  BY DEF UpdateLook
<1>3. CASE active \in {MainScreenFor(~ upd[u].up), "boot_screen"}
  <2>1. upd' = [upd EXCEPT ![u].pc = "load"] /\ UNCHANGED settled
    BY <1>3 DEF UpdateLook
  <2>2. /\ upd'[u].pc = "load" /\ upd'[u].alone = upd[u].alone /\ upd'[u].up = upd[u].up
        /\ \A v \in Updaters \ {u} : upd'[v] = upd[v]
    BY <2>1 DEF ProcInv, Updates
  <2>3. Seen' => Seen
    BY <2>1, <2>2 DEF Seen
  <2>4. MainRight' <=> MainRight
    BY <1>1 DEF MainRight
  <2>5. FactsInv'
    BY <1>1, SameLabels DEF SettleInv, FactsInv
  <2>6. SeenInv'
    BY <1>1, <1>2, <2>2, <2>3 DEF SettleInv, SeenInv
  <2>7. AloneInv'
    BY <1>1, <1>2, <2>2, <2>4, SameLabels DEF SettleInv, AloneInv
  <2>8. SettledInv'
    BY <1>1, <2>1, <2>4, SameLabels DEF SettleInv, SettledInv, ActiveRight
  <2>9. QED
    BY <2>5, <2>6, <2>7, <2>8 DEF SettleInv
<1>4. CASE active \notin {MainScreenFor(~ upd[u].up), "boot_screen"}
  <2>1. upd' = [upd EXCEPT ![u] = IdleUpdate] /\ settled' = (settled \/ upd[u].alone)
    BY <1>4 DEF UpdateLook
  <2>2. Seen => upd[u].up = IsUp(net)
    BY <1>2 DEF SettleInv, SeenInv
  <2>3. Seen => ActiveRight'
    BY <1>1, <1>4, <2>2 DEF ActiveRight
  <2>4. QED
    BY <1>1, <1>2, <2>1, <2>3, SettleEnds
<1>5. QED
  BY <1>3, <1>4

(* The switch ends the update on the right screen.                            *)
LEMMA SettleLoad ==
  ASSUME SettleInv, ProcInv, NEW u \in Updaters, UpdateLoad(u)
  PROVE  SettleInv'
<1>1. /\ UNCHANGED <<hidden, status, net, links, main_screen, inited, restarted, reboot>>
      /\ upd[u].pc = "load" /\ upd' = [upd EXCEPT ![u] = IdleUpdate]
      /\ settled' = (settled \/ upd[u].alone)
      /\ active' = MainScreenFor(upd[u].up)
  BY DEF UpdateLoad, jetkvm_ui_load_screen, env
<1>2. Seen => upd[u].up = IsUp(net)
  BY <1>1 DEF SettleInv, SeenInv
<1>3. Seen => ActiveRight'
  BY <1>1, <1>2 DEF ActiveRight, MainScreenFor, IsUp
<1>4. QED
  BY <1>1, <1>3, SettleEnds

LEMMA SettleStep ==
  ASSUME ScreenInv, ProcInv, SettleInv, [Next]_vars_
  PROVE  SettleInv'
<1>1. CASE Finger
  BY <1>1, SettleFinger
<1>2. ASSUME UNCHANGED <<hidden, status, net, links, upd, inited, restarted, settled, main_screen,
                         active, reboot>>
      PROVE  SettleInv'
  <2>1. ActiveRight => ActiveRight'
    BY <1>2 DEF ActiveRight
  <2>2. QED
    BY <1>2, <2>1, SameLabels, SettleFrame
<1>3. CASE Tick \/ evdev_discovery_cb
  BY <1>3, <1>2 DEF Tick, evdev_discovery_cb, main, env, hist
<1>4. CASE Goroutines
  <2>1. CASE InitDisplay
    <3>1. ~ Seen'
      BY <2>1 DEF InitDisplay, SettleInv, SeenInv, Seen, hist
    <3>2. FactsInv'
      BY <2>1, StaticFacts DEF InitDisplay, FactsInv, FactsRight
    <3>3. QED
      BY <3>1, <3>2, Unseen
  <2>2. CASE RequestDropped
    BY <2>2, <1>2 DEF RequestDropped, native, env, hist
  <2>3. CASE configureDisplayOnNativeRestart
    <3>1. ~ Seen'
      BY <2>3 DEF configureDisplayOnNativeRestart, SettleInv, SeenInv, Seen, hist
    <3>2. FactsInv'
      BY <2>3, StaticFacts DEF configureDisplayOnNativeRestart, FactsInv, FactsRight
    <3>3. QED
      BY <3>1, <3>2, Unseen
  <2>4. CASE UpdateSteps
    BY <2>4, SettleStarts, SettleLabels, SettleVariable, SettleLook, SettleLoad DEF UpdateSteps
  <2>5. CASE RebootShows \/ RebootLooks \/ RebootReturns
    BY <2>5, SettleReboot
  <2>6. QED
    BY <1>4, <2>1, <2>2, <2>3, <2>4, <2>5 DEF Goroutines
<1>5. CASE RebootFails
  <2>1. /\ UNCHANGED <<hidden, status, net, links, inited, restarted, settled, main_screen, active>>
        /\ upd' = NotAlone /\ reboot'.up = IsUp(net)
    BY <1>5 DEF RebootFails, native, hist, ProcInv, Reboots
  <2>2. \A u \in Updaters : /\ upd'[u].pc = upd[u].pc /\ upd'[u].up = upd[u].up
                            /\ ~ upd'[u].alone
    BY <2>1, UpdateTyped DEF ProcInv
  <2>3. FactsInv'
    BY <2>1, SameLabels DEF SettleInv, FactsInv
  <2>4. SeenInv'
    BY <2>1, <2>2 DEF SettleInv, SeenInv, Seen
  <2>5. AloneInv'
    BY <2>2 DEF AloneInv
  <2>6. SettledInv'
    BY <2>1, SameLabels DEF SettleInv, SettledInv, MainRight, ActiveRight
  <2>7. QED
    BY <2>3, <2>4, <2>5, <2>6 DEF SettleInv
<1>6. CASE DeviceReboots
  <2>1. ~ Seen'
    BY <1>6 DEF DeviceReboots, Seen, IdleUpdate
  <2>2. FactsInv'
    BY <1>6 DEF DeviceReboots, FactsInv
  <2>3. QED
    BY <2>1, <2>2, Unseen
<1>7. CASE \E n \in Networks : NetworkChanges(n)
  <2>1. ~ Seen'
    BY <1>7, UpdateTyped DEF NetworkChanges, Seen, ProcInv
  <2>2. FactsInv'
    BY <1>7 DEF NetworkChanges, native, SettleInv, FactsInv, FactsRight
  <2>3. QED
    BY <2>1, <2>2, Unseen
<1>8. CASE \E w \in Links : LinkChanges(w)
  <2>1. ~ Seen'
    BY <1>8, UpdateTyped DEF LinkChanges, Seen, ProcInv
  <2>2. FactsInv'
    BY <1>8 DEF LinkChanges, native, SettleInv, FactsInv, FactsRight
  <2>3. QED
    BY <2>1, <2>2, Unseen
<1>9. CASE ChildDies
  <2>1. \A u \in Updaters : ~ upd'[u].alone
    BY <1>9, UpdateTyped DEF ChildDies, IdleUpdate, ProcInv
  <2>2. ~ Seen'
    BY <1>9, <2>1 DEF ChildDies, Seen
  <2>3. FactsInv'
    BY <1>9 DEF ChildDies, FactsInv
  <2>4. QED
    BY <2>2, <2>3, Unseen
<1>10. CASE \E r \in Rotations : SetRotation(r)
  BY <1>10, <1>2 DEF SetRotation, hist
<1>11. CASE UNCHANGED vars_
  BY <1>11, <1>2 DEF vars_, native, main, env, hist
<1>12. QED
  BY <1>1, <1>3, <1>4, <1>5, <1>6, <1>7, <1>8, <1>9, <1>10, <1>11 DEF Next

-----------------------------------------------------------------------------
(* The invariant holds at the start, every step keeps it, and it implies what   *)
(* the run checks.                                                             *)

(* The inductive invariant holds at the start.                                *)
LEMMA InitInvariant ==
  ASSUME Init
  PROVE  IInv
<1>1. ScreenInv
  BY ShownByName DEF Init, ScreenInv, MainScreens
<1>2. ProcInv
  BY DEF Init, ProcInv, IdleUpdate, Updates, UpdatePcs, Reboots, RebootPcs
<1>3. DataInv
  BY VersionsFit, AssumedSets DEF Init, DataInv, InitiallyHidden
<1>4. StatusInv
  BY DEF Init, StatusInv, NewStatus
<1>5. CountInv
  BY AssumedSets DEF Init, CountInv, Owed
<1>6. HoldInv
  <2>1. NoTouch \in Touches /\ NoTouch.wait = FALSE
    BY DEF NoTouch, Touches, Places, Spans, MaxHold
  <2>2. QED
    BY <2>1 DEF Init, HoldInv
<1>7. PanelInv
  <2>1. 270 \in Degrees
    BY DEF Degrees
  <2>2. QED
    BY <2>1, NewPanelTyped, RotationFits DEF Init, PanelInv
<1>8. SettleInv
  BY DEF Init, SettleInv, FactsInv, SeenInv, Seen, AloneInv, SettledInv, IdleUpdate
<1>9. QED
  BY <1>1, <1>2, <1>3, <1>4, <1>5, <1>6, <1>7, <1>8 DEF IInv

(* Every step keeps the inductive invariant.                                  *)
LEMMA NextInvariant ==
  ASSUME IInv, [Next]_vars_
  PROVE  IInv'
BY ScreenStep, ProcStep, DataStep, StatusStep, CountStep, HoldStep, PanelStep, SettleStep DEF IInv

(* The inductive invariant implies the types.                                 *)
LEMMA TypesFollow ==
  ASSUME IInv
  PROVE  TypeOK
<1>1. {active, currentScreen} \subseteq {Screens[i] : i \in DOMAIN Screens}
      /\ main_screen \in MainScreens
  BY DEF IInv, ScreenInv, Shown
<1>2. /\ hidden \subseteq DOMAIN objects
      /\ vars \in [app : 0..99, system : 0..99, lvgl : BOOLEAN]
      /\ text \in [app : [{"boot_screen", "about_screen"} -> 0..99], system : 0..99]
      /\ links \subseteq Links /\ net \in Networks
  BY DEF IInv, DataInv, Lengths, AppTexts
<1>3. status.connected \cup {p[1] : p \in status.states} \subseteq DOMAIN objects
  BY DEF IInv, StatusInv
<1>4. locks \subseteq Holds /\ touch.on \in DOMAIN objects \cup {None} /\ touch.since \in 0..MaxHold
  BY DEF IInv, HoldInv, Touches, Places, Spans
<1>5. panel.display \in {0, 90, 180, 270}
  BY DEF IInv, PanelInv, Panels, Turned
<1>6. /\ pending \in 0..(MaxChanges + 2 * MaxEvents + 2)
      /\ changes \in 0..MaxChanges /\ events \in 0..MaxEvents
  <2>1. Owed \in 0..2
    BY DEF Owed
  <2>2. QED
    BY <2>1, AssumedSets DEF IInv, CountInv
<1>7. QED
  BY <1>1, <1>2, <1>3, <1>4, <1>5, <1>6 DEF TypeOK

(* From every shown screen but the two that wait, a swipe leads out: to the     *)
(* menu, and from the menu to the main screen.                                 *)
LEMMA SwipeLeads ==
  ASSUME ScreenInv
  PROVE  NeverStuck
<1>1. ASSUME NEW h \in Handlers(active, "GESTURE"), Target(h, main_screen) \notin {None, active}
      PROVE  Target(h, main_screen) \in Exits
  BY <1>1 DEF Exits
<1>2. CASE active = "menu_screen"
  <2>1. "action_menu_screen_gesture" \in Handlers(active, "GESTURE")
    BY <1>2, SwipesLeave
  <2>2. Target("action_menu_screen_gesture", main_screen) = main_screen
    BY DEF Target, handle_gesture_main_screen_switch, ScreenInv
  <2>3. main_screen \notin {None, "menu_screen"}
    BY DEF ScreenInv, MainScreens, None
  <2>4. QED
    BY <1>1, <1>2, <2>1, <2>2, <2>3 DEF NeverStuck
<1>3. CASE active \notin {"boot_screen", "rebooting_screen", "menu_screen"}
  <2>1. PICK h \in Handlers(active, "GESTURE") : h \in DirectedGestures
    BY <1>3, SwipesLeave DEF ScreenInv, Shown
  <2>2. Target(h, main_screen) = "menu_screen"
    BY <2>1 DEF Target, DirectedGestures
  <2>3. QED
    BY <1>1, <1>3, <2>1, <2>2 DEF NeverStuck, None
<1>4. QED
  BY <1>2, <1>3 DEF NeverStuck

(* The invariant of the panel implies that the calibration follows it.        *)
LEMMA PictureFollows ==
  ASSUME PanelInv
  PROVE  CalibrationFollows
<1>1. DOMAIN panel.pads = PadNames
  <2>1. panel.pads \in PadSettings
    BY DEF PanelInv, Panels
  <2>2. QED
    BY <2>1 DEF PadSettings
<1>2. ASSUME panel.rotation \in {90, 270}
      PROVE  /\ panel.display = panel.rotation
             /\ \A s \in PadNames : panel.pads[s] = IF panel.display = 90 THEN <<24, 44>>
                                                    ELSE <<44, 24>>
  BY <1>2 DEF PanelInv, PanelFits
<1>3. ASSUME panel.rotation \in {90, 270}, panel.touchscreen
      PROVE  panel.shifted = (panel.display = 90)
  BY <1>2, <1>3 DEF PanelInv, PanelFits
<1>4. QED
  BY <1>1, <1>2, <1>3 DEF CalibrationFollows

-----------------------------------------------------------------------------
(* The theorems.                                                               *)

(* The inductive invariant holds in every reachable state.                     *)
THEOREM DisplayInvariant == Spec => []IInv
BY InitInvariant, NextInvariant, PTL DEF Spec

(* Every variable of the child and of the main process keeps its type; in        *)
(* particular requests for an update do not pile up beyond what asked for them.  *)
THEOREM TypeCorrect == Spec => []TypeOK
BY TypesFollow, DisplayInvariant, PTL

(* No page of the touch screen is a dead end.                                  *)
THEOREM AlwaysAWayOut == Spec => []NeverStuck
<1>1. IInv => NeverStuck
  BY SwipeLeads DEF IInv
<1>2. QED
  BY <1>1, DisplayInvariant, PTL

(* A held button sends its RPC at most once, never early, and its lock outlives  *)
(* the press only if a swipe kept the release away.                            *)
THEOREM HoldsFireOnce == Spec => []OncePerHold
<1>1. IInv => OncePerHold
  BY DEF IInv, HoldInv, OncePerHold
<1>2. QED
  BY <1>1, DisplayInvariant, PTL

(* Whatever goroutines of updateDisplay, touches, reboots and restarts of the     *)
(* child interleave, an update that ran alone leaves the display in the state     *)
(* of the device.                                                              *)
THEOREM UpdateSettles == Spec => []DisplaySettles
<1>1. IInv => DisplaySettles
  BY DEF IInv, SettleInv, SettledInv, SeenInv, Seen, FactsInv, FactsRight, LabelsRight, MainRight,
         ActiveRight, DisplaySettles
<1>2. QED
  BY <1>1, DisplayInvariant, PTL

(* In every order of discovery, settings of the rotation and restarts of the     *)
(* child, calibration, picture and padding are those of the current rotation.   *)
THEOREM CalibrationAlwaysFollows == Spec => []CalibrationFollows
<1>1. IInv => CalibrationFollows
  BY PictureFollows DEF IInv
<1>2. QED
  BY <1>1, DisplayInvariant, PTL
=============================================================================
