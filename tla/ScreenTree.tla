----------------------------- MODULE ScreenTree -----------------------------
(* The screens of the device's own display, as the generated code in         *)
(* eez/src/ui builds them: for every widget the widget it sits on, its class, *)
(* its style, whether a finger can hit it, whether it starts hidden and which *)
(* handlers it calls on which event.  Positions, sizes, fonts, colours and    *)
(* fixed texts are left out.  A widget the code keeps a name for has that     *)
(* name; the others are named after the widget they belong to.               *)
EXTENDS Naturals, Sequences, TLC

None == "none"

Widget(class, parent, style) ==
  [class |-> class, parent |-> parent, style |-> style, hidden |-> FALSE,
   clickable |-> class \in {"obj", "button"}, on |-> {}]

Obj(parent, style)    == Widget("obj", parent, style)
Button(parent, style) == Widget("button", parent, style)
Label(parent, style)  == Widget("label", parent, style)
Image(parent)         == Widget("image", parent, None)
Spinner(parent)       == Widget("spinner", parent, None)

NotClickable(w)        == [w EXCEPT !.clickable = FALSE]
Hidden(w)              == [w EXCEPT !.hidden = TRUE]
On(w, codes, handler) == [w EXCEPT !.on = @ \cup (codes \X {handler})]
-----------------------------------------------------------------------------
(* Screens without a menu frame.                                             *)

boot_screen ==
  ("boot_screen" :> Obj(None, "flex_column_space_between")) @@
  ("boot_screen.body" :> Obj("boot_screen", "flex_start")) @@
  ("boot_screen.centre" :> Obj("boot_screen.body", "flex_center")) @@
  ("boot_logo" :> Image("boot_screen.centre")) @@
  ("boot_screen_version" :> Label("boot_screen.centre", "label_font16"))

rebooting_screen ==
  ("rebooting_screen" :> Obj(None, "flex_column_space_between")) @@
  ("rebooting_screen.body" :> Obj("rebooting_screen", "flex_start")) @@
  ("rebooting_screen.centre" :> Obj("rebooting_screen.body", "flex_center")) @@
  ("reboot_in_progress_logo" :> Image("rebooting_screen.centre")) @@
  ("reboot_in_progress_label" :> Label("rebooting_screen.centre", "label_font16"))

(* The two main screens open the menu on a long press and on a swipe; all    *)
(* that lies on them lets the finger through to the screen.                  *)
MainScreen(s) ==
  (s :> On(On(Obj(None, "flex_screen"), {"LONG_PRESSED"}, "action_switch_to_menu"),
           {"GESTURE"}, "action_home_screen_gesture")) @@
  (s \o ".body" :> NotClickable(Obj(s, "flex_start")))

no_network_screen ==
  MainScreen("no_network_screen") @@
  ("no_network_header_container" :>
     NotClickable(Obj("no_network_screen.body", "flow_row_space_between"))) @@
  ("no_network_header_logo" :> Image("no_network_header_container")) @@
  ("no_network_content_container" :>
     NotClickable(Obj("no_network_screen.body", "flex_column_start"))) @@
  ("no_network_content_container.icon" :> Image("no_network_content_container")) @@
  ("no_network_title" :> Label("no_network_content_container", "label_font_bold30")) @@
  ("home_info_ipv6_addr_1" :> Label("no_network_content_container", "label_font16"))

home_screen ==
  MainScreen("home_screen") @@
  ("home_header_container" :>
     NotClickable(Obj("home_screen.body", "flow_row_space_between"))) @@
  ("home_header_logo" :> Image("home_header_container")) @@
  ("home_header_container.cloud" :>
     NotClickable(Obj("home_header_container", "flow_row_start_center"))) @@
  ("cloud_status_icon" :> Image("home_header_container.cloud")) @@
  ("cloud_status_label" :> Label("home_header_container.cloud", "label_font16"))

home_info_container ==
  ("home_info_container" :> NotClickable(Obj("home_screen.body", "flex_column_start"))) @@
  ("home_info_ipv4_addr" :> Label("home_info_container", "label_font_bold30")) @@
  ("home_info_ipv6_addr" :> Hidden(Label("home_info_container", "label_font16"))) @@
  ("home_info_mac_addr" :> Label("home_info_container", "label_font16")) @@
  ("divider" :> NotClickable(Obj("home_screen.body", "flex_column_start")))

(* One status column: an indicator with icon and caption, and the state below. *)
Indicator(port) ==
  (port \o "_status" :> NotClickable(Obj("home_status_container", "flex_column_start"))) @@
  (port \o "_indicator" :> NotClickable(Obj(port \o "_status", "flow_row_start_center"))) @@
  (port \o "_indicator.icon" :> Image(port \o "_indicator")) @@
  (port \o "_indicator.caption" :> Label(port \o "_indicator", "label_font16")) @@
  (port \o "_status_label" :> Label(port \o "_status", "label_font16"))

home_status_container ==
  ("home_status_container" :>
     NotClickable(Obj("home_screen.body", "flow_row_start_center"))) @@
  Indicator("usb") @@ Indicator("hdmi")
-----------------------------------------------------------------------------
(* Screens of the menu: a header with a back button and a title over a list. *)

MenuFrame(s, header, items, gesture, backEvent, back) ==
  (s :> On(Obj(None, "flex_screen_menu"), {"GESTURE"}, gesture)) @@
  (s \o ".body" :> Obj(s, "flex_start")) @@
  (header :> Obj(s \o ".body", "flow_row_space_between")) @@
  (s \o ".back" :> On(Button(header, "back_button"), {backEvent}, back)) @@
  (s \o ".caret" :> Image(s \o ".back")) @@
  (s \o ".title" :> Label(header, "header_link")) @@
  (items :> Obj(s \o ".body", "flex_column_start")) @@
  (s \o ".list" :> Obj(items, "flex_column_start"))

MenuItem(s, name, codes, handler) ==
  (name :> On(Button(s \o ".list", "menu_button"), codes, handler)) @@
  (name \o ".label" :> Label(name, "menu_button_label"))

menu_screen ==
  MenuFrame("menu_screen", "menu_header_container", "menu_items_container",
            "action_menu_screen_gesture", "PRESSED", "action_menu_screen_gesture")

menu_items ==
  MenuItem("menu_screen", "menu_btn_status", {"CLICKED"}, "action_switch_to_status") @@
  MenuItem("menu_screen", "menu_btn_network", {}, None) @@
  MenuItem("menu_screen", "menu_btn_access", {}, None) @@
  MenuItem("menu_screen", "menu_btn_advanced", {"CLICKED"}, "action_switch_to_advanced_menu") @@
  MenuItem("menu_screen", "menu_btn_about", {"CLICKED"}, "action_switch_to_about")

menu_advanced_screen ==
  MenuFrame("menu_advanced_screen", "menu_header_container_1", "menu_items_container_1",
            "action_menu_advanced_screen_gesture", "CLICKED", "action_switch_to_menu")

HiddenItem(s, name, codes, handler) ==
  LET item == MenuItem(s, name, codes, handler)
  IN  [item EXCEPT ![name] = Hidden(@)]

menu_advanced_items ==
  LET s == "menu_advanced_screen" IN
  HiddenItem(s, "menu_btn_advanced_developer_mode", {"PRESSED"}, "action_reset_config") @@
  HiddenItem(s, "menu_btn_advanced_usb_emulation", {}, None) @@
  MenuItem(s, "menu_btn_advanced_reboot", {"PRESSED"}, "action_switch_to_reboot") @@
  MenuItem(s, "menu_btn_dhcp_client", {"PRESSED"}, "action_switch_to_dhcpc") @@
  MenuItem(s, "menu_btn_advanced_reset_config", {"PRESSED"}, "action_switch_to_reset_config")

menu_network_screen ==
  MenuFrame("menu_network_screen", "menu_header_container_2", "menu_items_container_2",
            "action_menu_advanced_screen_gesture", "CLICKED", "action_switch_to_menu")

menu_network_items ==
  MenuItem("menu_network_screen", "menu_btn_network_ipv4", {}, None) @@
  MenuItem("menu_network_screen", "menu_btn_network_ipv6", {}, None) @@
  MenuItem("menu_network_screen", "menu_btn_network_lldp", {}, None)
-----------------------------------------------------------------------------
(* Pages of facts: every fact is a headline and a content label in a         *)
(* container of its own.                                                     *)

Fact(s, container, name) ==
  (container :> Obj(s \o ".list", "flex_column_start")) @@
  (container \o ".headline" :> Label(container, "info_headline_label")) @@
  (name :> Label(container, "info_content_label"))

about_screen ==
  MenuFrame("about_screen", "about_header_container", "about_items_container",
            "action_about_screen_gesture", "CLICKED", "action_switch_to_menu")

about_application ==
  Fact("about_screen", "system_version_container", "system_version") @@
  Fact("about_screen", "app_version_container", "app_version") @@
  Fact("about_screen", "build_branch_container", "build_branch") @@
  Fact("about_screen", "build_date_container", "build_date")

about_platform ==
  Fact("about_screen", "golang_version_container", "golang_version") @@
  Fact("about_screen", "lvgl_version_container", "lvgl_version") @@
  Fact("about_screen", "kernel_version_container", "kernel_version") @@
  Fact("about_screen", "cpu_serial_container", "cpu_serial")

status_screen ==
  MenuFrame("status_screen", "status_header_container", "status_items_container",
            "action_about_screen_gesture", "CLICKED", "action_switch_to_menu")

status_items ==
  LET account == Fact("status_screen", "cloud_account_id_container", "app_version_1") IN
  Fact("status_screen", "device_id_container", "device_id") @@
  [account EXCEPT !["cloud_account_id_container"] = Hidden(@)] @@
  Fact("status_screen", "cloud_domain_container", "cloud_domain")
-----------------------------------------------------------------------------
(* Screens with a button that has to be held: an explanation, on two of them  *)
(* a spinner that starts hidden, and the button.                             *)

HoldLabel(s, container, label) ==
  (container :> Obj(s \o ".list", "flex_column_start")) @@
  (label :> Label(container, "info_content_label"))

HoldSpinner(s, container) ==
  (container :> Hidden(NotClickable(Obj(s \o ".list", "flex_column_start")))) @@
  (container \o ".wheel" :> Spinner(container))

HoldButton(s, container, button, label, handler) ==
  (container :> Obj(s \o ".list", "flex_column_start")) @@
  (button :> On(Button(container, None), {"PRESSED", "PRESSING", "RELEASED"}, handler)) @@
  (label :> Label(button, None))

reset_config_screen ==
  MenuFrame("reset_config_screen", "reset_config_header", "reset_config_container",
            "action_about_screen_gesture", "CLICKED", "action_switch_to_menu")

reset_config_controls ==
  HoldLabel("reset_config_screen", "reset_config_label_container", "reset_config_label") @@
  HoldSpinner("reset_config_screen", "reset_config_spinner") @@
  HoldButton("reset_config_screen", "reset_config_button", "obj0", "obj0.label",
             "action_reset_config")

reboot_screen ==
  MenuFrame("reboot_screen", "reboot_header", "reboot_container",
            "action_about_screen_gesture", "CLICKED", "action_switch_to_menu")

reboot_controls ==
  HoldLabel("reboot_screen", "reboot_label_container", "reboot_label") @@
  HoldButton("reboot_screen", "reboot_config_button", "obj1", "obj1.label", "action_reboot")

switch_dhcp_client_screen ==
  MenuFrame("switch_dhcp_client_screen", "dhcp_client_header", "dhcp_client_container",
            "action_about_screen_gesture", "CLICKED", "action_switch_to_menu")

dhcp_client_controls ==
  HoldLabel("switch_dhcp_client_screen", "dhcp_client_label_container", "dhcpc_label") @@
  HoldSpinner("switch_dhcp_client_screen", "dhcp_client_spinner") @@
  HoldButton("switch_dhcp_client_screen", "dhcp_client_button", "obj2",
             "dhcp_client_change_label", "action_dhcpc")
-----------------------------------------------------------------------------
(* All screens, in the order in which create_screens builds them and in which *)
(* ScreensEnum numbers them.                                                 *)
Screens ==
  <<"boot_screen", "no_network_screen", "home_screen", "menu_screen",
    "menu_advanced_screen", "menu_network_screen", "about_screen", "status_screen",
    "reset_config_screen", "reboot_screen", "rebooting_screen",
    "switch_dhcp_client_screen">>

create_screens ==
  boot_screen @@ no_network_screen @@
  home_screen @@ home_info_container @@ home_status_container @@
  menu_screen @@ menu_items @@
  menu_advanced_screen @@ menu_advanced_items @@
  menu_network_screen @@ menu_network_items @@
  about_screen @@ about_application @@ about_platform @@
  status_screen @@ status_items @@
  reset_config_screen @@ reset_config_controls @@
  reboot_screen @@ reboot_controls @@
  rebooting_screen @@
  switch_dhcp_client_screen @@ dhcp_client_controls

objects == create_screens

(* The widgets a widget sits on, itself included, up to its screen.          *)
PathTo[w \in DOMAIN objects] ==
  IF objects[w].parent = None THEN {w} ELSE {w} \cup PathTo[objects[w].parent]

Path == PathTo @@ (None :> {})

ScreenOf(w) == CHOOSE s \in Path[w] : objects[s].parent = None

InitiallyHidden == {w \in DOMAIN objects : objects[w].hidden}

(* What widget w does on an event.                                           *)
Handlers(w, event) == {h \in {p[2] : p \in objects[w].on} : <<event, h>> \in objects[w].on}
-----------------------------------------------------------------------------
(* The styles, each made on first use from the style it is based on.  Only   *)
(* the left and right padding is kept: it is what a rotation rewrites.       *)
(* A style that sets no padding of its own has that of its base, or none.    *)

Style(base)               == [base |-> base, pads |-> <<>>]
PaddedStyle(base, l, r)   == [base |-> base, pads |-> <<l, r>>]

LayoutStyles ==
  [flex_column_space_between |-> Style(None),
   flex_center               |-> Style(None),
   flex_start                |-> Style("flex_center"),
   flow_row_space_between    |-> Style("flex_center")]

FlowStyles ==
  [flow_row_start_center |-> Style("flow_row_space_between"),
   flex_column_start     |-> Style("flow_row_space_between")]

ScreenStyles ==
  [flex_screen      |-> PaddedStyle(None, 44, 24),
   flex_screen_menu |-> Style("flex_screen")]

LabelStyles ==
  [label_font16      |-> Style(None),
   label_font_bold30 |-> Style("label_font16"),
   header_link       |-> Style("label_font16")]

ButtonStyles ==
  [menu_button       |-> PaddedStyle(None, 16, 0),
   menu_button_label |-> Style(None)]

InfoStyles ==
  [info_headline_label |-> Style(None),
   info_content_label  |-> Style(None),
   back_button         |-> Style(None)]

ui_styles ==
  LayoutStyles @@ FlowStyles @@ ScreenStyles @@ LabelStyles @@ ButtonStyles @@ InfoStyles

(* The padding of a style at the moment it is made: init_style_* of the base  *)
(* runs first, then the style's own settings.                                *)
InitialPads[s \in DOMAIN ui_styles] ==
  IF ui_styles[s].pads # <<>> THEN ui_styles[s].pads
  ELSE IF ui_styles[s].base # None THEN InitialPads[ui_styles[s].base] ELSE <<>>

(* Every widget takes its style from the table and sits on a widget of it.   *)
ASSUME TreeIsClosed ==
  \A w \in DOMAIN objects :
     /\ objects[w].style \in DOMAIN ui_styles \cup {None}
     /\ objects[w].parent \in DOMAIN objects \cup {None}

(* A widget has at most one handler for an event.                            *)
ASSUME OneHandlerEach ==
  \A w \in DOMAIN objects :
    \A p, q \in objects[w].on : p[1] = q[1] => p[2] = q[2]

(* The two styles whose padding follows the rotation are in the table.        *)
ASSUME PaddedStyles == {"flex_screen", "flex_screen_menu"} \subseteq DOMAIN ui_styles
=============================================================================
