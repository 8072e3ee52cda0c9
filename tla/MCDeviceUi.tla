----------------------------- MODULE MCDeviceUi -----------------------------
(* Two concurrent updates, the two supported rotations and one the display     *)
(* does not know, a build without a branch name and a version string that is   *)
(* longer than the buffer of the LVGL version.                                 *)
EXTENDS DeviceUi

(* A finger on a widget without a handler does what a finger on its screen      *)
(* does, the items of a menu differ in the screen they open only, and the two   *)
(* shorter holds in their button only: one of each kind is enough.             *)
MCFingered ==
  {"home_screen", "no_network_screen", "menu_btn_about", "about_screen",
   "menu_btn_advanced", "menu_btn_advanced_reset_config", "reset_config_screen",
   "obj0"}

MCNetworks == {"down", "ipv6"}
MCLinks == {"usb_status_label"}
MCRotations == {90, 45}
MCBlankFacts == {"build_branch"}
=============================================================================
