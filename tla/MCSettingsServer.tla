-------------------------- MODULE MCSettingsServer --------------------------
EXTENDS SettingsServer

(* The keys that the code treats differently, and one for the others. *)
MCKeys == <<"ip-address", "wireless-SSID", "logging-method">>
=============================================================================
