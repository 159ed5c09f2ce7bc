----------------------------- MODULE MCXmbSettings -----------------------------
(* Two settings files: a new one, and one in which everything is set. *)
EXTENDS XmbSettings

Set == [f \in Settings |->
          CASE f \in {"vshcpuspeed", "gamecpuspeed"} -> 333
            [] f \in {"vshbusspeed", "gamebusspeed"} -> 166
            [] f = "usbdevice" -> 5
            [] f = "fakeregion" -> 13
            [] OTHER -> 1]

MCConfigs == {[f \in Settings |-> 0], Set}
===============================================================================
