----------------------------- MODULE MCPanelLed -----------------------------
(* Instance of PanelLed for TLC: a reading on each side of the threshold,  *)
(* of which three high ones among six bring the average to 100 and two     *)
(* only to a fraction above 99.  Each of the two status LEDs is found dark *)
(* without a trigger, blinking at another pace, or lit by the kernel's.    *)
EXTENDS PanelLed

MCTemps  == {99, 101}
MCValues == {"0", "1", "500"}

Files(trigger, value) ==
  [trigger |-> trigger, brightness |-> value, delay_on |-> value, delay_off |-> value]

MCFiles == {Files("none", "0"), Files("timer", "1"), Files("other", "1")}
MCFound == {f \in [Leds -> MCFiles] : f["CHARGER"] = Files("none", "0")}

=============================================================================
