------------------------------ MODULE PanelLed ------------------------------
(***************************************************************************)
(* The panel LED daemon (panel_led/panel_led.c): the command line is       *)
(* parsed once, then a loop polls the CPU temperature twice a second       *)
(* through a moving-average filter, derives the system status from it and  *)
(* writes the LED files of sysfs when the status has changed.              *)
(*                                                                         *)
(* A pass of the loop that changes the status queues the sysfs calls of    *)
(* its switch branch in `todo'; every write of a call is a step of its     *)
(* own, because each of them opens its file and may fail.  usleep() is the *)
(* stuttering between two passes.                                          *)
(***************************************************************************)
EXTENDS Integers, Sequences

CONSTANTS
  Temps,       \* readings of thermal_zone0/temp, in whole degrees Celsius
  Values,      \* brightness values and delays a DEBUG command line may carry
  Found        \* what sysfs may hold for the LEDs when the program is started

SYSTEM_OVER_TEMPERATURE == 99
MAX_SLEEK_FILTER_COUNT  == 6

Leds     == {"GREEN", "RED", "CHARGER"}
Statuses == {"SYSTEM_START", "OVER_TEMPERATURE", "NORMAL_OPERATION",
             "BACKLINGHT_OFF", "DEBUG"}
Modes    == {"SOLID", "BLINK"}
Unset    == "255"               \* the initial last_mode and last_sys_status
Triggers == {"none", "timer", "other"}

(* The files of a LED; the two of the delays exist under "timer" only.     *)
LedFiles == [trigger : Triggers, brightness : Values,
             delay_on : Values, delay_off : Values]

ASSUME TempsAssumption  == Temps \subseteq Nat
ASSUME ValuesAssumption == {"0", "1", "500"} \subseteq Values
ASSUME FoundAssumption  == Found \subseteq [Leds -> LedFiles]

VARIABLES
  pc,           \* "parse" (before the loop), "loop", "exited"
  noArgs,       \* argc < 2: only then is the status detected
  led_info,     \* the record of the same name
  i,            \* next slot of the filter, MAX_SLEEK_FILTER_COUNT: skip one
  temp_value,   \* the samples the filter averages
  todo,         \* sysfs calls of the current pass, each a sequence of writes
  leds,         \* what sysfs holds for every LED
  failed,       \* history: LEDs some write of the last status change to failed
  inherited,    \* history: LEDs with a trigger found at the start and not ended
  streak        \* history: samples in a row on one side of the threshold

vars == <<pc, noArgs, led_info, i, temp_value, todo, leds, failed,
          inherited, streak>>

Slots   == 0 .. MAX_SLEEK_FILTER_COUNT - 1
Hot(t)  == t > SYSTEM_OVER_TEMPERATURE

(* One write of device_file_node_write_string.                             *)
WriteTo(led, file, value) == [led |-> led, file |-> file, value |-> value]

set_led_brightness(led, value) == << WriteTo(led, "brightness", value) >>

set_led_blinking(led, on, off) ==
  << WriteTo(led, "trigger", "timer"),
     WriteTo(led, "delay_on", on), WriteTo(led, "delay_off", off) >>

(* As Display, but OVER_TEMPERATURE leaves the green LED alone.            *)
Display_GreenLeftOn(status) ==
  CASE status = "SYSTEM_START"     -> << set_led_brightness("GREEN", "1"),
                                         set_led_brightness("RED", "1") >>
    [] status = "NORMAL_OPERATION" -> << set_led_brightness("GREEN", "1"),
                                         set_led_brightness("RED", "0") >>
    [] status = "OVER_TEMPERATURE" -> << set_led_blinking("RED", "500", "500") >>
    [] status = "BACKLINGHT_OFF"   -> << set_led_blinking("GREEN", "500", "500"),
                                         set_led_brightness("RED", "0") >>

(* The calls of the switch branch of a status, DEBUG apart.                *)
Display(status) ==
  CASE status = "SYSTEM_START"     -> << set_led_brightness("GREEN", "1"),
                                         set_led_brightness("RED", "1") >>
    [] status = "NORMAL_OPERATION" -> << set_led_brightness("GREEN", "1"),
                                         set_led_brightness("RED", "0") >>
    [] status = "OVER_TEMPERATURE" -> << set_led_brightness("GREEN", "0"),
                                         set_led_blinking("RED", "500", "500") >>
    [] status = "BACKLINGHT_OFF"   -> << set_led_blinking("GREEN", "500", "500"),
                                         set_led_brightness("RED", "0") >>

(* The DEBUG branch: one LED, as the command line says.                    *)
DebugDisplay(info) ==
  IF info.mode = "SOLID"
  THEN << set_led_brightness(info.number, info.brightness) >>
  ELSE << set_led_blinking(info.number, info.delay_on, info.delay_off) >>

(* The LED class of the kernel: brightness "0" also ends the timer trigger,*)
(* which is how the daemon stops a blinking LED.                           *)
SysfsWrite(state, w) ==
  [state EXCEPT ![w.led] =
     IF w.file = "brightness" /\ w.value = "0"
     THEN [@ EXCEPT !.brightness = "0", !.trigger = "none"]
     ELSE [@ EXCEPT ![w.file] = w.value]]

LED_INFO ==
  [mode : Modes, last_mode : Modes \cup {Unset}, number : Leds,
   sys_status : Statuses, last_sys_status : Statuses \cup {Unset},
   brightness : Values, delay_on : Values, delay_off : Values]

DefaultInfo ==
  [mode |-> "SOLID", last_mode |-> Unset, number |-> "GREEN",
   sys_status |-> "NORMAL_OPERATION", last_sys_status |-> Unset,
   brightness |-> "1", delay_on |-> "500", delay_off |-> "500"]

(* sysfs outlives the process: a LED has the kernel's default trigger, or  *)
(* what an earlier run of the program has left, such as a blinking one.    *)
Init ==
  /\ pc = "parse"
  /\ noArgs = TRUE
  /\ led_info = DefaultInfo
  /\ i = 0
  /\ temp_value = [s \in Slots |-> 0]
  /\ todo = << >>
  /\ leds \in Found
  /\ failed = {}
  /\ inherited = {l \in Leds : leds[l].trigger # "none"}
  /\ streak = [hot |-> 0, cool |-> 0]

-----------------------------------------------------------------------------
(* What the command line sets.  The status words leave the LED fields as   *)
(* they are; any other first word means DEBUG and must name an LED.        *)
StatusArgument ==
  {[DefaultInfo EXCEPT !.sys_status = s] : s \in Statuses \ {"DEBUG"}}

LedArgument ==
  {[DefaultInfo EXCEPT !.sys_status = "DEBUG", !.number = l] : l \in Leds}

(* argc = 4 is "bright <value>", argc = 5 is "blink <on> <off>"; they are  *)
(* parsed whatever the first word was.                                     *)
TakePattern(info) ==
  \/ led_info' = info
  \/ \E v \in Values : led_info' = [info EXCEPT !.mode = "SOLID", !.brightness = v]
  \/ \E v \in Values, w \in Values :
       led_info' = [info EXCEPT !.mode = "BLINK", !.delay_on = v, !.delay_off = w]

ParseNothing ==
  /\ pc = "parse"
  /\ pc' = "loop"
  /\ UNCHANGED <<noArgs, led_info, i, temp_value, todo, leds, failed, inherited, streak>>

ParseArguments ==
  /\ pc = "parse"
  /\ pc' = "loop"
  /\ noArgs' = FALSE
  /\ \E info \in StatusArgument \cup LedArgument : TakePattern(info)
  /\ UNCHANGED <<i, temp_value, todo, leds, failed, inherited, streak>>

(* An unknown LED, an unknown verb or a value out of range: usage and exit.*)
ParseError ==
  /\ pc = "parse"
  /\ pc' = "exited"
  /\ noArgs' = FALSE
  /\ UNCHANGED <<led_info, i, temp_value, todo, leds, failed, inherited, streak>>

-----------------------------------------------------------------------------
(* sleek_filter: six samples fill the slots, the next one is dropped.      *)
FilterIndex_NoWrap == i + 1             \* forgets the end of the buffer
FilterIndex_Stuck  ==                   \* never starts the buffer again
  IF i < MAX_SLEEK_FILTER_COUNT THEN i + 1 ELSE i

FilterIndex  == IF i < MAX_SLEEK_FILTER_COUNT THEN i + 1 ELSE 0
FilterSamples(raw) ==
  IF i < MAX_SLEEK_FILTER_COUNT THEN [temp_value EXCEPT ![i] = raw] ELSE temp_value

Average(samples) ==
  (samples[0] + samples[1] + samples[2] + samples[3] + samples[4] + samples[5])
    \div MAX_SLEEK_FILTER_COUNT

Capped(n) == IF n > MAX_SLEEK_FILTER_COUNT THEN n ELSE n + 1

CountStreak(raw) ==
  IF Hot(raw) THEN [hot |-> Capped(streak.hot), cool |-> 0]
              ELSE [hot |-> 0, cool |-> Capped(streak.cool)]

(* The rest of the pass once the status is known: the switch.  last_* is   *)
(* assigned before the LEDs are written and the results are not looked at. *)
Switch(info) ==
  IF info.sys_status = "DEBUG"
  THEN IF info.last_mode # info.mode
       THEN /\ led_info' = [info EXCEPT !.last_mode = info.mode]
            /\ todo' = DebugDisplay(info)
            /\ failed' = {}
       ELSE /\ led_info' = info
            /\ UNCHANGED <<todo, failed>>
  ELSE IF info.last_sys_status # info.sys_status
       THEN /\ led_info' = [info EXCEPT !.last_sys_status = info.sys_status]
            /\ todo' = Display(info.sys_status)
            /\ failed' = {}
       ELSE /\ led_info' = info
            /\ UNCHANGED <<todo, failed>>

Detecting == noArgs /\ led_info.sys_status \notin {"DEBUG", "SYSTEM_START"}

PollSample(raw) ==
  /\ pc = "loop" /\ todo = << >> /\ Detecting
  /\ i' = FilterIndex
  /\ temp_value' = FilterSamples(raw)
  /\ streak' = CountStreak(raw)
  /\ Switch([led_info EXCEPT !.sys_status =
               IF Average(FilterSamples(raw)) > SYSTEM_OVER_TEMPERATURE
               THEN "OVER_TEMPERATURE" ELSE "NORMAL_OPERATION"])
  /\ UNCHANGED <<pc, noArgs, leds, inherited>>

(* The thermal zone cannot be opened: -1 is returned, which is no          *)
(* over-temperature, and the filter is not fed.                            *)
PollNoSensor ==
  /\ pc = "loop" /\ todo = << >> /\ Detecting
  /\ streak' = [hot |-> 0, cool |-> 0]
  /\ Switch([led_info EXCEPT !.sys_status = "NORMAL_OPERATION"])
  /\ UNCHANGED <<pc, noArgs, i, temp_value, leds, inherited>>

PollFixed ==
  /\ pc = "loop" /\ todo = << >> /\ ~Detecting
  /\ Switch(led_info)
  /\ UNCHANGED <<pc, noArgs, i, temp_value, leds, inherited, streak>>

-----------------------------------------------------------------------------
DropCall  == todo' = Tail(todo)
NextWrite == IF Len(Head(todo)) = 1 THEN DropCall
             ELSE todo' = << Tail(Head(todo)) >> \o Tail(todo)

NextFile == Head(Head(todo))

(* The kernel makes the delay files of a LED when "timer" is its trigger.  *)
FileExists(w) == w.file \in {"delay_on", "delay_off"} => leds[w.led].trigger = "timer"

EndsTrigger(w) == w.file = "trigger" \/ (w.file = "brightness" /\ w.value = "0")

WriteLed ==
  /\ todo # << >>
  /\ FileExists(NextFile)
  /\ leds' = SysfsWrite(leds, NextFile)
  /\ inherited' = IF EndsTrigger(NextFile) THEN inherited \ {NextFile.led} ELSE inherited
  /\ NextWrite
  /\ UNCHANGED <<pc, noArgs, led_info, i, temp_value, failed, streak>>

(* write() fails: nobody looks at its result, and the call goes on with    *)
(* its next file.                                                          *)
WriteLedFails ==
  /\ todo # << >>
  /\ FileExists(NextFile)
  /\ NextWrite
  /\ failed' = failed \cup {NextFile.led}
  /\ UNCHANGED <<pc, noArgs, led_info, i, temp_value, leds, inherited, streak>>

(* open() fails: the call returns -1, the remaining calls are still made.  *)
OpenLedFails ==
  /\ todo # << >>
  /\ DropCall
  /\ failed' = failed \cup {NextFile.led}
  /\ UNCHANGED <<pc, noArgs, led_info, i, temp_value, leds, inherited, streak>>

Next ==
  \/ ParseNothing \/ ParseArguments \/ ParseError
  \/ \E raw \in Temps : PollSample(raw)
  \/ PollNoSensor \/ PollFixed
  \/ WriteLed \/ WriteLedFails \/ OpenLedFails

(* The loop has no exit, so it keeps making passes and finishing writes.   *)
Fairness == WF_vars(\E raw \in Temps : PollSample(raw)) /\ WF_vars(PollFixed)
            /\ WF_vars(WriteLed \/ WriteLedFails \/ OpenLedFails)

Spec == Init /\ [][Next]_vars /\ Fairness

-----------------------------------------------------------------------------
(* A sysfs call, whole or with its first writes done.                      *)
IsCall(c) ==
  \E l \in Leds, v \in Values, w \in Values :
    c \in {set_led_brightness(l, v), set_led_blinking(l, v, w),
          Tail(set_led_blinking(l, v, w)), Tail(Tail(set_led_blinking(l, v, w)))}

TypeOK ==
  /\ pc \in {"parse", "loop", "exited"}
  /\ noArgs \in BOOLEAN
  /\ led_info \in LED_INFO
  /\ i \in 0 .. MAX_SLEEK_FILTER_COUNT
  /\ temp_value \in [Slots -> Temps \cup {0}]
  /\ Len(todo) <= 2 /\ \A k \in DOMAIN todo : IsCall(todo[k])
  /\ leds \in [Leds -> LedFiles]
  /\ failed \subseteq Leds /\ inherited \subseteq Leds
  /\ streak \in [hot : 0 .. MAX_SLEEK_FILTER_COUNT + 1,
                 cool : 0 .. MAX_SLEEK_FILTER_COUNT + 1]

(* Although the filter starts full of zeros and drops every seventh        *)
(* sample, seven samples in a row above 99 degrees are enough to report    *)
(* OVER_TEMPERATURE, and seven in a row at or below it to withdraw it,     *)
(* whatever the samples before them and whatever LED writes failed.        *)
FilterSettles ==
  /\ streak.hot > MAX_SLEEK_FILTER_COUNT => led_info.sys_status = "OVER_TEMPERATURE"
  /\ streak.cool > MAX_SLEEK_FILTER_COUNT => led_info.sys_status = "NORMAL_OPERATION"

Lit(l)      == leds[l].brightness # "0" /\ (leds[l].trigger = "none" \/ l \in inherited)
Dark(l)     == leds[l].trigger = "none" /\ leds[l].brightness = "0"
Blinking(l) == leds[l].trigger = "timer" /\ leds[l].delay_on = "500"
                                         /\ leds[l].delay_off = "500"

Between   == pc = "loop" /\ todo = << >>
Shows(l, P) == l \notin failed => P

(* Between two passes the LEDs show the definition at the head of          *)
(* panel_led.c for the status: amber, red blinking, green, or green        *)
(* blinking.  The daemon writes on a change only, and not every file, so   *)
(* this relies on what each status leaves for those that may follow it,    *)
(* after failed writes as well.  Two things are excused.  A LED shows      *)
(* something else when a write to it failed in the last change, which is   *)
(* not repeated before the next; a failure harms neither the other LED nor *)
(* a later status.  And nothing but brightness "0" ends a trigger that was *)
(* there before the program: until then a LED that is to be lit has its    *)
(* brightness and that trigger.                                            *)
LedsShowStatus ==
  Between =>
    CASE led_info.last_sys_status = "SYSTEM_START" ->
           Shows("GREEN", Lit("GREEN")) /\ Shows("RED", Lit("RED"))
      [] led_info.last_sys_status = "OVER_TEMPERATURE" ->
           Shows("GREEN", Dark("GREEN")) /\ Shows("RED", Blinking("RED"))
      [] led_info.last_sys_status = "NORMAL_OPERATION" ->
           Shows("GREEN", Lit("GREEN")) /\ Shows("RED", Dark("RED"))
      [] led_info.last_sys_status = "BACKLINGHT_OFF" ->
           Shows("GREEN", Blinking("GREEN")) /\ Shows("RED", Dark("RED"))
      [] OTHER -> TRUE

(* "GREEN Solid : Normal operation" (panel_led.c:11), whatever the program *)
(* has found: NORMAL_OPERATION writes the brightness of the green LED only *)
(* (panel_led.c:207), so one that was blinking goes on.  Not so.           *)
GreenSolidWhenNormal ==
  (Between /\ led_info.last_sys_status = "NORMAL_OPERATION") =>
    Shows("GREEN", leds["GREEN"].trigger = "none" /\ leds["GREEN"].brightness # "0")
=============================================================================
