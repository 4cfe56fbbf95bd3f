--------------------------- MODULE PanelLedProofs ---------------------------
(***************************************************************************)
(* Two theorems about panel_led, for every set of readings and values.     *)
(*                                                                         *)
(* The temperature filter settles after seven samples.  The argument       *)
(* counts, for every slot of the filter, how many calls ago it was         *)
(* written: a streak longer than that has passed over the slot, and one of *)
(* seven calls over all of them.                                           *)
(*                                                                         *)
(* Between two passes the LEDs show the status.  The argument follows the  *)
(* calls of a status write by write (StartShown ... BacklightShown), and   *)
(* what an earlier status can leave behind (Shown, StatusFollows).         *)
(***************************************************************************)
EXTENDS PanelLed, SequenceTheorems, TLAPS

(* With n the next slot, calls since slot s was written; the call that
   drops its sample counts.                                                *)
Age(n, s) == IF s < n THEN n - 1 - s ELSE n + MAX_SLEEK_FILTER_COUNT - s

FilterType ==
  /\ i \in 0 .. MAX_SLEEK_FILTER_COUNT
  /\ temp_value \in [Slots -> Nat]
  /\ streak \in [hot : 0 .. MAX_SLEEK_FILTER_COUNT + 1,
                 cool : 0 .. MAX_SLEEK_FILTER_COUNT + 1]
  /\ led_info \in LED_INFO

StreakCoversSlots ==
  \A s \in Slots : /\ Age(i, s) < streak.hot => Hot(temp_value[s])
                   /\ Age(i, s) < streak.cool => ~Hot(temp_value[s])

FilterInv ==
  /\ FilterType
  /\ StreakCoversSlots
  /\ FilterSettles
  /\ pc = "parse" => streak = [hot |-> 0, cool |-> 0]

(* Six samples on one side of the threshold put the truncated average on   *)
(* that side.                                                              *)
LEMMA AverageOfHot ==
  ASSUME NEW samples \in [Slots -> Nat], \A s \in Slots : Hot(samples[s])
  PROVE  Average(samples) > SYSTEM_OVER_TEMPERATURE
BY SMT DEF Average, Slots, Hot, SYSTEM_OVER_TEMPERATURE, MAX_SLEEK_FILTER_COUNT

(* Likewise at or below the threshold.                                     *)
LEMMA AverageOfCool ==
  ASSUME NEW samples \in [Slots -> Nat], \A s \in Slots : ~Hot(samples[s])
  PROVE  ~(Average(samples) > SYSTEM_OVER_TEMPERATURE)
BY SMT DEF Average, Slots, Hot, SYSTEM_OVER_TEMPERATURE, MAX_SLEEK_FILTER_COUNT

(* No slot is older than seven calls.                                      *)
LEMMA AgeBound ==
  \A n \in 0 .. MAX_SLEEK_FILTER_COUNT, s \in Slots : Age(n, s) \in 0 .. MAX_SLEEK_FILTER_COUNT
BY DEF Age, Slots, MAX_SLEEK_FILTER_COUNT

(* Before the first sample there is no streak.                             *)
LEMMA InitFilterInv == Init => FilterInv
BY ValuesAssumption DEF Init, FilterInv, FilterType, StreakCoversSlots, FilterSettles,
   Age, Slots, DefaultInfo, LED_INFO, Modes, Leds, Statuses, Unset, MAX_SLEEK_FILTER_COUNT

(* The records a status word or an LED name gives.                         *)
LEMMA ArgumentsAreInfos ==
  \A info \in StatusArgument \cup LedArgument : info \in LED_INFO
<1>1. DefaultInfo \in LED_INFO
  BY ValuesAssumption DEF DefaultInfo, LED_INFO, Modes, Leds, Statuses, Unset
<1>2. \A s \in Statuses : [DefaultInfo EXCEPT !.sys_status = s] \in LED_INFO
  BY <1>1 DEF LED_INFO
<1>3. \A l \in Leds : [DefaultInfo EXCEPT !.sys_status = "DEBUG", !.number = l] \in LED_INFO
  BY <1>1 DEF LED_INFO, Statuses
<1>4. QED
  BY <1>2, <1>3 DEF StatusArgument, LedArgument

(* The command line only changes the LED record, before the first sample.  *)
LEMMA ArgumentsTyped ==
  ASSUME NEW info \in StatusArgument \cup LedArgument, TakePattern(info)
  PROVE  led_info' \in LED_INFO
BY ArgumentsAreInfos DEF TakePattern, LED_INFO, Modes

(* The switch keeps the record typed and the status it was given.          *)
LEMMA SwitchTyped ==
  ASSUME NEW info \in LED_INFO, Switch(info)
  PROVE  led_info' \in LED_INFO /\ led_info'.sys_status = info.sys_status
<1>1. led_info' \in {info, [info EXCEPT !.last_mode = info.mode],
                     [info EXCEPT !.last_sys_status = info.sys_status]}
  BY DEF Switch
<1>2. QED
  BY <1>1 DEF LED_INFO

(* Assigning the detected status keeps the record typed.                   *)
LEMMA DetectedTyped ==
  ASSUME led_info \in LED_INFO, NEW s \in Statuses
  PROVE  /\ [led_info EXCEPT !.sys_status = s] \in LED_INFO
         /\ [led_info EXCEPT !.sys_status = s].sys_status = s
BY DEF LED_INFO

(* One pass with a sample: the slots age by one call, and a streak that is *)
(* seven calls long now decides the average.                               *)
LEMMA SampleKeepsFilterInv ==
  ASSUME FilterInv, NEW raw \in Temps, PollSample(raw)
  PROVE  FilterInv'
<1> USE DEF MAX_SLEEK_FILTER_COUNT
<1> DEFINE status == IF Average(FilterSamples(raw)) > SYSTEM_OVER_TEMPERATURE
                     THEN "OVER_TEMPERATURE" ELSE "NORMAL_OPERATION"
<1>0. Switch([led_info EXCEPT !.sys_status = status]) /\ status \in Statuses
  BY DEF PollSample, Statuses
<1>1. raw \in Nat
  BY TempsAssumption
<1>2. FilterType'
  <2>1. i' \in 0 .. 6 /\ temp_value' \in [Slots -> Nat]
    BY <1>1 DEF PollSample, FilterInv, FilterType, FilterIndex, FilterSamples, Slots
  <2>2. streak' \in [hot : 0 .. 7, cool : 0 .. 7]
    BY DEF PollSample, FilterInv, FilterType, CountStreak, Capped
  <2>3. led_info' \in LED_INFO
    BY <1>0, SwitchTyped, DetectedTyped DEF FilterInv, FilterType
  <2>4. QED
    BY <2>1, <2>2, <2>3 DEF FilterType
<1>3. StreakCoversSlots'
  <2> SUFFICES ASSUME NEW s \in Slots
               PROVE  /\ Age(i', s) < streak'.hot => Hot(temp_value'[s])
                      /\ Age(i', s) < streak'.cool => ~Hot(temp_value'[s])
    BY DEF StreakCoversSlots
  <2>1. CASE i = s
    BY <2>1, <1>1 DEF PollSample, FilterInv, FilterType, FilterIndex, FilterSamples,
       CountStreak, Age, Hot, Slots
  <2>2. CASE i # s
    <3>1. temp_value'[s] = temp_value[s] /\ Age(i', s) = Age(i, s) + 1
      BY <2>2, <1>1 DEF PollSample, FilterInv, FilterType, FilterIndex, FilterSamples,
         Age, Slots
    <3>2. /\ streak'.hot = 0 \/ streak'.hot <= streak.hot + 1
          /\ streak'.cool = 0 \/ streak'.cool <= streak.cool + 1
      BY DEF PollSample, FilterInv, FilterType, CountStreak, Capped
    <3>3. Age(i, s) \in 0 .. 6 /\ streak'.hot \in Nat /\ streak'.cool \in Nat
      BY <1>2 DEF FilterInv, FilterType, Age, Slots
    <3>4. /\ Age(i, s) < streak.hot => Hot(temp_value[s])
          /\ Age(i, s) < streak.cool => ~Hot(temp_value[s])
          /\ streak.hot \in Nat /\ streak.cool \in Nat
      BY DEF FilterInv, FilterType, StreakCoversSlots
    <3>5. QED
      BY <3>1, <3>2, <3>3, <3>4
  <2>3. QED
    BY <2>1, <2>2
<1>4. FilterSettles'
  <2>1. led_info'.sys_status = IF Average(temp_value') > SYSTEM_OVER_TEMPERATURE
                               THEN "OVER_TEMPERATURE" ELSE "NORMAL_OPERATION"
    BY <1>0, SwitchTyped, DetectedTyped DEF FilterInv, FilterType, PollSample
  <2>2. \A s \in Slots : Age(i', s) \in 0 .. 6
    BY <1>2, AgeBound DEF FilterType
  <2>3. streak'.hot > 6 => Average(temp_value') > SYSTEM_OVER_TEMPERATURE
    BY <1>2, <1>3, <2>2, AverageOfHot DEF FilterType, StreakCoversSlots
  <2>4. streak'.cool > 6 => ~(Average(temp_value') > SYSTEM_OVER_TEMPERATURE)
    BY <1>2, <1>3, <2>2, AverageOfCool DEF FilterType, StreakCoversSlots
  <2>5. QED
    BY <2>1, <2>3, <2>4 DEF FilterSettles
<1>5. QED
  BY <1>2, <1>3, <1>4 DEF FilterInv, PollSample

(* Only a sample or a lost sensor touches what the invariant is about.     *)
LEMMA NextFilterInv == FilterInv /\ [Next]_vars => FilterInv'
<1> SUFFICES ASSUME FilterInv, [Next]_vars PROVE FilterInv'
  OBVIOUS
<1> USE DEF FilterInv, FilterType, StreakCoversSlots, FilterSettles, Age
<1>1. CASE ParseNothing
  BY <1>1 DEF ParseNothing
<1>2. CASE ParseArguments
  <2>1. led_info' \in LED_INFO /\ streak = [hot |-> 0, cool |-> 0]
    BY <1>2, ArgumentsTyped DEF ParseArguments
  <2>2. FilterType' /\ StreakCoversSlots'
    BY <1>2, <2>1 DEF ParseArguments
  <2>3. FilterSettles' /\ (pc' = "parse" => streak' = [hot |-> 0, cool |-> 0])
    BY <1>2, <2>1 DEF ParseArguments, MAX_SLEEK_FILTER_COUNT
  <2>4. QED
    BY <2>2, <2>3
<1>3. CASE ParseError
  BY <1>3 DEF ParseError
<1>4. CASE \E raw \in Temps : PollSample(raw)
  BY <1>4, SampleKeepsFilterInv
<1>5. CASE PollNoSensor
  <2>1. Switch([led_info EXCEPT !.sys_status = "NORMAL_OPERATION"])
    BY <1>5 DEF PollNoSensor
  <2>2. led_info' \in LED_INFO
    BY <2>1, SwitchTyped, DetectedTyped DEF Statuses
  <2>3. QED
    BY <1>5, <2>2 DEF PollNoSensor, Slots, MAX_SLEEK_FILTER_COUNT
<1>6. CASE PollFixed
  BY <1>6, SwitchTyped DEF PollFixed
<1>7. CASE WriteLed
  BY <1>7 DEF WriteLed
<1>8. CASE WriteLedFails \/ OpenLedFails
  BY <1>8 DEF WriteLedFails, OpenLedFails
<1>9. CASE UNCHANGED vars
  BY <1>9 DEF vars
<1>10. QED
  BY <1>1, <1>2, <1>3, <1>4, <1>5, <1>6, <1>7, <1>8, <1>9 DEF Next

(* Whatever the temperatures, and whatever LED writes fail, seven samples  *)
(* in a row on one side of 99 degrees decide the status: the dropped       *)
(* sample and the zeros the filter starts with delay it no further.        *)
THEOREM FilterAlwaysSettles == Spec => []FilterSettles
<1>1. FilterInv => FilterSettles
  BY DEF FilterInv
<1>2. QED
  BY InitFilterInv, NextFilterInv, <1>1, PTL DEF Spec

-----------------------------------------------------------------------------
(* What is left of a set_led_blinking call after one and two writes.       *)
BlinkRest(l, v, w)  == << WriteTo(l, "delay_on", v), WriteTo(l, "delay_off", w) >>
BlinkDelay(l, w)    == << WriteTo(l, "delay_off", w) >>

(* How the calls are taken apart, write by write.                          *)
LEMMA BlinkParts ==
  ASSUME NEW l, NEW v, NEW w
  PROVE  /\ Len(set_led_blinking(l, v, w)) = 3
         /\ Head(set_led_blinking(l, v, w)) = WriteTo(l, "trigger", "timer")
         /\ Tail(set_led_blinking(l, v, w)) = BlinkRest(l, v, w)
         /\ Len(BlinkRest(l, v, w)) = 2
         /\ Head(BlinkRest(l, v, w)) = WriteTo(l, "delay_on", v)
         /\ Tail(BlinkRest(l, v, w)) = BlinkDelay(l, w)
         /\ Len(BlinkDelay(l, w)) = 1
         /\ Head(BlinkDelay(l, w)) = WriteTo(l, "delay_off", w)
         /\ Len(set_led_brightness(l, v)) = 1
         /\ Head(set_led_brightness(l, v)) = WriteTo(l, "brightness", v)
BY DEF set_led_blinking, BlinkRest, BlinkDelay, set_led_brightness

(* The sysfs calls, and what is left of them, one by one.                  *)
LEMMA CallCases ==
  ASSUME NEW c, IsCall(c)
  PROVE  \E l \in Leds, v \in Values, w \in Values :
             \/ c = set_led_brightness(l, v) \/ c = set_led_blinking(l, v, w)
             \/ c = BlinkRest(l, v, w) \/ c = BlinkDelay(l, w)
<1>1. PICK l \in Leds, v \in Values, w \in Values :
        c \in {set_led_brightness(l, v), set_led_blinking(l, v, w),
              Tail(set_led_blinking(l, v, w)), Tail(Tail(set_led_blinking(l, v, w)))}
  BY DEF IsCall
<1>2. \/ c = set_led_brightness(l, v) \/ c = set_led_blinking(l, v, w)
      \/ c = BlinkRest(l, v, w) \/ c = BlinkDelay(l, w)
  BY <1>1, BlinkParts
<1> QED BY <1>2

(* Each of them is one.                                                    *)
LEMMA PartsAreCalls ==
  ASSUME NEW l \in Leds, NEW v \in Values, NEW w \in Values
  PROVE  /\ IsCall(set_led_brightness(l, v)) /\ IsCall(set_led_blinking(l, v, w))
         /\ IsCall(BlinkRest(l, v, w)) /\ IsCall(BlinkDelay(l, w))
<1>1. /\ Tail(set_led_blinking(l, v, w)) = BlinkRest(l, v, w)
      /\ Tail(Tail(set_led_blinking(l, v, w))) = BlinkDelay(l, w)
  BY BlinkParts
<1>2. /\ IsCall(set_led_brightness(l, v)) /\ IsCall(set_led_blinking(l, v, w))
      /\ IsCall(Tail(set_led_blinking(l, v, w)))
      /\ IsCall(Tail(Tail(set_led_blinking(l, v, w))))
  BY DEF IsCall
<1> QED BY <1>1, <1>2

(* Writing "0" to brightness also ends the trigger.                        *)
LEMMA WriteOff ==
  ASSUME NEW state, NEW l
  PROVE  SysfsWrite(state, WriteTo(l, "brightness", "0")) =
           [state EXCEPT ![l] = [@ EXCEPT !.brightness = "0", !.trigger = "none"]]
BY DEF SysfsWrite, WriteTo

(* Any other write sets one file.                                          *)
LEMMA WriteOne ==
  ASSUME NEW state, NEW l, NEW f, NEW v, f # "brightness" \/ v # "0"
  PROVE  SysfsWrite(state, WriteTo(l, f, v)) = [state EXCEPT ![l] = [@ EXCEPT ![f] = v]]
BY DEF SysfsWrite, WriteTo

(* Their first writes.                                                     *)
LEMMA CallHeads ==
  ASSUME NEW c, NEW l, NEW v, NEW w,
         \/ c = set_led_brightness(l, v) \/ c = set_led_blinking(l, v, w)
         \/ c = BlinkRest(l, v, w) \/ c = BlinkDelay(l, w)
  PROVE  \/ Head(c) = WriteTo(l, "brightness", v) \/ Head(c) = WriteTo(l, "trigger", "timer")
         \/ Head(c) = WriteTo(l, "delay_on", v) \/ Head(c) = WriteTo(l, "delay_off", w)
<1>1. CASE c = set_led_brightness(l, v)
  BY <1>1, BlinkParts
<1>2. CASE c = set_led_blinking(l, v, w)
  BY <1>2, BlinkParts
<1>3. CASE c = BlinkRest(l, v, w)
  BY <1>3, BlinkParts
<1>4. CASE c = BlinkDelay(l, w)
  BY <1>4, BlinkParts
<1> QED BY <1>1, <1>2, <1>3, <1>4

(* What is left of a call after a write is one.                            *)
LEMMA CallTails ==
  ASSUME NEW c, IsCall(c), Len(c) # 1
  PROVE  IsCall(Tail(c))
<1>1. PICK l \in Leds, v \in Values, w \in Values :
             \/ c = set_led_brightness(l, v) \/ c = set_led_blinking(l, v, w)
             \/ c = BlinkRest(l, v, w) \/ c = BlinkDelay(l, w)
  BY CallCases
<1>2. \/ Tail(c) = BlinkRest(l, v, w)
      \/ Tail(c) = BlinkDelay(l, w)
  BY <1>1, BlinkParts
<1> QED BY <1>2, PartsAreCalls

(* A write of a call keeps the LED record typed.                           *)
LEMMA CallWrites ==
  ASSUME NEW c, IsCall(c), leds \in [Leds -> LedFiles]
  PROVE  SysfsWrite(leds, Head(c)) \in [Leds -> LedFiles]
<1>1. PICK l \in Leds, v \in Values, w \in Values :
             \/ c = set_led_brightness(l, v) \/ c = set_led_blinking(l, v, w)
             \/ c = BlinkRest(l, v, w) \/ c = BlinkDelay(l, w)
  BY CallCases
<1>2. \/ Head(c) = WriteTo(l, "brightness", v) \/ Head(c) = WriteTo(l, "trigger", "timer")
      \/ Head(c) = WriteTo(l, "delay_on", v) \/ Head(c) = WriteTo(l, "delay_off", w)
  BY <1>1, CallHeads
<1>3. CASE Head(c) = WriteTo(l, "brightness", v) /\ v = "0"
  <2>1. [leds[l] EXCEPT !.brightness = "0", !.trigger = "none"] \in LedFiles
    BY ValuesAssumption DEF LedFiles, Triggers
  <2>2. SysfsWrite(leds, Head(c)) =
          [leds EXCEPT ![l] = [leds[l] EXCEPT !.brightness = "0", !.trigger = "none"]]
    BY <1>3, WriteOff
  <2> QED BY <2>1, <2>2
<1>4. CASE Head(c) = WriteTo(l, "brightness", v) /\ v # "0"
  BY <1>4 DEF LedFiles, Triggers, SysfsWrite, WriteTo
<1>5. CASE Head(c) = WriteTo(l, "trigger", "timer")
  BY <1>5 DEF LedFiles, Triggers, SysfsWrite, WriteTo
<1>6. CASE Head(c) = WriteTo(l, "delay_on", v) \/ Head(c) = WriteTo(l, "delay_off", w)
  BY <1>6 DEF LedFiles, Triggers, SysfsWrite, WriteTo
<1> QED BY <1>2, <1>3, <1>4, <1>5, <1>6

(* What is still to be written: at most two calls.                         *)
TodoShape ==
  \/ todo = << >>
  \/ \E c : IsCall(c) /\ todo = << c >>
  \/ \E c, d : IsCall(c) /\ IsCall(d) /\ todo = << c, d >>

TypeInv == TypeOK /\ TodoShape

(* That is what TypeOK says of it.                                         *)
LEMMA ShapeTyped ==
  TodoShape' => Len(todo') <= 2 /\ \A k \in DOMAIN todo' : IsCall(todo'[k])
<1>1. CASE todo' = << >>
  BY <1>1
<1>2. ASSUME NEW c, IsCall(c), todo' = << c >>
      PROVE  Len(todo') <= 2 /\ \A k \in DOMAIN todo' : IsCall(todo'[k])
  BY <1>2
<1>3. ASSUME NEW c, NEW d, IsCall(c), IsCall(d), todo' = << c, d >>
      PROVE  Len(todo') <= 2 /\ \A k \in DOMAIN todo' : IsCall(todo'[k])
  <2>1. DOMAIN todo' = {1, 2} /\ todo'[1] = c /\ todo'[2] = d /\ Len(todo') = 2
    BY <1>3
  <2> QED BY <1>3, <2>1
<1> QED BY <1>1, <1>2, <1>3 DEF TodoShape

(* Two calls are queued in their order.                                    *)
LEMMA TwoCalls == ASSUME NEW a, NEW b PROVE << a >> \o << b >> = << a, b >>
<1> DEFINE s == << a >> \o << b >>
           t == << a, b >>
<1>1. s \in Seq({a, b}) /\ t \in Seq({a, b}) /\ Len(s) = 2 /\ Len(t) = 2
  OBVIOUS
<1>2. s[1] = t[1] /\ s[2] = t[2]
  OBVIOUS
<1>3. \A k \in 1 .. Len(s) : s[k] = t[k]
  BY <1>1, <1>2
<1> HIDE DEF s, t
<1>4. s = t
  BY <1>1, <1>3, SeqEqual
<1> QED BY <1>4 DEF s, t

(* One write that is done or fails, seen from what is still to be written. *)
LEMMA WriteTakes ==
  ASSUME NextWrite
  PROVE  /\ \A c : todo = << c >> => todo' = IF Len(c) = 1 THEN << >> ELSE << Tail(c) >>
         /\ \A c, d : todo = << c, d >> =>
              todo' = IF Len(c) = 1 THEN << d >> ELSE << Tail(c), d >>
<1>1. ASSUME NEW c, todo = << c >>
      PROVE  todo' = IF Len(c) = 1 THEN << >> ELSE << Tail(c) >>
  <2>1. Head(todo) = c /\ Tail(todo) = << >>
    BY <1>1
  <2>2. << Tail(c) >> \o << >> = << Tail(c) >>
    OBVIOUS
  <2> QED BY <2>1, <2>2 DEF NextWrite, DropCall
<1>2. ASSUME NEW c, NEW d, todo = << c, d >>
      PROVE  todo' = IF Len(c) = 1 THEN << d >> ELSE << Tail(c), d >>
  <2>1. Head(todo) = c /\ Tail(todo) = << d >>
    BY <1>2
  <2>2. << Tail(c) >> \o << d >> = << Tail(c), d >>
    BY TwoCalls
  <2> QED BY <2>1, <2>2 DEF NextWrite, DropCall
<1> QED BY <1>1, <1>2

(* A call whose file cannot be opened is given up, with its other writes.  *)
LEMMA FailureDrops ==
  ASSUME DropCall
  PROVE  /\ \A c : todo = << c >> => todo' = << >>
         /\ \A c, d : todo = << c, d >> => todo' = << d >>
<1>1. ASSUME NEW c, todo = << c >> PROVE todo' = << >>
  BY <1>1 DEF DropCall
<1>2. ASSUME NEW c, NEW d, todo = << c, d >> PROVE todo' = << d >>
  <2>1. Tail(<< c, d >>) = << d >>
    OBVIOUS
  <2> QED BY <1>2, <2>1 DEF DropCall
<1> QED BY <1>1, <1>2

(* The file that is written next, and its LED.                             *)
LEMMA NextFiles ==
  ASSUME NEW c
  PROVE  /\ todo = << c >> => NextFile = Head(c)
         /\ \A d : todo = << c, d >> => NextFile = Head(c)
BY DEF NextFile

(* Every write of a call is to a LED.                                      *)
LEMMA CallLed ==
  ASSUME NEW c, IsCall(c)
  PROVE  Head(c).led \in Leds
<1>1. PICK l \in Leds, v \in Values, w \in Values :
             \/ c = set_led_brightness(l, v) \/ c = set_led_blinking(l, v, w)
             \/ c = BlinkRest(l, v, w) \/ c = BlinkDelay(l, w)
  BY CallCases
<1>2. \/ Head(c) = WriteTo(l, "brightness", v) \/ Head(c) = WriteTo(l, "trigger", "timer")
      \/ Head(c) = WriteTo(l, "delay_on", v) \/ Head(c) = WriteTo(l, "delay_off", w)
  BY <1>1, CallHeads
<1>3. Head(c).led = l
  BY <1>2 DEF WriteTo
<1> QED BY <1>3

(* What is to be written next is of a LED.                                 *)
LEMMA NextLed ==
  ASSUME TodoShape, todo # << >>
  PROVE  NextFile.led \in Leds
BY CallLed, NextFiles DEF TodoShape

(* A write that is done or fails leaves calls to be made.                  *)
LEMMA NextShape ==
  ASSUME TodoShape, todo # << >>, NextWrite \/ DropCall
  PROVE  TodoShape'
<1>1. ASSUME NEW c, IsCall(c), todo = << c >>
      PROVE  TodoShape'
  <2>1. todo' = << >> \/ (Len(c) # 1 /\ todo' = << Tail(c) >>)
    BY <1>1, WriteTakes, FailureDrops
  <2>2. Len(c) # 1 => IsCall(Tail(c))
    BY <1>1, CallTails
  <2> QED BY <2>1, <2>2 DEF TodoShape
<1>2. ASSUME NEW c, NEW d, IsCall(c), IsCall(d), todo = << c, d >>
      PROVE  TodoShape'
  <2>1. todo' = << d >> \/ (Len(c) # 1 /\ todo' = << Tail(c), d >>)
    BY <1>2, WriteTakes, FailureDrops
  <2>2. Len(c) # 1 => IsCall(Tail(c))
    BY <1>2, CallTails
  <2> QED BY <1>2, <2>1, <2>2 DEF TodoShape
<1> QED BY <1>1, <1>2 DEF TodoShape

(* The calls of a status are calls.                                        *)
LEMMA DisplayShape ==
  ASSUME NEW status \in Statuses \ {"DEBUG"}
  PROVE  \E c, d : IsCall(c) /\ IsCall(d) /\ Display(status) = << c, d >>
<1>1. \A l \in Leds : /\ IsCall(set_led_brightness(l, "0"))
                      /\ IsCall(set_led_brightness(l, "1"))
                      /\ IsCall(set_led_blinking(l, "500", "500"))
  BY ValuesAssumption, PartsAreCalls
<1>2. "GREEN" \in Leds /\ "RED" \in Leds
  BY DEF Leds
<1>3. CASE status = "SYSTEM_START"
  <2>1. Display(status) = << set_led_brightness("GREEN", "1"), set_led_brightness("RED", "1") >>
    BY <1>3 DEF Display
  <2> QED BY <1>1, <1>2, <2>1
<1>4. CASE status = "NORMAL_OPERATION"
  <2>1. Display(status) = << set_led_brightness("GREEN", "1"), set_led_brightness("RED", "0") >>
    BY <1>4 DEF Display
  <2> QED BY <1>1, <1>2, <2>1
<1>5. CASE status = "OVER_TEMPERATURE"
  <2>1. Display(status) = << set_led_brightness("GREEN", "0"),
                             set_led_blinking("RED", "500", "500") >>
    BY <1>5 DEF Display
  <2> QED BY <1>1, <1>2, <2>1
<1>6. CASE status = "BACKLINGHT_OFF"
  <2>1. Display(status) = << set_led_blinking("GREEN", "500", "500"),
                             set_led_brightness("RED", "0") >>
    BY <1>6 DEF Display
  <2> QED BY <1>1, <1>2, <2>1
<1> QED BY <1>3, <1>4, <1>5, <1>6 DEF Statuses

(* So is what a command line asks for.                                     *)
LEMMA DebugShape ==
  ASSUME NEW info \in LED_INFO
  PROVE  \E c : IsCall(c) /\ DebugDisplay(info) = << c >>
<1>1. /\ info.number \in Leds /\ info.brightness \in Values
      /\ info.delay_on \in Values /\ info.delay_off \in Values
  BY DEF LED_INFO
<1>2. /\ IsCall(set_led_brightness(info.number, info.brightness))
      /\ IsCall(set_led_blinking(info.number, info.delay_on, info.delay_off))
  BY <1>1, PartsAreCalls
<1> QED BY <1>2 DEF DebugDisplay

(* The switch queues a status' calls, or nothing new.                      *)
LEMMA SwitchShape ==
  ASSUME NEW info \in LED_INFO, Switch(info), TodoShape, failed \subseteq Leds
  PROVE  TodoShape' /\ failed' \subseteq Leds
<1>1. CASE todo' = todo /\ failed' = failed
  BY <1>1 DEF TodoShape
<1>2. CASE info.sys_status = "DEBUG" /\ todo' = DebugDisplay(info) /\ failed' = {}
  BY <1>2, DebugShape DEF TodoShape
<1>3. CASE info.sys_status # "DEBUG" /\ todo' = Display(info.sys_status) /\ failed' = {}
  <2>1. info.sys_status \in Statuses \ {"DEBUG"}
    BY <1>3 DEF LED_INFO
  <2> QED BY <1>3, <2>1, DisplayShape DEF TodoShape
<1> QED BY <1>1, <1>2, <1>3 DEF Switch

(* Every action keeps the types.                                           *)
LEMMA TypeStep ==
  ASSUME TypeInv, [Next]_vars
  PROVE  TypeInv'
<1> USE DEF TypeInv, TypeOK
<1>1. CASE ParseNothing
  BY <1>1 DEF ParseNothing, TodoShape
<1>2. CASE ParseArguments
  BY <1>2, ArgumentsTyped DEF ParseArguments, TodoShape
<1>3. CASE ParseError
  BY <1>3 DEF ParseError, TodoShape
<1>4. ASSUME NEW raw \in Temps, PollSample(raw) PROVE TypeInv'
  <2> DEFINE status == IF Average(FilterSamples(raw)) > SYSTEM_OVER_TEMPERATURE
                       THEN "OVER_TEMPERATURE" ELSE "NORMAL_OPERATION"
             info   == [led_info EXCEPT !.sys_status = status]
  <2>1. Switch(info) /\ status \in Statuses
    BY <1>4 DEF PollSample, Statuses
  <2>2. info \in LED_INFO
    BY <2>1, DetectedTyped
  <2> HIDE DEF info
  <2>3. led_info' \in LED_INFO /\ failed' \subseteq Leds /\ TodoShape'
    BY <2>1, <2>2, SwitchTyped, SwitchShape
  <2>4. i' \in 0 .. MAX_SLEEK_FILTER_COUNT /\ temp_value' \in [Slots -> Temps \cup {0}]
    BY <1>4 DEF PollSample, FilterIndex, FilterSamples, Slots, MAX_SLEEK_FILTER_COUNT
  <2>5. streak' \in [hot : 0 .. MAX_SLEEK_FILTER_COUNT + 1,
                     cool : 0 .. MAX_SLEEK_FILTER_COUNT + 1]
    BY <1>4 DEF PollSample, CountStreak, Capped, MAX_SLEEK_FILTER_COUNT
  <2> QED BY <1>4, <2>3, <2>4, <2>5, ShapeTyped DEF PollSample
<1>5. CASE PollNoSensor
  <2> DEFINE info == [led_info EXCEPT !.sys_status = "NORMAL_OPERATION"]
  <2>1. Switch(info) /\ info \in LED_INFO
    BY <1>5, DetectedTyped DEF PollNoSensor, Statuses
  <2> HIDE DEF info
  <2>2. led_info' \in LED_INFO /\ failed' \subseteq Leds /\ TodoShape'
    BY <2>1, SwitchTyped, SwitchShape
  <2>3. streak' \in [hot : 0 .. MAX_SLEEK_FILTER_COUNT + 1,
                     cool : 0 .. MAX_SLEEK_FILTER_COUNT + 1]
    BY <1>5 DEF PollNoSensor, MAX_SLEEK_FILTER_COUNT
  <2> QED BY <1>5, <2>2, <2>3, ShapeTyped DEF PollNoSensor
<1>6. CASE PollFixed
  <2>1. led_info' \in LED_INFO /\ failed' \subseteq Leds /\ TodoShape'
    BY <1>6, SwitchTyped, SwitchShape DEF PollFixed
  <2> QED BY <1>6, <2>1, ShapeTyped DEF PollFixed
<1>7. CASE WriteLed
  <2>1. TodoShape'
    BY <1>7, NextShape DEF WriteLed
  <2>2. leds' \in [Leds -> LedFiles]
    <3>1. ASSUME NEW c, IsCall(c), NextFile = Head(c)
          PROVE  leds' \in [Leds -> LedFiles]
      BY <1>7, <3>1, CallWrites DEF WriteLed
    <3> QED BY <1>7, <3>1, NextFiles DEF TodoShape, WriteLed
  <2> QED BY <1>7, <2>1, <2>2, ShapeTyped DEF WriteLed
<1>8. CASE WriteLedFails \/ OpenLedFails
  <2>1. todo # << >> /\ failed' = failed \cup {NextFile.led}
    BY <1>8 DEF WriteLedFails, OpenLedFails
  <2>2. TodoShape' /\ failed' \subseteq Leds
    BY <1>8, <2>1, NextShape, NextLed DEF WriteLedFails, OpenLedFails
  <2> QED BY <1>8, <2>2, ShapeTyped DEF WriteLedFails, OpenLedFails
<1>9. CASE UNCHANGED vars
  BY <1>9 DEF vars, TodoShape
<1> QED BY <1>1, <1>2, <1>3, <1>4, <1>5, <1>6, <1>7, <1>8, <1>9 DEF Next

-----------------------------------------------------------------------------
Bright(l, v) == set_led_brightness(l, v)
Trigger(l)   == leds[l].trigger

(* No trigger of this program's is on.                                     *)
Steady(l)    == Trigger(l) = "none" \/ l \in inherited

(* What the calls of a status, as far as they are made, have shown on each *)
(* LED, unless one of its writes failed.                                   *)
StartShown ==
  /\ Steady("GREEN") /\ Steady("RED")
  /\ \/ todo = << Bright("GREEN", "1"), Bright("RED", "1") >>
     \/ todo = << Bright("RED", "1") >> /\ Shows("GREEN", Lit("GREEN"))
     \/ todo = << >> /\ Shows("GREEN", Lit("GREEN")) /\ Shows("RED", Lit("RED"))

NormalShown ==
  /\ Steady("GREEN")
  /\ \/ todo = << Bright("GREEN", "1"), Bright("RED", "0") >>
     \/ todo = << Bright("RED", "0") >> /\ Shows("GREEN", Lit("GREEN"))
     \/ todo = << >> /\ Shows("GREEN", Lit("GREEN")) /\ Shows("RED", Dark("RED"))

HotShown ==
  /\ Steady("GREEN")
  /\ \/ todo = << Bright("GREEN", "0"), set_led_blinking("RED", "500", "500") >>
     \/ /\ Shows("GREEN", Dark("GREEN"))
        /\ \/ todo = << set_led_blinking("RED", "500", "500") >>
           \/ /\ todo = << BlinkRest("RED", "500", "500") >>
              /\ Shows("RED", Trigger("RED") = "timer")
           \/ /\ todo = << BlinkDelay("RED", "500") >>
              /\ Shows("RED", Trigger("RED") = "timer" /\ leds["RED"].delay_on = "500")
           \/ todo = << >> /\ Shows("RED", Blinking("RED"))

BacklightShown ==
  \/ todo = << set_led_blinking("GREEN", "500", "500"), Bright("RED", "0") >>
  \/ /\ todo = << BlinkRest("GREEN", "500", "500"), Bright("RED", "0") >>
     /\ Shows("GREEN", Trigger("GREEN") = "timer")
  \/ /\ todo = << BlinkDelay("GREEN", "500"), Bright("RED", "0") >>
     /\ Shows("GREEN", Trigger("GREEN") = "timer" /\ leds["GREEN"].delay_on = "500")
  \/ todo = << Bright("RED", "0") >> /\ Shows("GREEN", Blinking("GREEN"))
  \/ todo = << >> /\ Shows("GREEN", Blinking("GREEN")) /\ Shows("RED", Dark("RED"))

Shown ==
  LET status == led_info.last_sys_status IN
  /\ status = "SYSTEM_START"     => StartShown
  /\ status = "NORMAL_OPERATION" => NormalShown
  /\ status = "OVER_TEMPERATURE" => HotShown
  /\ status = "BACKLINGHT_OFF"   => BacklightShown
  /\ status = Unset /\ led_info.sys_status # "DEBUG" =>
       todo = << >> /\ Steady("GREEN") /\ Steady("RED")

(* Which statuses follow each other: a detected one is left for the other  *)
(* detected one only, and one of the command line is never left.           *)
StatusFollows ==
  /\ pc = "parse" => noArgs /\ led_info = DefaultInfo
  /\ pc # "loop" => todo = << >>
  /\ noArgs => /\ led_info.sys_status \in {"NORMAL_OPERATION", "OVER_TEMPERATURE"}
               /\ led_info.last_sys_status \in {Unset, "NORMAL_OPERATION", "OVER_TEMPERATURE"}
  /\ ~noArgs => led_info.last_sys_status \in {Unset, led_info.sys_status}
  /\ led_info.sys_status = "DEBUG" => led_info.last_sys_status = Unset

LedInv == TypeInv /\ Shown /\ StatusFollows

-----------------------------------------------------------------------------
(* Which write of a call comes next, and what it leaves of the call when   *)
(* it is done, or only given up at once.                                   *)
LEMMA CallTakes ==
  ASSUME NEW l, NEW v
  PROVE  /\ todo = << Bright(l, v) >> =>
              /\ NextFile = WriteTo(l, "brightness", v)
              /\ NextWrite \/ DropCall => todo' = << >>
         /\ todo = << set_led_blinking(l, v, v) >> =>
              /\ NextFile = WriteTo(l, "trigger", "timer")
              /\ NextWrite => todo' = << BlinkRest(l, v, v) >>
              /\ DropCall  => todo' = << >>
         /\ todo = << BlinkRest(l, v, v) >> =>
              /\ NextFile = WriteTo(l, "delay_on", v)
              /\ NextWrite => todo' = << BlinkDelay(l, v) >>
              /\ DropCall  => todo' = << >>
         /\ todo = << BlinkDelay(l, v) >> =>
              /\ NextFile = WriteTo(l, "delay_off", v)
              /\ NextWrite \/ DropCall => todo' = << >>
<1>1. ASSUME NEW c, todo = << c >>
      PROVE  /\ NextFile = Head(c)
             /\ NextWrite => todo' = IF Len(c) = 1 THEN << >> ELSE << Tail(c) >>
             /\ DropCall => todo' = << >>
  BY <1>1, WriteTakes, FailureDrops, NextFiles
<1>2. ASSUME todo = << Bright(l, v) >>
      PROVE  /\ NextFile = WriteTo(l, "brightness", v)
             /\ NextWrite \/ DropCall => todo' = << >>
  <2>1. Head(Bright(l, v)) = WriteTo(l, "brightness", v) /\ Len(Bright(l, v)) = 1
    BY BlinkParts DEF Bright
  <2>2. /\ NextFile = Head(Bright(l, v))
        /\ NextWrite => todo' = IF Len(Bright(l, v)) = 1 THEN << >>
                                ELSE << Tail(Bright(l, v)) >>
        /\ DropCall => todo' = << >>
    BY <1>1, <1>2
  <2> QED BY <2>1, <2>2
<1>3. ASSUME todo = << set_led_blinking(l, v, v) >>
      PROVE  /\ NextFile = WriteTo(l, "trigger", "timer")
             /\ NextWrite => todo' = << BlinkRest(l, v, v) >>
             /\ DropCall  => todo' = << >>
  <2>1. /\ NextFile = Head(set_led_blinking(l, v, v))
        /\ NextWrite => todo' = IF Len(set_led_blinking(l, v, v)) = 1 THEN << >>
                                ELSE << Tail(set_led_blinking(l, v, v)) >>
        /\ DropCall => todo' = << >>
    BY <1>1, <1>3
  <2> QED BY <2>1, BlinkParts
<1>4. ASSUME todo = << BlinkRest(l, v, v) >>
      PROVE  /\ NextFile = WriteTo(l, "delay_on", v)
             /\ NextWrite => todo' = << BlinkDelay(l, v) >>
             /\ DropCall  => todo' = << >>
  <2>1. /\ NextFile = Head(BlinkRest(l, v, v))
        /\ NextWrite => todo' = IF Len(BlinkRest(l, v, v)) = 1 THEN << >>
                                ELSE << Tail(BlinkRest(l, v, v)) >>
        /\ DropCall => todo' = << >>
    BY <1>1, <1>4
  <2> QED BY <2>1, BlinkParts
<1>5. ASSUME todo = << BlinkDelay(l, v) >>
      PROVE  /\ NextFile = WriteTo(l, "delay_off", v)
             /\ NextWrite \/ DropCall => todo' = << >>
  <2>1. /\ NextFile = Head(BlinkDelay(l, v))
        /\ NextWrite => todo' = IF Len(BlinkDelay(l, v)) = 1 THEN << >>
                                ELSE << Tail(BlinkDelay(l, v)) >>
        /\ DropCall => todo' = << >>
    BY <1>1, <1>5
  <2> QED BY <2>1, BlinkParts
<1> QED BY <1>2, <1>3, <1>4, <1>5

(* The same with another call behind it.                                   *)
LEMMA FirstCallTakes ==
  ASSUME NEW l, NEW v, NEW d
  PROVE  /\ todo = << Bright(l, v), d >> =>
              /\ NextFile = WriteTo(l, "brightness", v)
              /\ NextWrite \/ DropCall => todo' = << d >>
         /\ todo = << set_led_blinking(l, v, v), d >> =>
              /\ NextFile = WriteTo(l, "trigger", "timer")
              /\ NextWrite => todo' = << BlinkRest(l, v, v), d >>
              /\ DropCall  => todo' = << d >>
         /\ todo = << BlinkRest(l, v, v), d >> =>
              /\ NextFile = WriteTo(l, "delay_on", v)
              /\ NextWrite => todo' = << BlinkDelay(l, v), d >>
              /\ DropCall  => todo' = << d >>
         /\ todo = << BlinkDelay(l, v), d >> =>
              /\ NextFile = WriteTo(l, "delay_off", v)
              /\ NextWrite \/ DropCall => todo' = << d >>
<1>1. ASSUME NEW c, todo = << c, d >>
      PROVE  /\ NextFile = Head(c)
             /\ NextWrite => todo' = IF Len(c) = 1 THEN << d >> ELSE << Tail(c), d >>
             /\ DropCall => todo' = << d >>
  BY <1>1, WriteTakes, FailureDrops, NextFiles
<1>2. ASSUME NEW c, todo = << c, d >>, Len(c) = 1
      PROVE  NextFile = Head(c) /\ (NextWrite \/ DropCall => todo' = << d >>)
  BY <1>1, <1>2
<1>3. ASSUME NEW c, todo = << c, d >>, Len(c) # 1
      PROVE  /\ NextFile = Head(c) /\ (DropCall => todo' = << d >>)
             /\ NextWrite => todo' = << Tail(c), d >>
  BY <1>1, <1>3
<1>4. todo = << Bright(l, v), d >> =>
        NextFile = WriteTo(l, "brightness", v) /\ (NextWrite \/ DropCall => todo' = << d >>)
  BY <1>2, BlinkParts DEF Bright
<1>5. todo = << set_led_blinking(l, v, v), d >> =>
        /\ NextFile = WriteTo(l, "trigger", "timer") /\ (DropCall => todo' = << d >>)
        /\ NextWrite => todo' = << BlinkRest(l, v, v), d >>
  BY <1>3, BlinkParts
<1>6. todo = << BlinkRest(l, v, v), d >> =>
        /\ NextFile = WriteTo(l, "delay_on", v) /\ (DropCall => todo' = << d >>)
        /\ NextWrite => todo' = << BlinkDelay(l, v), d >>
  BY <1>3, BlinkParts
<1>7. ASSUME todo = << BlinkDelay(l, v), d >>
      PROVE  NextFile = WriteTo(l, "delay_off", v) /\ (NextWrite \/ DropCall => todo' = << d >>)
  <2>1. Len(BlinkDelay(l, v)) = 1 /\ Head(BlinkDelay(l, v)) = WriteTo(l, "delay_off", v)
    BY BlinkParts
  <2> QED BY <1>2, <1>7, <2>1
<1> QED BY <1>4, <1>5, <1>6, <1>7

(* A write that is done or fails: what it does to the other LEDs, and when *)
(* it may have gone wrong for its own.                                     *)
Writes    == WriteLed \/ WriteLedFails \/ OpenLedFails
Others(l) ==
  \A m \in Leds \ {l} :
    /\ leds'[m] = leds[m]
    /\ m \in inherited' <=> m \in inherited
    /\ m \in failed' <=> m \in failed

LEMMA WriteEffects ==
  ASSUME leds \in [Leds -> LedFiles], Writes, NEW l \in Leds, NextFile.led = l
  PROVE  /\ Others(l) /\ todo # << >>
         /\ NextWrite \/ DropCall
         /\ l \notin failed' => l \notin failed /\ WriteLed /\ NextWrite
         /\ Steady(l) /\ NextFile.file # "trigger" => Steady(l)'
<1>1. CASE WriteLed
  <2>1. \A m \in Leds \ {l} : leds'[m] = leds[m] /\ (m \in inherited' <=> m \in inherited)
    BY <1>1 DEF WriteLed, SysfsWrite
  <2>2. Steady(l) /\ NextFile.file # "trigger" => Steady(l)'
    <3>1. CASE NextFile.file = "brightness" /\ NextFile.value = "0"
      BY <1>1, <3>1 DEF WriteLed, SysfsWrite, Steady, Trigger, LedFiles
    <3>2. CASE NextFile.file # "trigger" /\ ~(NextFile.file = "brightness" /\ NextFile.value = "0")
      <4>1. inherited' = inherited
        BY <1>1, <3>2 DEF WriteLed, EndsTrigger
      <4>2. leds'[l] = [leds[l] EXCEPT ![NextFile.file] = NextFile.value]
        BY <1>1, <3>2 DEF WriteLed, SysfsWrite
      <4>3. Trigger(l)' = Trigger(l)
        BY <3>2, <4>2 DEF Trigger, LedFiles
      <4> QED BY <4>1, <4>3 DEF Steady
    <3> QED BY <3>1, <3>2
  <2> QED BY <1>1, <2>1, <2>2 DEF WriteLed, Others
<1>2. CASE WriteLedFails \/ OpenLedFails
  BY <1>2 DEF WriteLedFails, OpenLedFails, Others, Steady, Trigger
<1> QED BY <1>1, <1>2 DEF Writes

(* The writes the statuses are made of, one at a time.                     *)
LEMMA LightWrites ==
  ASSUME leds \in [Leds -> LedFiles], NEW l \in Leds, WriteLed
  PROVE  /\ NextFile = WriteTo(l, "brightness", "0") => Dark(l)'
         /\ NextFile = WriteTo(l, "brightness", "1") /\ Steady(l) => Lit(l)'
<1>1. ASSUME NextFile = WriteTo(l, "brightness", "0") PROVE Dark(l)'
  <2>1. leds' = [leds EXCEPT ![l] = [leds[l] EXCEPT !.brightness = "0", !.trigger = "none"]]
    BY <1>1, WriteOff DEF WriteLed
  <2> QED BY <2>1 DEF Dark, LedFiles
<1>2. ASSUME NextFile = WriteTo(l, "brightness", "1"), Steady(l) PROVE Lit(l)'
  <2>1. leds' = [leds EXCEPT ![l] = [leds[l] EXCEPT !["brightness"] = "1"]]
    BY <1>2, WriteOne DEF WriteLed
  <2>2. inherited' = inherited
    BY <1>2 DEF WriteLed, EndsTrigger, WriteTo
  <2> QED BY <1>2, <2>1, <2>2 DEF Lit, Steady, Trigger, LedFiles
<1> QED BY <1>1, <1>2

(* So do those of a blinking LED.                                          *)
LEMMA BlinkWrites ==
  ASSUME leds \in [Leds -> LedFiles], NEW l \in Leds, WriteLed
  PROVE  /\ NextFile = WriteTo(l, "trigger", "timer") => Trigger(l)' = "timer"
         /\ NextFile = WriteTo(l, "delay_on", "500") =>
              leds'[l].delay_on = "500" /\ Trigger(l)' = Trigger(l)
         /\ NextFile = WriteTo(l, "delay_off", "500") =>
              /\ leds'[l].delay_off = "500" /\ Trigger(l)' = Trigger(l)
              /\ leds'[l].delay_on = leds[l].delay_on
BY DEF LedFiles, SysfsWrite, WriteTo, Trigger, WriteLed

(* What a LED shows is not changed by writes to another.                   *)
LEMMA OthersShow ==
  ASSUME NEW l \in Leds, NEW m \in Leds \ {l}, Others(l)
  PROVE  /\ Steady(m) => Steady(m)'
         /\ Shows(m, Lit(m)) => Shows(m, Lit(m))'
         /\ Shows(m, Dark(m)) => Shows(m, Dark(m))'
         /\ Shows(m, Blinking(m)) => Shows(m, Blinking(m))'
BY DEF Others, Steady, Trigger, Shows, Lit, Dark, Blinking

(* The next write of each status shows a little more of it.                *)
LEMMA StartWrites ==
  ASSUME leds \in [Leds -> LedFiles], StartShown, Writes
  PROVE  StartShown'
<1>0. "GREEN" \in Leds \ {"RED"} /\ "RED" \in Leds \ {"GREEN"}
  BY DEF Leds
<1>1. CASE todo = << Bright("GREEN", "1"), Bright("RED", "1") >>
  <2>1. NextFile = WriteTo("GREEN", "brightness", "1")
        /\ (NextWrite \/ DropCall => todo' = << Bright("RED", "1") >>)
    BY <1>1, FirstCallTakes
  <2>2. NextFile.led = "GREEN" /\ NextFile.file = "brightness"
    BY <2>1 DEF WriteTo
  <2>3. Shows("GREEN", Lit("GREEN"))'
    BY <1>0, <2>1, <2>2, WriteEffects, LightWrites DEF StartShown, Shows
  <2> QED BY <1>0, <2>1, <2>2, <2>3, WriteEffects, OthersShow DEF StartShown
<1>2. CASE todo = << Bright("RED", "1") >> /\ Shows("GREEN", Lit("GREEN"))
  <2>1. NextFile = WriteTo("RED", "brightness", "1")
        /\ (NextWrite \/ DropCall => todo' = << >>)
    BY <1>2, CallTakes
  <2>2. NextFile.led = "RED" /\ NextFile.file = "brightness"
    BY <2>1 DEF WriteTo
  <2>3. Shows("RED", Lit("RED"))'
    BY <1>0, <2>1, <2>2, WriteEffects, LightWrites DEF StartShown, Shows
  <2> QED BY <1>0, <1>2, <2>1, <2>2, <2>3, WriteEffects, OthersShow DEF StartShown
<1> QED BY <1>1, <1>2 DEF StartShown, Writes, WriteLed, WriteLedFails, OpenLedFails

(* Likewise for NORMAL_OPERATION.                                          *)
LEMMA NormalWrites ==
  ASSUME leds \in [Leds -> LedFiles], NormalShown, Writes
  PROVE  NormalShown'
<1>0. "GREEN" \in Leds \ {"RED"} /\ "RED" \in Leds \ {"GREEN"}
  BY DEF Leds
<1>1. CASE todo = << Bright("GREEN", "1"), Bright("RED", "0") >>
  <2>1. NextFile = WriteTo("GREEN", "brightness", "1")
        /\ (NextWrite \/ DropCall => todo' = << Bright("RED", "0") >>)
    BY <1>1, FirstCallTakes
  <2>2. NextFile.led = "GREEN" /\ NextFile.file = "brightness"
    BY <2>1 DEF WriteTo
  <2>3. Shows("GREEN", Lit("GREEN"))'
    BY <1>0, <2>1, <2>2, WriteEffects, LightWrites DEF NormalShown, Shows
  <2> QED BY <1>0, <2>1, <2>2, <2>3, WriteEffects DEF NormalShown
<1>2. CASE todo = << Bright("RED", "0") >> /\ Shows("GREEN", Lit("GREEN"))
  <2>1. NextFile = WriteTo("RED", "brightness", "0")
        /\ (NextWrite \/ DropCall => todo' = << >>)
    BY <1>2, CallTakes
  <2>2. NextFile.led = "RED"
    BY <2>1 DEF WriteTo
  <2>3. Shows("RED", Dark("RED"))'
    BY <1>0, <2>1, <2>2, WriteEffects, LightWrites DEF Shows
  <2> QED BY <1>0, <1>2, <2>1, <2>2, <2>3, WriteEffects, OthersShow DEF NormalShown
<1> QED BY <1>1, <1>2 DEF NormalShown, Writes, WriteLed, WriteLedFails, OpenLedFails

(* OVER_TEMPERATURE puts the green LED out and sets the red one blinking.  *)
LEMMA HotWrites ==
  ASSUME leds \in [Leds -> LedFiles], HotShown, Writes
  PROVE  HotShown'
<1>0. "GREEN" \in Leds \ {"RED"} /\ "RED" \in Leds \ {"GREEN"}
  BY DEF Leds
<1>1. CASE todo = << Bright("GREEN", "0"), set_led_blinking("RED", "500", "500") >>
  <2>1. NextFile = WriteTo("GREEN", "brightness", "0")
        /\ (NextWrite \/ DropCall => todo' = << set_led_blinking("RED", "500", "500") >>)
    BY <1>1, FirstCallTakes
  <2>2. NextFile.led = "GREEN" /\ NextFile.file = "brightness"
    BY <2>1 DEF WriteTo
  <2>3. Shows("GREEN", Dark("GREEN"))'
    BY <1>0, <2>1, <2>2, WriteEffects, LightWrites DEF Shows
  <2> QED BY <1>0, <2>1, <2>2, <2>3, WriteEffects DEF HotShown
<1>2. ASSUME Shows("GREEN", Dark("GREEN")), NextFile.led = "RED"
      PROVE  Steady("GREEN")' /\ Shows("GREEN", Dark("GREEN"))' /\ (NextWrite \/ DropCall)
  BY <1>0, <1>2, WriteEffects, OthersShow DEF HotShown
<1>3. CASE Shows("GREEN", Dark("GREEN")) /\ todo = << set_led_blinking("RED", "500", "500") >>
  <2>1. /\ NextFile = WriteTo("RED", "trigger", "timer")
        /\ NextWrite => todo' = << BlinkRest("RED", "500", "500") >>
        /\ DropCall  => todo' = << >>
    BY <1>3, CallTakes
  <2>2. NextFile.led = "RED"
    BY <2>1 DEF WriteTo
  <2>3. /\ Shows("RED", Trigger("RED") = "timer")'
        /\ DropCall /\ ~NextWrite => Shows("RED", Blinking("RED"))'
    BY <1>0, <2>1, <2>2, WriteEffects, BlinkWrites DEF Shows
  <2> QED BY <1>2, <1>3, <2>1, <2>2, <2>3 DEF HotShown
<1>4. CASE /\ Shows("GREEN", Dark("GREEN")) /\ todo = << BlinkRest("RED", "500", "500") >>
           /\ Shows("RED", Trigger("RED") = "timer")
  <2>1. /\ NextFile = WriteTo("RED", "delay_on", "500")
        /\ NextWrite => todo' = << BlinkDelay("RED", "500") >>
        /\ DropCall  => todo' = << >>
    BY <1>4, CallTakes
  <2>2. NextFile.led = "RED"
    BY <2>1 DEF WriteTo
  <2>3. /\ Shows("RED", Trigger("RED") = "timer" /\ leds["RED"].delay_on = "500")'
        /\ DropCall /\ ~NextWrite => Shows("RED", Blinking("RED"))'
    BY <1>0, <1>4, <2>1, <2>2, WriteEffects, BlinkWrites DEF Shows
  <2> QED BY <1>2, <1>4, <2>1, <2>2, <2>3 DEF HotShown
<1>5. CASE /\ Shows("GREEN", Dark("GREEN")) /\ todo = << BlinkDelay("RED", "500") >>
           /\ Shows("RED", Trigger("RED") = "timer" /\ leds["RED"].delay_on = "500")
  <2>1. /\ NextFile = WriteTo("RED", "delay_off", "500")
        /\ NextWrite \/ DropCall => todo' = << >>
    BY <1>5, CallTakes
  <2>2. NextFile.led = "RED"
    BY <2>1 DEF WriteTo
  <2>3. Shows("RED", Blinking("RED"))'
    BY <1>0, <1>5, <2>1, <2>2, WriteEffects, BlinkWrites DEF Shows, Blinking, Trigger
  <2> QED BY <1>2, <1>5, <2>1, <2>2, <2>3 DEF HotShown
<1>6. todo # << >>
  BY DEF Writes, WriteLed, WriteLedFails, OpenLedFails
<1> QED BY <1>1, <1>3, <1>4, <1>5, <1>6 DEF HotShown

(* BACKLINGHT_OFF sets the green LED blinking and puts the red one out.    *)
LEMMA BacklightWrites ==
  ASSUME leds \in [Leds -> LedFiles], BacklightShown, Writes
  PROVE  BacklightShown'
<1>0. "GREEN" \in Leds \ {"RED"} /\ "RED" \in Leds \ {"GREEN"}
  BY DEF Leds
<1>1. CASE todo = << set_led_blinking("GREEN", "500", "500"), Bright("RED", "0") >>
  <2>1. /\ NextFile = WriteTo("GREEN", "trigger", "timer")
        /\ NextWrite => todo' = << BlinkRest("GREEN", "500", "500"), Bright("RED", "0") >>
        /\ DropCall  => todo' = << Bright("RED", "0") >>
    BY <1>1, FirstCallTakes
  <2>2. NextFile.led = "GREEN"
    BY <2>1 DEF WriteTo
  <2>3. /\ Shows("GREEN", Trigger("GREEN") = "timer")'
        /\ DropCall /\ ~NextWrite => Shows("GREEN", Blinking("GREEN"))'
    BY <1>0, <2>1, <2>2, WriteEffects, BlinkWrites DEF Shows
  <2> QED BY <1>0, <2>1, <2>2, <2>3, WriteEffects DEF BacklightShown
<1>2. CASE /\ todo = << BlinkRest("GREEN", "500", "500"), Bright("RED", "0") >>
           /\ Shows("GREEN", Trigger("GREEN") = "timer")
  <2>1. /\ NextFile = WriteTo("GREEN", "delay_on", "500")
        /\ NextWrite => todo' = << BlinkDelay("GREEN", "500"), Bright("RED", "0") >>
        /\ DropCall  => todo' = << Bright("RED", "0") >>
    BY <1>2, FirstCallTakes
  <2>2. NextFile.led = "GREEN"
    BY <2>1 DEF WriteTo
  <2>3. /\ Shows("GREEN", Trigger("GREEN") = "timer" /\ leds["GREEN"].delay_on = "500")'
        /\ DropCall /\ ~NextWrite => Shows("GREEN", Blinking("GREEN"))'
    BY <1>0, <1>2, <2>1, <2>2, WriteEffects, BlinkWrites DEF Shows
  <2> QED BY <1>0, <2>1, <2>2, <2>3, WriteEffects DEF BacklightShown
<1>3. CASE /\ todo = << BlinkDelay("GREEN", "500"), Bright("RED", "0") >>
           /\ Shows("GREEN", Trigger("GREEN") = "timer" /\ leds["GREEN"].delay_on = "500")
  <2>1. /\ NextFile = WriteTo("GREEN", "delay_off", "500")
        /\ NextWrite \/ DropCall => todo' = << Bright("RED", "0") >>
    BY <1>3, FirstCallTakes
  <2>2. NextFile.led = "GREEN"
    BY <2>1 DEF WriteTo
  <2>3. Shows("GREEN", Blinking("GREEN"))'
    BY <1>0, <1>3, <2>1, <2>2, WriteEffects, BlinkWrites DEF Shows, Blinking, Trigger
  <2> QED BY <1>0, <2>1, <2>2, <2>3, WriteEffects DEF BacklightShown
<1>4. CASE todo = << Bright("RED", "0") >> /\ Shows("GREEN", Blinking("GREEN"))
  <2>1. /\ NextFile = WriteTo("RED", "brightness", "0")
        /\ NextWrite \/ DropCall => todo' = << >>
    BY <1>4, CallTakes
  <2>2. NextFile.led = "RED"
    BY <2>1 DEF WriteTo
  <2>3. Shows("RED", Dark("RED"))'
    BY <1>0, <2>1, <2>2, WriteEffects, LightWrites DEF Shows
  <2> QED BY <1>0, <1>4, <2>1, <2>2, <2>3, WriteEffects, OthersShow DEF BacklightShown
<1>5. todo # << >>
  BY DEF Writes, WriteLed, WriteLedFails, OpenLedFails
<1> QED BY <1>1, <1>2, <1>3, <1>4, <1>5 DEF BacklightShown

(* The switch is entered with all calls made, and every way into a status  *)
(* leaves the LEDs so that its calls are enough to show it.                *)
LEMMA SwitchKeepsShown ==
  ASSUME led_info \in LED_INFO, NEW info \in LED_INFO, Switch(info), Shown, StatusFollows,
         info.last_sys_status = led_info.last_sys_status,
         \/ info.sys_status = led_info.sys_status
         \/ noArgs /\ info.sys_status \in {"NORMAL_OPERATION", "OVER_TEMPERATURE"},
         pc = "loop", todo = << >>, UNCHANGED <<pc, noArgs, leds, inherited>>
  PROVE  Shown' /\ StatusFollows'
<1>0. /\ info.sys_status \in Statuses /\ info.last_sys_status \in Statuses \cup {Unset}
      /\ led_info.sys_status \in Statuses
  BY DEF LED_INFO
<1>1. CASE info.sys_status = "DEBUG"
  <2>1. /\ led_info.sys_status = "DEBUG" /\ ~noArgs
        /\ led_info.last_sys_status = Unset
    BY <1>0, <1>1 DEF StatusFollows
  <2>2. led_info' = info \/ led_info' = [info EXCEPT !.last_mode = info.mode]
    BY <1>1 DEF Switch
  <2>3. led_info'.sys_status = "DEBUG" /\ led_info'.last_sys_status = Unset
    BY <1>1, <2>1, <2>2 DEF LED_INFO
  <2>4. Shown'
    BY <2>3 DEF Shown, Unset
  <2> QED BY <2>1, <2>3, <2>4 DEF StatusFollows
<1>2. CASE info.sys_status # "DEBUG" /\ info.last_sys_status = info.sys_status
  <2>1. led_info' = info /\ todo' = todo /\ failed' = failed
    BY <1>2 DEF Switch
  <2>2. StatusFollows'
    BY <1>2, <2>1 DEF StatusFollows
  <2>3. info.last_sys_status # Unset
    BY <1>0, <1>2 DEF Unset, Statuses
  <2>4. Shown'
    BY <2>1, <2>3 DEF Shown, StartShown, NormalShown, HotShown, BacklightShown, Steady,
       Trigger, Shows, Lit, Dark, Blinking
  <2> QED BY <2>2, <2>4
<1>3. CASE info.sys_status # "DEBUG" /\ info.last_sys_status # info.sys_status
  <2>1. /\ led_info' = [info EXCEPT !.last_sys_status = info.sys_status]
        /\ todo' = Display(info.sys_status) /\ failed' = {}
    BY <1>3 DEF Switch
  <2>2. led_info'.sys_status = info.sys_status /\ led_info'.last_sys_status = info.sys_status
    BY <2>1 DEF LED_INFO
  <2>3. StatusFollows'
    BY <1>3, <2>2 DEF StatusFollows
  <2>4. info.sys_status # Unset
    BY <1>0 DEF Unset, Statuses
  <2>5. Steady("GREEN")
    BY <1>0, <1>3 DEF Shown, StatusFollows, NormalShown, HotShown
  <2>6. Steady("RED") \/ info.sys_status \in {"NORMAL_OPERATION", "OVER_TEMPERATURE"}
    BY <1>0, <1>3 DEF Shown, StatusFollows, NormalShown, HotShown
  <2>7. CASE info.sys_status = "SYSTEM_START"
    <3>1. StartShown'
      BY <2>1, <2>5, <2>6, <2>7 DEF StartShown, Display, Steady, Trigger, Bright
    <3> QED BY <2>2, <2>3, <2>7, <3>1 DEF Shown, Unset
  <2>8. CASE info.sys_status = "NORMAL_OPERATION"
    <3>1. NormalShown'
      BY <2>1, <2>5, <2>8 DEF NormalShown, Display, Steady, Trigger, Bright
    <3> QED BY <2>2, <2>3, <2>8, <3>1 DEF Shown, Unset
  <2>9. CASE info.sys_status = "OVER_TEMPERATURE"
    <3>1. HotShown'
      BY <2>1, <2>5, <2>9 DEF HotShown, Display, Steady, Trigger, Bright
    <3> QED BY <2>2, <2>3, <2>9, <3>1 DEF Shown, Unset
  <2>10. CASE info.sys_status = "BACKLINGHT_OFF"
    <3>1. BacklightShown'
      BY <2>1, <2>10 DEF BacklightShown, Display, Bright
    <3> QED BY <2>2, <2>3, <2>10, <3>1 DEF Shown, Unset
  <2> QED BY <1>0, <1>3, <2>7, <2>8, <2>9, <2>10 DEF Statuses
<1> QED BY <1>1, <1>2, <1>3

(* The command line is read once, before any LED is written.               *)
LEMMA ArgumentsFollow ==
  ASSUME led_info = DefaultInfo, NEW info \in StatusArgument \cup LedArgument,
         TakePattern(info)
  PROVE  led_info'.last_sys_status = Unset
<1>1. info.last_sys_status = Unset
  BY DEF StatusArgument, LedArgument, DefaultInfo
<1>2. info \in LED_INFO
  BY ArgumentsAreInfos
<1> QED BY <1>1, <1>2 DEF TakePattern, LED_INFO

(* The invariant is kept: the actions in the order of the module.          *)
LEMMA LedStep == LedInv /\ [Next]_vars => LedInv'
<1> SUFFICES ASSUME LedInv, [Next]_vars PROVE LedInv'
  OBVIOUS
<1>0. TypeInv' /\ leds \in [Leds -> LedFiles] /\ led_info \in LED_INFO
  BY TypeStep DEF LedInv, TypeInv, TypeOK, LedFiles
<1> SUFFICES Shown' /\ StatusFollows'
  BY <1>0 DEF LedInv
<1> USE DEF LedInv
<1>1. CASE ParseNothing
  BY <1>1 DEF ParseNothing, Shown, StartShown, NormalShown, HotShown, BacklightShown,
     Steady, Trigger, Shows, Lit, Dark, Blinking, StatusFollows
<1>2. CASE ParseArguments
  <2>1. led_info'.last_sys_status = Unset
    BY <1>2, ArgumentsFollow DEF ParseArguments, StatusFollows
  <2>2. StatusFollows'
    BY <1>2, <2>1 DEF ParseArguments, StatusFollows
  <2>3. Steady("GREEN")' /\ Steady("RED")' /\ todo' = << >>
    BY <1>2 DEF ParseArguments, StatusFollows, Shown, Steady, Trigger, DefaultInfo, Unset
  <2>4. Shown'
    BY <2>1, <2>3 DEF Shown, Unset
  <2> QED BY <2>2, <2>4
<1>3. CASE ParseError
  BY <1>3 DEF ParseError, Shown, StartShown, NormalShown, HotShown, BacklightShown,
     Steady, Trigger, Shows, Lit, Dark, Blinking, StatusFollows, DefaultInfo
<1>4. ASSUME NEW raw \in Temps, PollSample(raw) PROVE Shown' /\ StatusFollows'
  <2> DEFINE status == IF Average(FilterSamples(raw)) > SYSTEM_OVER_TEMPERATURE
                       THEN "OVER_TEMPERATURE" ELSE "NORMAL_OPERATION"
             info   == [led_info EXCEPT !.sys_status = status]
  <2>1. Switch(info) /\ status \in {"NORMAL_OPERATION", "OVER_TEMPERATURE"}
    BY <1>4 DEF PollSample
  <2>2. /\ info \in LED_INFO /\ info.sys_status = status
        /\ info.last_sys_status = led_info.last_sys_status
    BY <1>0, <2>1 DEF LED_INFO, Statuses
  <2>3. /\ pc = "loop" /\ todo = << >> /\ noArgs
        /\ UNCHANGED <<pc, noArgs, leds, inherited>>
    BY <1>4 DEF PollSample, Detecting
  <2> HIDE DEF info, status
  <2> QED BY <1>0, <2>1, <2>2, <2>3, SwitchKeepsShown
<1>5. CASE PollNoSensor
  <2> DEFINE info   == [led_info EXCEPT !.sys_status = "NORMAL_OPERATION"]
  <2>1. Switch(info)
    BY <1>5 DEF PollNoSensor
  <2>2. /\ info \in LED_INFO /\ info.sys_status = "NORMAL_OPERATION"
        /\ info.last_sys_status = led_info.last_sys_status
    BY <1>0, <2>1 DEF LED_INFO, Statuses
  <2>3. /\ pc = "loop" /\ todo = << >> /\ noArgs
        /\ UNCHANGED <<pc, noArgs, leds, inherited>>
    BY <1>5 DEF PollNoSensor, Detecting
  <2> HIDE DEF info
  <2> QED BY <1>0, <2>1, <2>2, <2>3, SwitchKeepsShown
<1>6. CASE PollFixed
  BY <1>0, <1>6, SwitchKeepsShown DEF PollFixed
<1>7. CASE Writes
  <2>1. StatusFollows' /\ led_info' = led_info /\ todo # << >>
    BY <1>7 DEF Writes, WriteLed, WriteLedFails, OpenLedFails, StatusFollows
  <2>2. Shown'
    BY <1>0, <1>7, <2>1, StartWrites, NormalWrites, HotWrites, BacklightWrites DEF Shown
  <2> QED BY <2>1, <2>2
<1>8. CASE UNCHANGED vars
  BY <1>8 DEF vars, Shown, StartShown, NormalShown, HotShown, BacklightShown,
     Steady, Trigger, Shows, Lit, Dark, Blinking, StatusFollows
<1> QED BY <1>1, <1>2, <1>3, <1>4, <1>5, <1>6, <1>7, <1>8 DEF Next, Writes

(* Nothing is written before the command line is read.                     *)
LEMMA InitLedInv == Init => LedInv
<1> SUFFICES ASSUME Init PROVE LedInv
  OBVIOUS
<1>1. TodoShape /\ StatusFollows /\ Shown
  BY DEF Init, TodoShape, StatusFollows, Shown, Steady, Trigger, Leds, DefaultInfo, Unset
<1>2. led_info \in LED_INFO
  BY ValuesAssumption DEF Init, DefaultInfo, LED_INFO, Modes, Leds, Statuses, Unset
<1>3. leds \in [Leds -> LedFiles]
  BY FoundAssumption DEF Init
<1>4. /\ temp_value \in [Slots -> Temps \cup {0}]
      /\ streak \in [hot : 0 .. MAX_SLEEK_FILTER_COUNT + 1,
                    cool : 0 .. MAX_SLEEK_FILTER_COUNT + 1]
      /\ i \in 0 .. MAX_SLEEK_FILTER_COUNT
  BY DEF Init, MAX_SLEEK_FILTER_COUNT, Slots
<1>5. Len(todo) <= 2 /\ \A k \in DOMAIN todo : IsCall(todo[k])
  BY DEF Init
<1>6. TypeOK
  BY <1>2, <1>3, <1>4, <1>5 DEF Init, TypeOK
<1> QED BY <1>1, <1>6 DEF LedInv, TypeInv

(* So it holds in every reachable state.                                   *)
LEMMA AlwaysLedInv == Spec => []LedInv
BY InitLedInv, LedStep, PTL DEF Spec

(* Every value is of its type; what is queued is at most two sysfs calls.  *)
THEOREM AlwaysTyped == Spec => []TypeOK
<1>1. LedInv => TypeOK
  BY DEF LedInv, TypeInv
<1> QED BY <1>1, AlwaysLedInv, PTL

(* Between two passes each LED shows the status that was detected or asked *)
(* for, but for one a write of the last change to which failed; the calls  *)
(* of a status are enough after every status that can precede it, failed   *)
(* writes of that one included, and whatever sysfs held at the start.  A   *)
(* LED that is to be lit may keep a trigger it had before the program.     *)
THEOREM LedsAlwaysShowStatus == Spec => []LedsShowStatus
<1>1. LedInv => LedsShowStatus
  BY DEF LedInv, LedsShowStatus, Between, Shown, StartShown, NormalShown, HotShown,
     BacklightShown, Bright, Unset
<1> QED BY <1>1, AlwaysLedInv, PTL
=============================================================================
