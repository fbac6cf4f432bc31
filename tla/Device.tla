------------------------------- MODULE Device -------------------------------
(***************************************************************************)
(* The device from a command to a pin: Mailbox with the GPIO endpoint's    *)
(* handler carried out call by call (gpio.c), the pins it drives, and the  *)
(* heartbeat task, which drives one of them too.                           *)
(*                                                                         *)
(* The pins and the calls of ESP-IDF's gpio driver are external: a pin has *)
(* an output latch and an output enable, a chip reset clears both,         *)
(* gpio_reset_pin clears the enable alone, and nothing can be set on a pin *)
(* that has no output (the code ignores the error).                        *)
(***************************************************************************)
EXTENDS Mailbox

CONSTANTS
  GPIO,         \* the endpoint id of gpio.c
  Pins,         \* the pins of the chip that are named by a command, and LED
  OutputPins,   \* those that have an output
  LED,          \* heartbeat.task.c: LED_GPIO
  GpioNumber    \* frame -> the pin its body names

ASSUME PinAssumption == /\ OutputPins \subseteq Pins /\ LED \in OutputPins
                        /\ GpioNumber \in [Frames -> Pins] /\ GPIO \in Endpoints

VARIABLES
  call,     \* the next call of writeLevel
  latch,    \* pin -> the level in its output latch
  enabled,  \* the pins whose output is enabled
  beat      \* the heartbeat task

devVars   == <<call, latch, enabled, beat>>
allVars   == <<vars, devVars>>

DeviceTypeOK ==
  /\ TypeOK
  /\ call \in {"reset", "direction", "level", "return"}
  /\ latch \in [Pins -> {"low", "high"}]
  /\ enabled \subseteq OutputPins
  /\ beat \in {"direction", "look", "blink"}

DeviceInit ==
  /\ Init
  /\ call = "reset" /\ latch = [p \in Pins |-> "low"] /\ enabled = {}
  /\ beat = "direction"

-----------------------------------------------------------------------------
(* vMessageHandler.                                                        *)

\* The frames of GPIO_SET_HIGH and GPIO_SET_LOW; GPIO_SET_INPUT and GPIO_RESET only log.
Writes   == {f \in Frames : f.endpointId = GPIO /\ f.messageType \in {2, 3}}
Level(f) == IF f.messageType = 2 THEN "high" ELSE "low"

\* What the handler is working on.
Current == contents[epMessage[GPIO]]

InHandler == up /\ epPc[GPIO] = "handle"

\* gpio_reset_pin disables the output (and selects the pad, which gpio_pad_select_gpio
\* does again).
ResetPin ==
  /\ InHandler /\ call = "reset" /\ Current \in Writes
  /\ enabled' = enabled \ {GpioNumber[Current]}
  /\ call' = "direction"
  /\ UNCHANGED <<vars, latch, beat>>

\* mutant: gpio_set_direction is left out
SetDirectionForgotten ==
  /\ InHandler /\ call = "direction"
  /\ call' = "level"
  /\ UNCHANGED <<vars, latch, enabled, beat>>

SetDirection ==
  /\ InHandler /\ call = "direction"
  /\ enabled' = enabled \cup ({GpioNumber[Current]} \cap OutputPins)
  /\ call' = "level"
  /\ UNCHANGED <<vars, latch, beat>>

\* mutant: an output is set to the opposite level
SetLevelInverted ==
  /\ InHandler /\ call = "level"
  /\ latch' = [latch EXCEPT ![GpioNumber[Current]] =
                 IF GpioNumber[Current] \in OutputPins /\ Level(Current) = "low" THEN "high" ELSE "low"]
  /\ call' = "return"
  /\ UNCHANGED <<vars, enabled, beat>>

SetLevel ==
  /\ InHandler /\ call = "level"
  /\ latch' = [latch EXCEPT ![GpioNumber[Current]] =
                 IF GpioNumber[Current] \in OutputPins THEN Level(Current) ELSE @]
  /\ call' = "return"
  /\ UNCHANGED <<vars, enabled, beat>>

\* The type and the pin of a message nobody wrote are whatever the memory held.
WriteWild ==
  /\ InHandler /\ call = "reset" /\ Current = Junk
  /\ \E p \in OutputPins, l \in {"low", "high"} : latch' = [latch EXCEPT ![p] = l] /\ enabled' = enabled \cup {p}
  /\ call' = "return"
  /\ UNCHANGED <<vars, beat>>

\* The rest of the endpoint task: Mailbox, where Handle waits for writeLevel to return.
Endpoint(e) ==
  /\ EndpointTask(e)
  /\ e = GPIO /\ epPc[e] = "handle" /\ Current \in Writes => call = "return"
  /\ call' = IF e = GPIO THEN "reset" ELSE call
  /\ UNCHANGED <<latch, enabled, beat>>

GpioTask == ResetPin \/ SetDirection \/ SetLevel \/ WriteWild \/ Endpoint(GPIO)

-----------------------------------------------------------------------------
(* vTaskHeartbeat.                                                         *)

\* mutant: the direction of the LED's pin is not set
DriveLedForgotten ==
  /\ up /\ beat = "direction"
  /\ beat' = "look"
  /\ UNCHANGED <<vars, call, latch, enabled>>

DriveLed ==
  /\ up /\ beat = "direction"
  /\ enabled' = enabled \cup {LED}
  /\ beat' = "look"
  /\ UNCHANGED <<vars, call, latch>>

\* The LED is lit, by blinkTimes when the server bit is set; the bit may be either.
Light ==
  /\ up /\ beat = "look"
  /\ latch' = [latch EXCEPT ![LED] = "high"]
  /\ beat' \in {"look", "blink"}
  /\ UNCHANGED <<vars, call, enabled>>

BlinkOff ==
  /\ up /\ beat = "blink"
  /\ latch' = [latch EXCEPT ![LED] = "low"]
  /\ beat' = "look"
  /\ UNCHANGED <<vars, call, enabled>>

Heartbeat == DriveLed \/ Light \/ BlinkOff

-----------------------------------------------------------------------------
WebsocketSide ==
  /\ WebsocketTask \/ (\E f \in Frames : Receive(f)) \/ Fault
  /\ UNCHANGED devVars

\* The chip starts again with the device's tasks.
RebootDevice ==
  /\ Reboot
  /\ call' = "reset" /\ latch' = [p \in Pins |-> "low"] /\ enabled' = {}
  /\ beat' = "direction"

DeviceNext ==
  \/ WebsocketSide
  \/ GpioTask
  \/ \E e \in Endpoints \ {GPIO} : Endpoint(e)
  \/ Heartbeat
  \/ RebootDevice

DeviceSpec ==
  /\ DeviceInit /\ [][DeviceNext]_allVars
  /\ WF_allVars(GpioTask) /\ WF_allVars(Heartbeat) /\ WF_allVars(RebootDevice)

-----------------------------------------------------------------------------
(* Commands, as this device implements it.                                 *)

\* The handler has begun to write the pin of f, or the pin p; it has carried f out.
Begun(f)   == epPc[GPIO] = "handle" /\ Current = f /\ call # "reset"
Moving(p)  == /\ epPc[GPIO] = "handle" /\ call \in {"direction", "level"}
              /\ GpioNumber[Current] = p
Carried(f) == handled[f] # 0 \/ (Begun(f) /\ call = "return")

PinLevel(p) == IF Moving(p) THEN "moving" ELSE IF p \in enabled THEN latch[p] ELSE "off"

StatusOf(f) ==
  IF f \notin arrived THEN "new"
  ELSE IF replies[f] # <<>>
       THEN IF replies[f][1] = ERR_NOT_ENOUGH_MEMORY THEN "refused" ELSE "answered"
  ELSE IF f \notin inflight THEN "lost"
  ELSE IF f \in starved THEN "broken"
  ELSE IF Carried(f) THEN "done"
  ELSE IF Begun(f) THEN "moving" ELSE "sent"

StatusNow  == [f \in Frames |-> StatusOf(f)]
PinNow     == [p \in Pins \ {LED} |-> PinLevel(p)]
LevelShown == [f \in Frames |-> IF GpioNumber[f] \in OutputPins THEN Level(f) ELSE "off"]

Abstract == INSTANCE Commands WITH
  Mine <- {f \in Frames : f.endpointId = GPIO}, Writes <- Writes, Pins <- Pins \ {LED},
  PinOf <- GpioNumber, LevelOf <- LevelShown, status <- StatusNow, pin <- PinNow

\* To a server that waits for each answer, the mailbox, its two tasks and the heap behave
\* as Commands says: a command is carried out at most once, only when it is for the GPIO
\* endpoint, its pin has its level before it is answered, and no other pin moves
\* (communication.task.c:77-100, mailbox.c:9-19, gpio.c:29-73).
ImplementsCommands == Abstract!Spec

\* Once the heartbeat has made the LED's pin an output (heartbeat.task.c:25) the pin is
\* dark only between gpio_reset_pin and gpio_set_direction of a command that names it
\* (gpio.c:31-33): at no other time is a blink lost.
LedDarkOnlyInWrite ==
  beat # "direction" /\ LED \notin enabled =>
    epPc[GPIO] = "handle" /\ call = "direction" /\ GpioNumber[Current] = LED

\* Whatever the commands do to its pin, the LED is lit again and again: the heartbeat
\* enables the output once (heartbeat.task.c:24-25), writeLevel disables it (gpio.c:31).
LedLives == []<>(LED \in enabled /\ latch[LED] = "high")
=============================================================================
