--------------------------- MODULE ControllerInput ---------------------------
(***************************************************************************)
(* joycontrol: the buttons and sticks of the emulated controller, from the *)
(* commands that set them to the bytes of an input report.  A stick has    *)
(* two values of twelve bits; the positions of the stick command come from *)
(* the calibration in the controller's flash memory, and a report packs    *)
(* both values in three bytes.  The link that carries the reports is       *)
(* module JoyconLink.                                                      *)
(***************************************************************************)
EXTENDS Integers, Sequences

CONSTANTS
  Button,   \* names of buttons the user types
  Value,    \* numbers the user types
  Dump      \* flash dumps: the calibrations of both sticks in them

(* A calibration is nine bytes; that of the user may be missing.           *)
Byte == 0..255
NoData == <<>>
TwelveBits == 0..4095

ASSUME InputAssumption ==
  /\ Value \subseteq Int
  /\ Dump \subseteq [factory : [{"l", "r"} -> [1..9 -> Byte]],
                     user : [{"l", "r"} -> [1..9 -> Byte] \cup {NoData}]]

VARIABLES
  controller,    \* PRO_CONTROLLER, JOYCON_L or JOYCON_R
  calibration,   \* of the sticks
  stick,         \* StickState of each side: h and v
  bits,          \* the bits of _byte_1 to _byte_3 that are set
  held,          \* buttons the user has pressed and not released
  writer         \* _writer runs, or has died

vars == <<controller, calibration, stick, bits, held, writer>>

Side == {"l", "r"}
HasStick(side) ==
  \/ controller = "PRO_CONTROLLER"
  \/ controller = IF side = "l" THEN "JOYCON_L" ELSE "JOYCON_R"

-----------------------------------------------------------------------------
(* The calibration.  A definition whose name ends in Bug is a wrong        *)
(* version of the one that follows it, with which a property fails.        *)

Low(b, i) == (b[i + 1] % 16) * 256 + b[i]
High(b, i) == b[i + 2] * 16 + b[i + 1] \div 16

StickCalibration(b, center, above, below) ==
  [center |-> [h |-> Low(b, center), v |-> High(b, center)],
   above |-> [h |-> Low(b, above), v |-> High(b, above)],
   below |-> [h |-> Low(b, below), v |-> High(b, below)]]

(* The left and the right stick keep their nine bytes in another order.    *)
from_bytes(side, b) ==
  IF side = "l" THEN StickCalibration(b, 4, 1, 7) ELSE StickCalibration(b, 1, 7, 4)

(* FlashMemory without a dump.                                             *)
Blank ==
  [factory |-> [l |-> <<0, 7, 112, 0, 8, 128, 0, 7, 112>>,
                r |-> <<0, 8, 128, 0, 7, 112, 0, 7, 112>>],
   user |-> [side \in Side |-> NoData]]

Calibration(flash, side) ==
  from_bytes(side, IF flash.user[side] = NoData THEN flash.factory[side] ELSE flash.user[side])

Init ==
  /\ controller \in {"PRO_CONTROLLER", "JOYCON_L", "JOYCON_R"}
  /\ \E flash \in Dump \cup {Blank} :
       calibration = [side \in Side |-> Calibration(flash, side)]
  /\ stick = [side \in Side |-> calibration[side].center]
  /\ bits = {} /\ held = {}
  /\ writer = "running"

-----------------------------------------------------------------------------
(* Buttons.                                                                *)

Bit ==
  [y |-> <<1, 0>>, x |-> <<1, 1>>, b |-> <<1, 2>>, a |-> <<1, 3>>,
   r |-> <<1, 6>>, zr |-> <<1, 7>>,
   minus |-> <<2, 0>>, plus |-> <<2, 1>>, r_stick |-> <<2, 2>>, l_stick |-> <<2, 3>>,
   home |-> <<2, 4>>, capture |-> <<2, 5>>,
   down |-> <<3, 0>>, up |-> <<3, 1>>, right |-> <<3, 2>>, left |-> <<3, 3>>,
   l |-> <<3, 6>>, zl |-> <<3, 7>>]

available_buttons ==
  CASE controller = "PRO_CONTROLLER" -> DOMAIN Bit
    [] controller = "JOYCON_R" ->
         {"y", "x", "b", "a", "sr", "sl", "r", "zr", "plus", "r_stick", "home"}
    [] OTHER ->
         {"minus", "l_stick", "capture", "down", "up", "right", "left", "sr", "sl", "l", "zl"}

(* sr and sl are bits of the byte of the Joy-Con they are on.              *)
BitOf(button) ==
  CASE button = "sr" -> <<IF controller = "JOYCON_R" THEN 1 ELSE 3, 4>>
    [] button = "sl" -> <<IF controller = "JOYCON_R" THEN 1 ELSE 3, 5>>
    [] OTHER -> Bit[button]

(* The setter flips the bit unless it is as wanted.                        *)
set_button(button, pushed) ==
  /\ button \in available_buttons
  /\ bits' = IF (BitOf(button) \in bits) = pushed THEN bits
             ELSE (bits \ {BitOf(button)}) \cup ({BitOf(button)} \ bits)
  /\ held' = IF pushed THEN held \cup {button} ELSE held \ {button}
  /\ UNCHANGED <<controller, calibration, stick, writer>>

-----------------------------------------------------------------------------
(* Sticks.                                                                 *)

SetStick(side, position) ==
  /\ HasStick(side)
  /\ stick' = [stick EXCEPT ![side] = position]
  /\ UNCHANGED <<controller, calibration, bits, held, writer>>

set_center(side) == SetStick(side, calibration[side].center)

set_up(side) ==
  LET c == calibration[side]
  IN  SetStick(side, [h |-> c.center.h, v |-> c.center.v + c.above.v])

set_down(side) ==
  LET c == calibration[side]
  IN  SetStick(side, [h |-> c.center.h, v |-> c.center.v - c.below.v])

set_left(side) ==
  LET c == calibration[side]
  IN  SetStick(side, [h |-> c.center.h - c.below.h, v |-> c.center.v])

set_right(side) ==
  LET c == calibration[side]
  IN  SetStick(side, [h |-> c.center.h + c.above.h, v |-> c.center.v])

set_h_Bug(side, value) == SetStick(side, [h |-> value, v |-> stick[side].v])

set_h(side, value) ==
  /\ value \in TwelveBits
  /\ SetStick(side, [h |-> value, v |-> stick[side].v])

set_v(side, value) ==
  /\ value \in TwelveBits
  /\ SetStick(side, [h |-> stick[side].h, v |-> value])

-----------------------------------------------------------------------------
(* Reports.                                                                *)

(* Bitwise or of a number below 32 with a multiple of 16 below 256.        *)
Or(n, m) == IF n >= 16 /\ (m \div 16) % 2 = 1 THEN n - 16 + m ELSE n + m

(* StickState.__bytes__ asserts that its results are bytes: no negative    *)
(* value passes, nor a high v; a high h spills into the bits of v.         *)
Fits(p) == p.h >= 0 /\ p.v \in TwelveBits

Pack(p) == <<p.h % 256, Or(p.h \div 256, (p.v % 16) * 16), p.v \div 16>>

Unpack(b) == [h |-> b[1] + (b[2] % 16) * 256, v |-> b[2] \div 16 + b[3] * 16]

(* set_stick_status sends zeros for a stick the controller has not got.    *)
Generates == \A side \in Side : HasStick(side) => Fits(stick[side])

InputReport ==
  [buttons |-> bits,
   sticks |-> [side \in Side |-> IF HasStick(side) THEN Pack(stick[side]) ELSE <<0, 0, 0>>]]

(* The next report of the writer; one that cannot be made ends the task,   *)
(* and no more reports are sent.                                           *)
WriterStep ==
  /\ writer = "running"
  /\ writer' = IF Generates THEN "running" ELSE "dead"
  /\ UNCHANGED <<controller, calibration, stick, bits, held>>

-----------------------------------------------------------------------------
StickStep(side) ==
  \/ set_center(side)
  \/ set_up(side) \/ set_down(side) \/ set_left(side) \/ set_right(side)
  \/ \E value \in Value : set_h(side, value) \/ set_v(side, value)

Next ==
  \/ \E button \in Button, pushed \in BOOLEAN : set_button(button, pushed)
  \/ \E side \in Side : StickStep(side)
  \/ WriterStep

Spec == Init /\ [][Next]_vars

-----------------------------------------------------------------------------
(* The positions of the calibration are ones a report can say.  It holds   *)
(* of the factory's, nothing checks it of a dump's.                        *)
InRange(c) ==
  /\ \A axis \in {"h", "v"} :
       /\ c.center[axis] + c.above[axis] \in TwelveBits
       /\ c.center[axis] - c.below[axis] \in TwelveBits

(* The report says what was commanded (InputReport, StickState.__bytes__): *)
(* the console that decodes it finds the buttons held and no others, and   *)
(* every stick where it was set, none of the twelve bits in the other      *)
(* axis; and no stick command ends the writer.  This takes a calibration   *)
(* whose positions are in range.                                           *)
ReportIsTrue ==
  (\A side \in Side : InRange(calibration[side])) =>
    /\ writer = "running"
    /\ InputReport.buttons = {BitOf(button) : button \in held}
    /\ \A side \in Side :
         HasStick(side) => Unpack(InputReport.sticks[side]) = stick[side]
=============================================================================
