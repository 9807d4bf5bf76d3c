--------------------------- MODULE ProgramsProofs ---------------------------
(***************************************************************************)
(* Three small components, for every value of the constants.               *)
(*                                                                         *)
(* ControllerInput: what a report says of buttons and sticks is what was   *)
(* commanded (ReportIsTrue).  Bits are those of the buttons held, since no *)
(* two buttons of a controller share one; and a stick whose calibration is *)
(* in range stays in twelve bits, which Pack and Unpack preserve.          *)
(*                                                                         *)
(* VisionPort, GamepadPort: answers reach the callers that asked           *)
(* (OwnAnswer), because what is asked, printed and queued stays sorted and *)
(* the same calls are queued and to be answered; and events meet the       *)
(* mapping of their controller (EventsMapped), because news and events     *)
(* stay in order.                                                          *)
(***************************************************************************)
EXTENDS MCPrograms, FiniteSetTheorems, TLAPS

Position == [h : Int, v : Int]
Reach == [h : TwelveBits, v : TwelveBits]
Ranges == [center : Reach, above : Reach, below : Reach]
Controllers == {"PRO_CONTROLLER", "JOYCON_L", "JOYCON_R"}

AllInRange == \A side \in Side : InRange(calibration[side])

IInv ==
  /\ controller \in Controllers
  /\ calibration \in [Side -> Ranges]
  /\ stick \in [Side -> Position]
  /\ held \subseteq available_buttons
  /\ bits = {BitOf(button) : button \in held}
  /\ AllInRange => writer = "running" /\ \A side \in Side : stick[side] \in Reach

-----------------------------------------------------------------------------
(* Twelve bits of two bytes.                                               *)
LEMMA TwoBytes ==
  ASSUME NEW x \in Byte, NEW y \in Byte
  PROVE  (y % 16) * 256 + x \in TwelveBits /\ y * 16 + x \div 16 \in TwelveBits
BY DEF Byte, TwelveBits

(* The three bytes of a calibration's pair hold twice twelve bits.         *)
LEMMA CalibrationBits ==
  ASSUME NEW b \in [1..9 -> Byte], NEW i \in {1, 4, 7}
  PROVE  Low(b, i) \in TwelveBits /\ High(b, i) \in TwelveBits
<1>1. b[i] \in Byte /\ b[i + 1] \in Byte /\ b[i + 2] \in Byte
  OBVIOUS
<1> QED BY <1>1, TwoBytes DEF Low, High

(* Every value of a calibration read from nine bytes has twelve bits.       *)
LEMMA CalibrationType ==
  ASSUME NEW side \in Side, NEW b \in [1..9 -> Byte]
  PROVE  from_bytes(side, b) \in Ranges
<1>1. \A i \in {1, 4, 7} : [h |-> Low(b, i), v |-> High(b, i)] \in Reach
  BY CalibrationBits DEF Reach
<1>2. StickCalibration(b, 4, 1, 7) \in Ranges /\ StickCalibration(b, 1, 7, 4) \in Ranges
  BY <1>1 DEF StickCalibration, Ranges
<1> QED BY <1>2 DEF from_bytes

(* Or puts two nibbles together.                                          *)
LEMMA Nibbles ==
  ASSUME NEW h \in TwelveBits, NEW v \in TwelveBits
  PROVE  Or(h \div 256, (v % 16) * 16) = h \div 256 + (v % 16) * 16
<1>1. h \div 256 \in 0..15
  BY DEF TwelveBits
<1> QED BY <1>1 DEF Or, TwelveBits

(* The three bytes of a stick hold the twelve bits of both its values.     *)
LEMMA Bytes ==
  ASSUME NEW h \in TwelveBits, NEW v \in TwelveBits
  PROVE  /\ (h % 256) + ((h \div 256 + (v % 16) * 16) % 16) * 256 = h
         /\ (h \div 256 + (v % 16) * 16) \div 16 + (v \div 16) * 16 = v
BY DEF TwelveBits

(* A console that decodes the three bytes of a stick finds both values.    *)
LEMMA RoundTrip ==
  ASSUME NEW p \in Reach
  PROVE  Unpack(Pack(p)) = p /\ Fits(p)
<1>1. p.h \in TwelveBits /\ p.v \in TwelveBits
  BY DEF Reach
<1>2. Pack(p) = <<p.h % 256, p.h \div 256 + (p.v % 16) * 16, p.v \div 16>>
  BY <1>1, Nibbles DEF Pack
<1>3. Unpack(Pack(p)) = [h |-> p.h, v |-> p.v]
  BY <1>1, <1>2, Bytes DEF Unpack
<1>4. \A n \in TwelveBits : n >= 0
  BY DEF TwelveBits
<1>5. p = [h |-> p.h, v |-> p.v]
  BY DEF Reach
<1>6. Fits(p)
  BY <1>1, <1>4, Zenon DEF Fits
<1> QED BY <1>3, <1>5, <1>6

(* No two buttons of one controller share a bit.                           *)
LEMMA OwnBits ==
  ASSUME controller \in Controllers,
         NEW a \in available_buttons, NEW b \in available_buttons, BitOf(a) = BitOf(b)
  PROVE  a = b
<1>1. CASE controller = "PRO_CONTROLLER"
  BY <1>1 DEF available_buttons, BitOf, Bit
<1>2. CASE controller = "JOYCON_R"
  BY <1>2 DEF available_buttons, BitOf, Bit
<1>3. CASE controller = "JOYCON_L"
  BY <1>3 DEF available_buttons, BitOf, Bit
<1> QED BY <1>1, <1>2, <1>3 DEF Controllers

(* The controller begins with nothing held and its sticks in the centre.    *)
LEMMA InitInvariant == Init => IInv
<1> SUFFICES ASSUME Init PROVE IInv
  OBVIOUS
<1>1. PICK flash \in Dump \cup {Blank} :
        calibration = [side \in Side |-> Calibration(flash, side)]
  BY DEF Init
<1>2. \A side \in Side : flash.factory[side] \in [1..9 -> Byte]
                         /\ flash.user[side] \in [1..9 -> Byte] \cup {NoData}
  <2>1. CASE flash \in Dump
    BY <2>1, InputAssumption DEF Side
  <2>2. CASE flash = Blank
    <3>1. Blank.factory["l"] \in [1..9 -> Byte] /\ Blank.factory["r"] \in [1..9 -> Byte]
      <4> DEFINE l == <<0, 7, 112, 0, 8, 128, 0, 7, 112>>
                 r == <<0, 8, 128, 0, 7, 112, 0, 7, 112>>
      <4>1. Blank.factory["l"] = l /\ Blank.factory["r"] = r
        BY DEF Blank
      <4>2. l \in [1..9 -> Byte]
        BY SMTT(30) DEF Byte
      <4>3. r \in [1..9 -> Byte]
        BY SMTT(30) DEF Byte
      <4> HIDE DEF l, r
      <4> QED BY <4>1, <4>2, <4>3
    <3>2. \A side \in Side : Blank.user[side] = NoData
      BY DEF Blank
    <3> QED BY <2>2, <3>1, <3>2 DEF Side
  <2> QED BY <2>1, <2>2
<1>3. calibration \in [Side -> Ranges]
  BY <1>1, <1>2, CalibrationType DEF Calibration
<1>4. stick \in [Side -> Reach]
  BY <1>3 DEF Init, Ranges
<1>5. TwelveBits \subseteq Int
  BY DEF TwelveBits
<1>6. stick \in [Side -> Position]
  BY <1>4, <1>5 DEF Reach, Position
<1> QED BY <1>3, <1>4, <1>6 DEF Init, IInv, Controllers

-----------------------------------------------------------------------------
(* A stick that is set to a position which is in twelve bits whenever the  *)
(* calibration is in range keeps the invariant.                            *)
LEMMA StickKept ==
  ASSUME IInv, NEW side \in Side, NEW p \in Position, SetStick(side, p),
         AllInRange => p \in Reach
  PROVE  IInv'
<1>1. stick' = [stick EXCEPT ![side] = p]
  BY DEF SetStick
<1>2. stick' \in [Side -> Position]
  BY <1>1 DEF IInv
<1>3. AllInRange' <=> AllInRange
  BY Zenon DEF SetStick, AllInRange
<1>4. AllInRange => \A s \in Side : stick'[s] \in Reach
  BY <1>1 DEF IInv
<1>5. /\ held' \subseteq available_buttons'
      /\ bits' = {BitOf(button) : button \in held}'
  BY DEF IInv, SetStick, available_buttons, BitOf
<1> QED BY <1>2, <1>3, <1>4, <1>5 DEF IInv, SetStick

(* The calibrated positions are in twelve bits when they are in range.     *)
LEMMA Positions ==
  ASSUME NEW c \in Ranges
  PROVE  /\ c.center \in Reach /\ c.center \in Position
         /\ [h |-> c.center.h, v |-> c.center.v + c.above.v] \in Position
         /\ [h |-> c.center.h, v |-> c.center.v - c.below.v] \in Position
         /\ [h |-> c.center.h - c.below.h, v |-> c.center.v] \in Position
         /\ [h |-> c.center.h + c.above.h, v |-> c.center.v] \in Position
         /\ InRange(c) =>
              /\ [h |-> c.center.h, v |-> c.center.v + c.above.v] \in Reach
              /\ [h |-> c.center.h, v |-> c.center.v - c.below.v] \in Reach
              /\ [h |-> c.center.h - c.below.h, v |-> c.center.v] \in Reach
              /\ [h |-> c.center.h + c.above.h, v |-> c.center.v] \in Reach
<1>1. /\ c.center \in Reach
      /\ c.center.h \in TwelveBits /\ c.center.v \in TwelveBits
      /\ c.above.h \in TwelveBits /\ c.above.v \in TwelveBits
      /\ c.below.h \in TwelveBits /\ c.below.v \in TwelveBits
  BY DEF Ranges, Reach
<1>2. \A m \in TwelveBits, n \in TwelveBits : m \in Int /\ m + n \in Int /\ m - n \in Int
  BY DEF TwelveBits
<1>3. c.center \in Position
  BY <1>1, <1>2 DEF Reach, Position
<1>4. InRange(c) =>
        /\ c.center.h + c.above.h \in TwelveBits /\ c.center.v + c.above.v \in TwelveBits
        /\ c.center.h - c.below.h \in TwelveBits /\ c.center.v - c.below.v \in TwelveBits
  BY Zenon DEF InRange
<1> QED BY <1>1, <1>2, <1>3, <1>4 DEF Reach, Position

LEMMA StepInvariant == IInv /\ [Next]_vars => IInv'
<1> SUFFICES ASSUME IInv, [Next]_vars PROVE IInv'
  OBVIOUS
<1>1. ASSUME NEW button \in Button, NEW pushed \in BOOLEAN, set_button(button, pushed)
      PROVE  IInv'
  <2>1. AllInRange' <=> AllInRange
    BY <1>1, Zenon DEF set_button, AllInRange
  <2>2. held' \subseteq available_buttons'
    BY <1>1 DEF IInv, set_button, available_buttons
  <2>3. BitOf(button) \in bits <=> button \in held
    BY <1>1, OwnBits, Zenon DEF IInv, set_button
  <2>4. bits' = {BitOf(b) : b \in held'}
    <3>1. CASE pushed
      <4>1. bits' = bits \cup {BitOf(button)}
        BY <1>1, <3>1 DEF set_button
      <4>2. held' = held \cup {button}
        BY <1>1, <3>1 DEF set_button
      <4> QED BY <4>1, <4>2, Zenon DEF IInv
    <3>2. CASE ~pushed
      <4>1. bits' = bits \ {BitOf(button)}
        BY <1>1, <3>2 DEF set_button
      <4>2. held' = held \ {button}
        BY <1>1, <3>2 DEF set_button
      <4>3. \A b \in held : BitOf(b) = BitOf(button) <=> b = button
        BY <1>1, OwnBits, Zenon DEF IInv, set_button
      <4> QED BY <4>1, <4>2, <4>3, Zenon DEF IInv
    <3> QED BY <3>1, <3>2
  <2>5. bits' = {BitOf(b) : b \in held}'
    BY <1>1, <2>4 DEF set_button, BitOf
  <2> QED BY <1>1, <2>1, <2>2, <2>5 DEF IInv, set_button
<1>2. ASSUME NEW side \in Side, StickStep(side) PROVE IInv'
  <2> DEFINE c == calibration[side]
  <2>1. c \in Ranges /\ (AllInRange => InRange(c))
    BY <1>2 DEF IInv, AllInRange
  <2>2. CASE set_center(side)
    BY <2>1, <2>2, Positions, StickKept, Zenon DEF set_center
  <2>3. CASE set_up(side)
    BY <2>1, <2>3, Positions, StickKept, Zenon DEF set_up
  <2>4. CASE set_down(side)
    BY <2>1, <2>4, Positions, StickKept, Zenon DEF set_down
  <2>5. CASE set_left(side)
    BY <2>1, <2>5, Positions, StickKept, Zenon DEF set_left
  <2>6. CASE set_right(side)
    BY <2>1, <2>6, Positions, StickKept, Zenon DEF set_right
  <2>7. ASSUME NEW value \in TwelveBits
        PROVE  /\ [h |-> value, v |-> stick[side].v] \in Position
               /\ [h |-> stick[side].h, v |-> value] \in Position
               /\ AllInRange => [h |-> value, v |-> stick[side].v] \in Reach
               /\ AllInRange => [h |-> stick[side].h, v |-> value] \in Reach
    <3>1. value \in Int
      BY DEF TwelveBits
    <3>2. stick[side].h \in Int /\ stick[side].v \in Int
      BY DEF IInv, Position
    <3>3. AllInRange => stick[side].h \in TwelveBits /\ stick[side].v \in TwelveBits
      BY DEF IInv, Reach
    <3> QED BY <3>1, <3>2, <3>3 DEF Position, Reach
  <2>8. CASE \E value \in Value : set_h(side, value) \/ set_v(side, value)
    <3>1. PICK value : set_h(side, value) \/ set_v(side, value)
      BY <2>8
    <3>2. value \in TwelveBits
      BY <3>1 DEF set_h, set_v
    <3>3. CASE set_h(side, value)
      BY <3>2, <3>3, <2>7, StickKept, Zenon DEF set_h
    <3>4. CASE set_v(side, value)
      BY <3>2, <3>4, <2>7, StickKept, Zenon DEF set_v
    <3> QED BY <3>1, <3>3, <3>4
  <2> QED BY <1>2, <2>2, <2>3, <2>4, <2>5, <2>6, <2>8, Zenon DEF StickStep
<1>3. ASSUME WriterStep PROVE IInv'
  <2>1. AllInRange => Generates
    BY RoundTrip DEF IInv, Generates
  <2>2. AllInRange' <=> AllInRange
    BY <1>3, Zenon DEF WriterStep, AllInRange
  <2>3. bits' = {BitOf(b) : b \in held}' /\ held' \subseteq available_buttons'
    BY <1>3 DEF IInv, WriterStep, BitOf, available_buttons
  <2> QED BY <1>3, <2>1, <2>2, <2>3 DEF IInv, WriterStep
<1>4. CASE UNCHANGED vars
  <2>1. AllInRange' <=> AllInRange
    BY <1>4, Zenon DEF vars, AllInRange
  <2>2. bits' = {BitOf(b) : b \in held}' /\ held' \subseteq available_buttons'
    BY <1>4 DEF IInv, vars, BitOf, available_buttons
  <2> QED BY <1>4, <2>1, <2>2 DEF IInv, vars
<1> QED BY <1>1, <1>2, <1>3, <1>4, Zenon DEF Next

-----------------------------------------------------------------------------
(* The inductive invariant: types, the bits of the buttons held, and, as   *)
(* long as the calibration is in range, sticks in twelve bits and a writer *)
(* that lives.                                                             *)
THEOREM InputInductive == Spec => []IInv
BY InitInvariant, StepInvariant, PTL DEF Spec

(* What the console reads in a report is what was commanded                *)
(* (ControllerState, InputReport), for every flash dump and whatever is    *)
(* typed in which order.                                                   *)
THEOREM ReportsAreTrue == Spec => []ReportIsTrue
<1>1. IInv => ReportIsTrue
  <2> SUFFICES ASSUME IInv, AllInRange PROVE
        /\ writer = "running"
        /\ InputReport.buttons = {BitOf(button) : button \in held}
        /\ \A side \in Side :
             HasStick(side) => Unpack(InputReport.sticks[side]) = stick[side]
    BY Zenon DEF ReportIsTrue, AllInRange
  <2>1. InputReport.buttons = {BitOf(button) : button \in held}
    BY DEF IInv, InputReport
  <2>2. ASSUME NEW side \in Side, HasStick(side)
        PROVE  Unpack(InputReport.sticks[side]) = stick[side]
    <3>1. InputReport.sticks[side] = Pack(stick[side])
      BY <2>2 DEF InputReport
    <3>2. stick[side] \in Reach
      BY DEF IInv
    <3> QED BY <3>1, <3>2, RoundTrip
  <2> QED BY <2>1, <2>2 DEF IInv
<1> QED BY <1>1, InputInductive, PTL

-----------------------------------------------------------------------------
(* vision: commands, lines and callers of a port.                          *)
Asked == [number : Nat, kind : V!Call \cup V!Cast]
Printed == [number : Nat, kind : V!Call \cup V!Cast, text : {"Success", "Error", "None", "Data"}]
Queued == [number : Nat, caller : Caller]

VisionTypes ==
  /\ commands \in Nat /\ astray \in BOOLEAN
  /\ visionProgram \in {"running", "exited", "down"}
  /\ stdin \in Seq(Asked) /\ stdout \in Seq(Printed) /\ callers \in Seq(Queued)

(* An image that was captured is nobody's answer.                          *)
Silent == \A i \in DOMAIN stdout : stdout[i].text = "Success" => ~V!IsAnswer(stdout[i])

NothingLeft ==
  visionProgram = "down" => ~astray /\ callers = <<>> /\ stdin = <<>> /\ stdout = <<>>

Of(s) == {s[i].number : i \in DOMAIN s}
UpTo(n, s) == \A i \in DOMAIN s : s[i].number <= n
Before(s, t) == \A i \in DOMAIN s, j \in DOMAIN t : s[i].number < t[j].number

Sorted ==
  /\ V!Increasing(callers) /\ V!Increasing(stdout) /\ V!Increasing(stdin)
  /\ Before(stdout, stdin)
  /\ UpTo(commands, callers) /\ UpTo(commands, stdout) /\ UpTo(commands, stdin)

Matched == Of(callers) = V!Numbers(stdout) \cup V!Numbers(stdin)

VisionInv ==
  /\ VisionTypes /\ Silent /\ NothingLeft
  /\ visionProgram = "running" => Sorted /\ (astray \/ Matched)

-----------------------------------------------------------------------------
(* Appending to a sequence.                                                *)
LEMMA Appended ==
  ASSUME NEW S, NEW s \in Seq(S), NEW e \in S
  PROVE  /\ Append(s, e) \in Seq(S)
         /\ V!Numbers(Append(s, e))
              = V!Numbers(s) \cup (IF V!IsAnswer(e) THEN {e.number} ELSE {})
         /\ Of(Append(s, e)) = Of(s) \cup {e.number}
<1> DEFINE t == Append(s, e)
<1>1. /\ t \in Seq(S) /\ DOMAIN t = 1..(Len(s) + 1) /\ DOMAIN s = 1..Len(s)
      /\ \A i \in DOMAIN s : t[i] = s[i]
      /\ t[Len(s) + 1] = e /\ Len(s) \in Nat
  OBVIOUS
<1>2. DOMAIN t = DOMAIN s \cup {Len(s) + 1}
  BY <1>1
<1> HIDE DEF t
<1>3. Of(t) = Of(s) \cup {e.number}
  BY <1>1, <1>2 DEF Of
<1>4. V!Numbers(t) = V!Numbers(s) \cup (IF V!IsAnswer(e) THEN {e.number} ELSE {})
  BY <1>1, <1>2 DEF V!Numbers
<1> QED BY <1>1, <1>3, <1>4 DEF t

(* It stays sorted when what comes is larger.                              *)
LEMMA AppendedSorted ==
  ASSUME NEW S, NEW s \in Seq(S), NEW e \in S, V!Increasing(s),
         \A i \in DOMAIN s : s[i].number < e.number
  PROVE  V!Increasing(Append(s, e))
<1>1. /\ DOMAIN Append(s, e) = 1..(Len(s) + 1) /\ DOMAIN s = 1..Len(s)
      /\ \A i \in DOMAIN s : Append(s, e)[i] = s[i]
      /\ Append(s, e)[Len(s) + 1] = e /\ Len(s) \in Nat
  OBVIOUS
<1> QED BY <1>1 DEF V!Increasing

(* What is left when the first n are gone.                                 *)
LEMMA LeftOver ==
  ASSUME NEW S, NEW s \in Seq(S), NEW n \in DOMAIN s
  PROVE  LET t == SubSeq(s, n + 1, Len(s))
         IN  /\ t \in Seq(S)
             /\ DOMAIN t = 1..(Len(s) - n)
             /\ \A i \in DOMAIN t : i + n \in DOMAIN s /\ t[i] = s[i + n]
             /\ \A i \in DOMAIN s : i > n => i - n \in DOMAIN t /\ t[i - n] = s[i]
<1> DEFINE t == SubSeq(s, n + 1, Len(s))
<1>1. n \in 1..Len(s) /\ Len(s) \in Nat
  OBVIOUS
<1>2. t \in Seq(S) /\ Len(t) = Len(s) - n
  BY <1>1
<1>3. DOMAIN t = 1..(Len(s) - n)
  BY <1>2
<1>4. \A i \in DOMAIN t : i + n \in DOMAIN s /\ t[i] = s[i + n]
  BY SMTT(30), <1>1, <1>3
<1>5. \A i \in DOMAIN s : i > n => i - n \in DOMAIN t /\ t[i - n] = s[i]
  BY SMTT(30), <1>1, <1>3, <1>4
<1> QED BY <1>2, <1>3, <1>4, <1>5

(* It is sorted, and all of it comes after the first.                      *)
LEMMA LeftSorted ==
  ASSUME NEW s \in Seq(Printed), NEW n \in DOMAIN s, V!Increasing(s)
  PROVE  LET t == SubSeq(s, n + 1, Len(s))
         IN  V!Increasing(t) /\ \A i \in DOMAIN t : s[1].number < t[i].number
<1> DEFINE t == SubSeq(s, n + 1, Len(s))
<1>1. n \in 1..Len(s) /\ Len(s) \in Nat /\ DOMAIN s = 1..Len(s)
  OBVIOUS
<1>2. /\ DOMAIN t = 1..(Len(s) - n)
      /\ \A i \in DOMAIN t : i + n \in DOMAIN s /\ t[i] = s[i + n]
  BY LeftOver
<1> HIDE DEF t
<1>3. V!Increasing(t)
  BY SMTT(30), <1>1, <1>2 DEF V!Increasing
<1>4. \A i \in DOMAIN t : s[1].number < t[i].number
  BY <1>1, <1>2 DEF V!Increasing
<1> QED BY <1>3, <1>4 DEF t

(* If none but the first of those was an answer, the others are left.      *)
LEMMA LeftNumbers ==
  ASSUME NEW s \in Seq(Printed), NEW n \in DOMAIN s,
         \A i \in 2..n : ~V!IsAnswer(s[i])
  PROVE  LET t == SubSeq(s, n + 1, Len(s))
         IN  V!Numbers(s)
               = V!Numbers(t) \cup (IF V!IsAnswer(s[1]) THEN {s[1].number} ELSE {})
<1> DEFINE t == SubSeq(s, n + 1, Len(s))
<1>1. n \in 1..Len(s) /\ Len(s) \in Nat /\ DOMAIN s = 1..Len(s)
  OBVIOUS
<1>2. /\ \A i \in DOMAIN t : i + n \in DOMAIN s /\ t[i] = s[i + n]
      /\ \A i \in DOMAIN s : i > n => i - n \in DOMAIN t /\ t[i - n] = s[i]
  BY LeftOver
<1> HIDE DEF t
<1>3. ASSUME NEW i \in DOMAIN s, V!IsAnswer(s[i])
      PROVE  i = 1 \/ s[i].number \in V!Numbers(t)
  <2>1. i = 1 \/ i > n
    BY <1>1, <1>3
  <2>2. CASE i > n
    BY <2>2, <1>2, <1>3 DEF V!Numbers
  <2> QED BY <2>1, <2>2
<1>4. ASSUME NEW i \in DOMAIN t, V!IsAnswer(t[i])
      PROVE  t[i].number \in V!Numbers(s)
  BY <1>2, <1>4 DEF V!Numbers
<1>5. V!IsAnswer(s[1]) => s[1].number \in V!Numbers(s)
  BY <1>1 DEF V!Numbers
<1>6. \A x \in V!Numbers(s) : (x = s[1].number /\ V!IsAnswer(s[1])) \/ x \in V!Numbers(t)
  BY <1>3 DEF V!Numbers
<1>7. \A x \in V!Numbers(t) : x \in V!Numbers(s)
  BY <1>4 DEF V!Numbers
<1> QED BY <1>5, <1>6, <1>7 DEF t

(* The rest of a sequence.                                                 *)
LEMMA Rest ==
  ASSUME NEW S, NEW s \in Seq(S), s # <<>>
  PROVE  /\ Head(s) \in S /\ Tail(s) \in Seq(S)
         /\ 1 \in DOMAIN s /\ Head(s) = s[1]
         /\ \A i \in DOMAIN Tail(s) : i + 1 \in DOMAIN s /\ i + 1 > 1 /\ Tail(s)[i] = s[i + 1]
         /\ \A i \in DOMAIN s : i # 1 => i - 1 \in DOMAIN Tail(s) /\ Tail(s)[i - 1] = s[i]
<1>1. /\ Len(s) \in Nat \ {0} /\ DOMAIN s = 1..Len(s)
      /\ DOMAIN Tail(s) = 1..(Len(s) - 1)
      /\ \A i \in 1..(Len(s) - 1) : Tail(s)[i] = s[i + 1]
  OBVIOUS
<1>2. \A i \in DOMAIN Tail(s) : i + 1 \in DOMAIN s /\ i + 1 > 1 /\ Tail(s)[i] = s[i + 1]
  BY <1>1
<1>3. \A i \in DOMAIN s : i # 1 => i - 1 \in DOMAIN Tail(s) /\ Tail(s)[i - 1] = s[i]
  BY <1>1
<1> QED BY <1>1, <1>2, <1>3

LEMMA RestSorted ==
  ASSUME NEW S, NEW s \in Seq(S), s # <<>>
  PROVE  /\ Of(s) = {Head(s).number} \cup Of(Tail(s))
         /\ V!Numbers(s)
              = V!Numbers(Tail(s)) \cup (IF V!IsAnswer(Head(s)) THEN {Head(s).number} ELSE {})
         /\ V!Increasing(s) =>
              /\ V!Increasing(Tail(s))
              /\ \A i \in DOMAIN Tail(s) : Head(s).number < Tail(s)[i].number
<1> DEFINE t == Tail(s)  h == Head(s)
<1>1. /\ 1 \in DOMAIN s /\ h = s[1]
      /\ \A i \in DOMAIN t : i + 1 \in DOMAIN s /\ i + 1 > 1 /\ t[i] = s[i + 1]
      /\ \A i \in DOMAIN s : i # 1 => i - 1 \in DOMAIN t /\ t[i - 1] = s[i]
  BY Rest
<1>2. DOMAIN s \subseteq Nat /\ DOMAIN t \subseteq Nat
  OBVIOUS
<1> HIDE DEF t, h
<1>3. Of(s) = {h.number} \cup Of(t)
  <2>1. \A x \in Of(s) : x = h.number \/ x \in Of(t)
    BY <1>1 DEF Of
  <2>2. \A x \in Of(t) : x \in Of(s)
    BY <1>1 DEF Of
  <2>3. h.number \in Of(s)
    BY <1>1 DEF Of
  <2> QED BY <2>1, <2>2, <2>3
<1>4. V!Numbers(s) = V!Numbers(t) \cup (IF V!IsAnswer(h) THEN {h.number} ELSE {})
  <2>1. \A x \in V!Numbers(s) : (x = h.number /\ V!IsAnswer(h)) \/ x \in V!Numbers(t)
    BY <1>1 DEF V!Numbers
  <2>2. \A x \in V!Numbers(t) : x \in V!Numbers(s)
    BY <1>1 DEF V!Numbers
  <2>3. V!IsAnswer(h) => h.number \in V!Numbers(s)
    BY <1>1 DEF V!Numbers
  <2> QED BY <2>1, <2>2, <2>3
<1>5. ASSUME V!Increasing(s)
      PROVE  V!Increasing(t) /\ \A i \in DOMAIN t : h.number < t[i].number
  BY <1>1, <1>2, <1>5 DEF V!Increasing
<1> QED BY <1>3, <1>4, <1>5 DEF t, h

(* Equal sets without their least elements are equal.                      *)
LEMMA LeastTaken ==
  ASSUME NEW A \in SUBSET Nat, NEW B \in SUBSET Nat, NEW a \in Nat, NEW b \in Nat,
         {a} \cup A = {b} \cup B, \A x \in A : a < x, \A x \in B : b < x
  PROVE  a = b /\ A = B
<1>1. a = b
  OBVIOUS
<1>2. a \notin A /\ b \notin B
  OBVIOUS
<1> QED BY <1>1, <1>2

LEMMA NumbersNat ==
  ASSUME VisionTypes
  PROVE  /\ \A i \in DOMAIN stdin : stdin[i] \in Asked /\ stdin[i].number \in Nat
         /\ \A i \in DOMAIN stdout : stdout[i] \in Printed /\ stdout[i].number \in Nat
         /\ \A i \in DOMAIN callers : callers[i] \in Queued /\ callers[i].number \in Nat
         /\ V!Numbers(stdout) \subseteq Nat /\ V!Numbers(stdin) \subseteq Nat
         /\ Of(callers) \subseteq Nat
<1>1. stdin \in Seq(Asked) /\ stdout \in Seq(Printed) /\ callers \in Seq(Queued)
  BY DEF VisionTypes
<1>2. /\ \A i \in DOMAIN stdin : stdin[i] \in Asked
      /\ \A i \in DOMAIN stdout : stdout[i] \in Printed
      /\ \A i \in DOMAIN callers : callers[i] \in Queued
  BY <1>1
<1>3. /\ \A x \in Asked : x.number \in Nat
      /\ \A x \in Printed : x.number \in Nat
      /\ \A x \in Queued : x.number \in Nat
  BY DEF Asked, Printed, Queued
<1>4. /\ \A i \in DOMAIN stdin : stdin[i].number \in Nat
      /\ \A i \in DOMAIN stdout : stdout[i].number \in Nat
      /\ \A i \in DOMAIN callers : callers[i].number \in Nat
  BY <1>2, <1>3
<1>5. V!Numbers(stdout) \subseteq Nat /\ V!Numbers(stdin) \subseteq Nat /\ Of(callers) \subseteq Nat
  BY <1>4 DEF V!Numbers, Of
<1> QED BY <1>2, <1>4, <1>5

LEMMA NumbersPrimed ==
  ASSUME VisionTypes'
  PROVE  /\ Of(callers)' \subseteq Nat /\ V!Numbers(stdout)' \subseteq Nat
<1>1. stdout' \in Seq(Printed) /\ callers' \in Seq(Queued)
  BY DEF VisionTypes
<1>2. /\ \A i \in DOMAIN stdout' : stdout'[i] \in Printed
      /\ \A i \in DOMAIN callers' : callers'[i] \in Queued
  BY <1>1
<1>3. /\ \A x \in Printed : x.number \in Nat
      /\ \A x \in Queued : x.number \in Nat
  BY DEF Printed, Queued
<1> QED BY <1>2, <1>3 DEF V!Numbers, Of

-----------------------------------------------------------------------------
(* Calls and casts.                                                        *)
LEMMA CommandStep ==
  ASSUME VisionInv, NEW kind \in V!Call \cup V!Cast, V!Commands(kind)
  PROVE  /\ commands' \in Nat /\ commands' = commands + 1 /\ stdin' \in Seq(Asked)
         /\ visionProgram = "running" =>
              /\ V!Increasing(stdin)' /\ Before(stdout, stdin)'
              /\ UpTo(commands, stdout)' /\ UpTo(commands, stdin)'
              /\ V!Numbers(stdin)' = V!Numbers(stdin)
                                      \cup (IF kind \in V!Call THEN {commands'} ELSE {})
<1>1. commands' \in Nat /\ commands' = commands + 1 /\ stdout' = stdout
  BY DEF V!Commands, VisionInv, VisionTypes
<1> DEFINE e == [number |-> commands', kind |-> kind]
<1>2. e \in Asked /\ stdin \in Seq(Asked) /\ stdout \in Seq(Printed)
  BY <1>1 DEF Asked, VisionInv, VisionTypes
<1>3. stdin' = IF visionProgram = "running" THEN Append(stdin, e) ELSE stdin
  BY DEF V!Commands
<1>4. stdin' \in Seq(Asked)
  BY <1>2, <1>3
<1>5. ASSUME visionProgram = "running"
      PROVE  /\ V!Increasing(stdin)' /\ Before(stdout, stdin)'
             /\ UpTo(commands, stdout)' /\ UpTo(commands, stdin)'
             /\ V!Numbers(stdin)' = V!Numbers(stdin)
                                      \cup (IF kind \in V!Call THEN {commands'} ELSE {})
  <2>1. Sorted
    BY <1>5 DEF VisionInv
  <2>2. stdin' = Append(stdin, e)
    BY <1>3, <1>5
  <2>3. \A i \in DOMAIN stdin : stdin[i].number <= commands /\ stdin[i].number \in Nat
    BY <2>1, NumbersNat DEF Sorted, UpTo, VisionInv
  <2>4. \A i \in DOMAIN stdout : stdout[i].number <= commands /\ stdout[i].number \in Nat
    BY <2>1, NumbersNat DEF Sorted, UpTo, VisionInv
  <2>5. e.number = commands + 1 /\ commands \in Nat
    BY <1>1 DEF VisionInv, VisionTypes
  <2>6. \A i \in DOMAIN stdin : stdin[i].number < e.number
    BY <2>3, <2>5
  <2>7. V!Increasing(Append(stdin, e))
    BY <2>6, <2>1, <1>2, AppendedSorted DEF Sorted
  <2>8. /\ DOMAIN stdin' = DOMAIN stdin \cup {Len(stdin) + 1}
        /\ \A i \in DOMAIN stdin : stdin'[i] = stdin[i]
        /\ stdin'[Len(stdin) + 1] = e
    BY <2>2, <1>2
  <2>9. V!Numbers(stdin') = V!Numbers(stdin) \cup (IF V!IsAnswer(e) THEN {e.number} ELSE {})
    BY <2>2, <1>2, Appended
  <2>10. V!IsAnswer(e) <=> kind \in V!Call
    BY DEF V!IsAnswer
  <2> HIDE DEF e
  <2>11. \A i \in DOMAIN stdin' : stdin'[i].number <= commands'
    BY <2>8, <2>3, <2>5, <1>1
  <2>12. Before(stdout, stdin')
    BY <2>8, <2>4, <2>5, <2>1 DEF Before, Sorted
  <2>13. \A i \in DOMAIN stdout : stdout[i].number <= commands'
    BY <2>4, <2>5, <1>1
  <2>14. V!Increasing(stdin') /\ UpTo(commands', stdin') /\ UpTo(commands', stdout)
    BY <2>2, <2>7, <2>11, <2>13 DEF UpTo
  <2>15. V!Numbers(stdin') = V!Numbers(stdin) \cup (IF kind \in V!Call THEN {commands'} ELSE {})
    BY <2>9, <2>10, <2>5, <1>1
  <2>16. V!Increasing(stdin)' /\ UpTo(commands, stdin)' /\ UpTo(commands, stdout)' /\ Before(stdout, stdin)'
    BY <2>14, <2>12, <1>1 DEF V!Increasing, UpTo, Before
  <2> QED BY <2>15, <2>16 DEF V!Numbers, V!IsAnswer
<1> QED BY <1>1, <1>4, <1>5

LEMMA CallStep ==
  ASSUME VisionInv, NEW c \in Caller, NEW kind \in V!Call, V!handle_call(c, kind)
  PROVE  VisionInv'
<1>1. V!Commands(kind)
  BY DEF V!handle_call
<1>2. /\ commands' \in Nat /\ commands' = commands + 1 /\ stdin' \in Seq(Asked)
      /\ visionProgram = "running" =>
              /\ V!Increasing(stdin)' /\ Before(stdout, stdin)'
              /\ UpTo(commands, stdout)' /\ UpTo(commands, stdin)'
              /\ V!Numbers(stdin)' = V!Numbers(stdin) \cup {commands'}
  BY <1>1, CommandStep
<1>3. UNCHANGED <<visionProgram, stdout, astray>> /\ visionProgram # "down"
  BY <1>1 DEF V!Commands
<1> DEFINE e == [number |-> commands', caller |-> c]
<1>4. callers' = Append(callers, e) /\ e \in Queued /\ callers \in Seq(Queued)
  BY <1>2 DEF V!handle_call, Queued, VisionInv, VisionTypes
<1>5. callers' \in Seq(Queued) /\ Of(callers') = Of(callers) \cup {commands'}
  BY <1>4, Appended
<1>6. ASSUME visionProgram = "running"
      PROVE  V!Increasing(callers') /\ UpTo(commands', callers')
  <2>1. Sorted
    BY <1>6 DEF VisionInv
  <2>2. \A i \in DOMAIN callers : callers[i].number <= commands /\ callers[i].number \in Nat
    BY <2>1, NumbersNat DEF Sorted, UpTo, VisionInv
  <2>3. e.number = commands + 1 /\ commands \in Nat
    BY <1>2 DEF VisionInv, VisionTypes
  <2>4. V!Increasing(Append(callers, e))
    BY <2>1, <2>2, <2>3, <1>4, AppendedSorted DEF Sorted
  <2>5. /\ DOMAIN callers' = DOMAIN callers \cup {Len(callers) + 1}
        /\ \A i \in DOMAIN callers : callers'[i] = callers[i]
        /\ callers'[Len(callers) + 1] = e
    BY <1>4
  <2>6. \A i \in DOMAIN callers' : callers'[i].number <= commands'
    BY <2>5, <2>2, <2>3, <1>2
  <2> QED BY <2>4, <2>6, <1>4 DEF UpTo
<1>7. VisionTypes' /\ Silent' /\ NothingLeft'
  BY <1>2, <1>3, <1>5 DEF VisionInv, VisionTypes, Silent, NothingLeft, V!IsAnswer
<1>8. ASSUME visionProgram' = "running" PROVE Sorted' /\ (astray \/ Matched)'
  <2>1. visionProgram = "running"
    BY <1>8, <1>3
  <2>2. Sorted'
    BY <2>1, <1>2, <1>3, <1>6 DEF Sorted, VisionInv, V!Increasing, UpTo
  <2>3. (astray \/ Matched)'
    BY <2>1, <1>2, <1>3, <1>5 DEF Matched, VisionInv
  <2> QED BY <2>2, <2>3
<1> QED BY <1>7, <1>8 DEF VisionInv

LEMMA CastStep ==
  ASSUME VisionInv, NEW kind \in V!Cast, V!handle_cast(kind)
  PROVE  VisionInv'
<1>1. V!Commands(kind)
  BY DEF V!handle_cast
<1>2. /\ commands' \in Nat /\ commands' = commands + 1 /\ stdin' \in Seq(Asked)
      /\ visionProgram = "running" =>
              /\ V!Increasing(stdin)' /\ Before(stdout, stdin)'
              /\ UpTo(commands, stdout)' /\ UpTo(commands, stdin)'
              /\ V!Numbers(stdin)' = V!Numbers(stdin)
  <2>1. kind \notin V!Call
    BY DEF V!Call, V!Cast, V!Search
  <2> QED BY <1>1, <2>1, CommandStep
<1>3. UNCHANGED <<visionProgram, stdout, astray, callers>> /\ visionProgram # "down"
  BY <1>1 DEF V!Commands, V!handle_cast
<1>4. VisionTypes' /\ Silent' /\ NothingLeft'
  BY <1>2, <1>3 DEF VisionInv, VisionTypes, Silent, NothingLeft, V!IsAnswer
<1>5. ASSUME visionProgram' = "running" PROVE Sorted' /\ (astray \/ Matched)'
  <2>1. visionProgram = "running" /\ Sorted
    BY <1>5, <1>3 DEF VisionInv
  <2>2. UpTo(commands, callers)'
    <3>1. \A i \in DOMAIN callers : callers[i].number \in Nat
      BY NumbersNat DEF VisionInv
    <3> QED BY <3>1, <2>1, <1>2, <1>3 DEF Sorted, UpTo, VisionInv, VisionTypes
  <2>3. Sorted'
    BY <2>1, <2>2, <1>2, <1>3 DEF Sorted, V!Increasing
  <2>4. (astray \/ Matched)'
    BY <2>1, <1>2, <1>3 DEF Matched, VisionInv
  <2> QED BY <2>3, <2>4
<1> QED BY <1>4, <1>5 DEF VisionInv

-----------------------------------------------------------------------------
(* The program.                                                            *)
UncalledVars == <<callers, astray, commands>>

(* A command taken, an answer printed.                                     *)
LEMMA PrintedLine ==
  ASSUME VisionInv, stdin # <<>>, NEW t \in {"Success", "Error", "None", "Data"},
         t = "Success" => Head(stdin).kind \notin V!Call,
         stdout' = Append(stdout, V!Line(Head(stdin), t))
  PROVE  /\ stdout' \in Seq(Printed) /\ Silent'
         /\ V!Numbers(stdout') \cup V!Numbers(Tail(stdin)) = V!Numbers(stdout) \cup V!Numbers(stdin)
         /\ Sorted => /\ V!Increasing(stdout') /\ V!Increasing(Tail(stdin))
                      /\ Before(stdout', Tail(stdin))
                      /\ UpTo(commands, stdout') /\ UpTo(commands, Tail(stdin))
<1> DEFINE h == Head(stdin)
           e == V!Line(h, t)
<1>1. stdin \in Seq(Asked) /\ stdout \in Seq(Printed) /\ commands \in Nat
  BY DEF VisionInv, VisionTypes
<1>2. h \in Asked /\ 1 \in DOMAIN stdin /\ h = stdin[1] /\ Tail(stdin) \in Seq(Asked)
  BY <1>1, Rest
<1>3. /\ e \in Printed /\ e.number = h.number /\ e.number \in Nat
      /\ V!IsAnswer(e) <=> V!IsAnswer(h)
      /\ e.text = "Success" => ~V!IsAnswer(e)
  BY <1>2 DEF V!Line, Asked, Printed, V!IsAnswer
<1>4. /\ \A i \in DOMAIN Tail(stdin) :
           i + 1 \in DOMAIN stdin /\ i + 1 > 1 /\ Tail(stdin)[i] = stdin[i + 1]
      /\ DOMAIN Tail(stdin) \subseteq Nat
  BY <1>1, Rest
<1> HIDE DEF e, h
<1>5. stdout' = Append(stdout, e)
  BY DEF e, h
<1>6. /\ DOMAIN stdout' = DOMAIN stdout \cup {Len(stdout) + 1}
      /\ \A i \in DOMAIN stdout : stdout'[i] = stdout[i]
      /\ stdout'[Len(stdout) + 1] = e
      /\ stdout' \in Seq(Printed)
  BY <1>1, <1>3, <1>5
<1>7. Silent'
  BY <1>6, <1>3 DEF VisionInv, Silent, V!IsAnswer
<1>8. /\ V!Numbers(stdout') = V!Numbers(stdout) \cup (IF V!IsAnswer(e) THEN {e.number} ELSE {})
      /\ V!Numbers(stdin) = V!Numbers(Tail(stdin)) \cup (IF V!IsAnswer(h) THEN {h.number} ELSE {})
  <2>1. V!Numbers(stdout') = V!Numbers(stdout) \cup (IF V!IsAnswer(e) THEN {e.number} ELSE {})
    BY <1>1, <1>3, <1>5, Appended
  <2>2. V!Numbers(stdin)
          = V!Numbers(Tail(stdin)) \cup (IF V!IsAnswer(h) THEN {h.number} ELSE {})
    BY <1>1, RestSorted DEF h
  <2> QED BY <2>1, <2>2
<1>9. ASSUME Sorted
      PROVE  /\ V!Increasing(stdout') /\ V!Increasing(Tail(stdin))
             /\ Before(stdout', Tail(stdin))
             /\ UpTo(commands, stdout') /\ UpTo(commands, Tail(stdin))
  <2>1. /\ V!Increasing(stdout) /\ V!Increasing(stdin) /\ Before(stdout, stdin)
        /\ UpTo(commands, stdout) /\ UpTo(commands, stdin)
    BY <1>9 DEF Sorted
  <2>2. V!Increasing(Tail(stdin)) /\ \A i \in DOMAIN Tail(stdin) : h.number < Tail(stdin)[i].number
    BY <2>1, <1>1, RestSorted DEF h
  <2>3. \A i \in DOMAIN stdout : stdout[i].number < e.number
    BY <2>1, <1>2, <1>3 DEF Before
  <2>4. V!Increasing(stdout')
    BY <2>1, <2>3, <1>1, <1>3, <1>5, AppendedSorted
  <2>5. Before(stdout', Tail(stdin))
    <3> SUFFICES ASSUME NEW i \in DOMAIN stdout', NEW j \in DOMAIN Tail(stdin)
                 PROVE  stdout'[i].number < Tail(stdin)[j].number
      BY DEF Before
    <3>1. CASE i \in DOMAIN stdout
      BY <3>1, <1>4, <1>6, <2>1 DEF Before
    <3>2. CASE i = Len(stdout) + 1
      BY <3>2, <1>3, <1>6, <2>2
    <3> QED BY <3>1, <3>2, <1>6
  <2>6. UpTo(commands, stdout')
    <3>1. e.number <= commands
      BY <1>2, <1>3, <2>1 DEF UpTo
    <3> QED BY <3>1, <1>6, <2>1 DEF UpTo
  <2>7. UpTo(commands, Tail(stdin))
    BY <1>4, <2>1 DEF UpTo
  <2> QED BY <2>2, <2>4, <2>5, <2>6, <2>7
<1> QED BY <1>3, <1>6, <1>7, <1>8, <1>9

LEMMA PrintStep ==
  ASSUME VisionInv, stdin # <<>>, visionProgram = "running", UNCHANGED UncalledVars,
         NEW t \in {"Success", "Error", "None", "Data"},
         t = "Success" => Head(stdin).kind \notin V!Call, V!Prints(t)
  PROVE  VisionInv'
<1>1. /\ stdout' = Append(stdout, V!Line(Head(stdin), t)) /\ stdin' = Tail(stdin)
      /\ UNCHANGED visionProgram /\ UNCHANGED callers /\ UNCHANGED astray /\ UNCHANGED commands
  BY DEF V!Prints, UncalledVars
<1>2. stdin' \in Seq(Asked)
  BY <1>1, Rest DEF VisionInv, VisionTypes
<1>3. /\ stdout' \in Seq(Printed) /\ Silent'
      /\ V!Numbers(stdout') \cup V!Numbers(Tail(stdin)) = V!Numbers(stdout) \cup V!Numbers(stdin)
      /\ Sorted => /\ V!Increasing(stdout') /\ V!Increasing(Tail(stdin))
                   /\ Before(stdout', Tail(stdin))
                   /\ UpTo(commands, stdout') /\ UpTo(commands, Tail(stdin))
  BY <1>1, PrintedLine
<1>4. VisionTypes' /\ NothingLeft'
  BY <1>1, <1>2, <1>3 DEF VisionInv, VisionTypes, NothingLeft
<1>5. Sorted' /\ (astray \/ Matched)'
  BY <1>1, <1>3 DEF VisionInv, Sorted, Matched
<1> QED BY <1>3, <1>4, <1>5 DEF VisionInv

LEMMA ExitStep ==
  ASSUME VisionInv, visionProgram = "running", UNCHANGED UncalledVars, V!Exits
  PROVE  VisionInv'
<1>1. /\ visionProgram' = "exited" /\ stdin' = <<>>
      /\ UNCHANGED stdout /\ UNCHANGED callers /\ UNCHANGED astray /\ UNCHANGED commands
  BY DEF V!Exits, UncalledVars
<1>2. <<>> \in Seq(Asked)
  OBVIOUS
<1> QED BY <1>1, <1>2 DEF VisionInv, VisionTypes, Silent, NothingLeft, V!IsAnswer

LEMMA ProgramStep ==
  ASSUME VisionInv, V!Program
  PROVE  VisionInv'
<1>1. ASSUME NEW kind \in V!Search, V!search_command(kind) PROVE VisionInv'
  BY <1>1, PrintStep, ExitStep DEF V!search_command, V!Reads, UncalledVars
<1>2. CASE V!count_command
  BY <1>2, PrintStep, ExitStep DEF V!count_command, V!Reads, UncalledVars
<1>3. CASE V!capture_command
  <2>1. "capture" \notin V!Call
    BY DEF V!Call, V!Search
  <2> QED BY <2>1, <1>3, PrintStep, ExitStep DEF V!capture_command, V!Reads, UncalledVars
<1>4. CASE V!quit_command
  BY <1>4, ExitStep DEF V!quit_command, V!Reads, UncalledVars
<1>5. CASE V!pixel_command
  <2>1. V!Reads("pixels")
    BY <1>5 DEF V!pixel_command
  <2>2. CASE V!Prints("Data")
    BY <2>1, <2>2, PrintStep DEF V!Reads, UncalledVars
  <2>3. CASE V!Exits
    BY <2>1, <2>3, ExitStep DEF V!Reads, UncalledVars
  <2>4. CASE /\ stdout' = Append(stdout, V!Line(Head(stdin), "Error"))
             /\ stdin' = <<>>
             /\ visionProgram' = "exited"
    <3>1. stdout' \in Seq(Printed) /\ Silent'
      BY <2>1, <2>4, PrintedLine DEF V!Reads
    <3>2. <<>> \in Seq(Asked)
      OBVIOUS
    <3> QED BY <2>1, <2>4, <3>1, <3>2 DEF V!Reads, VisionInv, VisionTypes, NothingLeft
  <2> QED BY <1>5, <2>2, <2>3, <2>4 DEF V!pixel_command
<1> QED BY <1>1, <1>2, <1>3, <1>4, <1>5
        DEF V!Program, V!find_command, V!on_appear_command, V!Search

-----------------------------------------------------------------------------
(* What the server makes of what it reads.                                 *)
LEMMA StopsVision ==
  ASSUME VisionInv, V!Stops
  PROVE  VisionInv'
<1>1. <<>> \in Seq(Asked) /\ <<>> \in Seq(Printed) /\ <<>> \in Seq(Queued) /\ DOMAIN <<>> = {}
  OBVIOUS
<1>2. /\ callers' = <<>> /\ stdin' = <<>> /\ stdout' = <<>> /\ visionProgram' = "down"
      /\ astray' = FALSE /\ commands' = commands
  BY DEF V!Stops
<1> QED BY <1>1, <1>2 DEF VisionInv, VisionTypes, Silent, NothingLeft

(* Lines read: what is left, and which answers it still holds.             *)
LEMMA ReceivedLines ==
  ASSUME VisionInv, NEW n \in DOMAIN stdout, V!Received(n)
  PROVE  /\ stdout' \in Seq(Printed) /\ Silent' /\ visionProgram # "down"
         /\ ~V!Lost(SubSeq(stdout, 2, n)) =>
              V!Numbers(stdout)
                = V!Numbers(stdout') \cup (IF V!IsAnswer(stdout[1]) THEN {stdout[1].number} ELSE {})
         /\ Sorted => /\ V!Increasing(stdout') /\ Before(stdout', stdin) /\ UpTo(commands, stdout')
                      /\ \A i \in DOMAIN stdout' : stdout[1].number < stdout'[i].number
<1>1. stdout' = SubSeq(stdout, n + 1, Len(stdout)) /\ visionProgram # "down"
  BY DEF V!Received
<1>2. stdout \in Seq(Printed)
  BY DEF VisionInv, VisionTypes
<1>3. /\ stdout' \in Seq(Printed)
      /\ \A i \in DOMAIN stdout' : i + n \in DOMAIN stdout /\ stdout'[i] = stdout[i + n]
  BY <1>1, <1>2, LeftOver
<1>4. Silent'
  BY <1>3 DEF VisionInv, Silent, V!IsAnswer
<1>5. ASSUME ~V!Lost(SubSeq(stdout, 2, n)) PROVE \A i \in 2..n : ~V!IsAnswer(stdout[i])
  <2> DEFINE s == SubSeq(stdout, 2, n)
  <2> SUFFICES ASSUME NEW i \in 2..n PROVE ~V!IsAnswer(stdout[i])
    OBVIOUS
  <2>1. n \in 1..Len(stdout) /\ Len(stdout) \in Nat
    BY <1>2
  <2>2. i - 1 \in DOMAIN s /\ s[i - 1] = stdout[i]
    BY <2>1, <1>2
  <2>3. \A j \in DOMAIN s : ~V!IsAnswer(s[j])
    BY <1>5 DEF V!Lost
  <2> HIDE DEF s
  <2> QED BY <2>2, <2>3
<1>6. ASSUME ~V!Lost(SubSeq(stdout, 2, n))
      PROVE  V!Numbers(stdout)
               = V!Numbers(stdout') \cup (IF V!IsAnswer(stdout[1]) THEN {stdout[1].number} ELSE {})
  BY <1>1, <1>2, <1>5, <1>6, LeftNumbers
<1>7. ASSUME Sorted
      PROVE  /\ V!Increasing(stdout') /\ Before(stdout', stdin) /\ UpTo(commands, stdout')
             /\ \A i \in DOMAIN stdout' : stdout[1].number < stdout'[i].number
  <2>1. V!Increasing(stdout) /\ Before(stdout, stdin) /\ UpTo(commands, stdout)
    BY <1>7 DEF Sorted
  <2>2. V!Increasing(stdout') /\ \A i \in DOMAIN stdout' : stdout[1].number < stdout'[i].number
    BY <1>1, <1>2, <2>1, LeftSorted
  <2> QED BY <2>1, <2>2, <1>3 DEF Before, UpTo
<1> QED BY <1>1, <1>3, <1>4, <1>6, <1>7

LEMMA SuccessStep ==
  ASSUME VisionInv, NEW n \in DOMAIN stdout, V!handle_success(n)
  PROVE  VisionInv'
<1>1. /\ V!Received(n) /\ stdout[1].text = "Success"
      /\ astray' = (astray \/ V!Lost(SubSeq(stdout, 2, n)))
      /\ UNCHANGED callers /\ UNCHANGED visionProgram /\ UNCHANGED stdin /\ UNCHANGED commands
  BY DEF V!handle_success
<1>2. /\ stdout' \in Seq(Printed) /\ Silent' /\ visionProgram # "down"
      /\ ~V!Lost(SubSeq(stdout, 2, n)) =>
           V!Numbers(stdout)
             = V!Numbers(stdout') \cup (IF V!IsAnswer(stdout[1]) THEN {stdout[1].number} ELSE {})
      /\ Sorted => V!Increasing(stdout') /\ Before(stdout', stdin) /\ UpTo(commands, stdout')
  BY <1>1, ReceivedLines
<1>3. ~V!IsAnswer(stdout[1])
  <2>1. 1 \in DOMAIN stdout
    BY DEF VisionInv, VisionTypes
  <2> QED BY <2>1, <1>1 DEF VisionInv, Silent
<1>4. VisionTypes' /\ NothingLeft'
  <2>1. astray' \in BOOLEAN
    BY <1>1 DEF VisionInv, VisionTypes, V!Lost
  <2> QED BY <1>1, <1>2, <2>1 DEF VisionInv, VisionTypes, NothingLeft
<1>5. ASSUME visionProgram' = "running" PROVE Sorted' /\ (astray \/ Matched)'
  BY <1>1, <1>2, <1>3, <1>5 DEF VisionInv, Sorted, Matched
<1> QED BY <1>2, <1>4, <1>5 DEF VisionInv

LEMMA DataStep ==
  ASSUME VisionInv, NEW n \in DOMAIN stdout, V!handle_data(n)
  PROVE  VisionInv'
<1>1. /\ V!Received(n) /\ callers # <<>> /\ callers' = Tail(callers)
      /\ astray' = (astray \/ ~V!IsAnswer(stdout[1]) \/ V!Lost(SubSeq(stdout, 2, n)))
      /\ UNCHANGED visionProgram /\ UNCHANGED stdin /\ UNCHANGED commands
  BY DEF V!handle_data
<1>2. /\ stdout' \in Seq(Printed) /\ Silent' /\ visionProgram # "down"
      /\ ~V!Lost(SubSeq(stdout, 2, n)) =>
           V!Numbers(stdout)
             = V!Numbers(stdout') \cup (IF V!IsAnswer(stdout[1]) THEN {stdout[1].number} ELSE {})
      /\ Sorted => /\ V!Increasing(stdout') /\ Before(stdout', stdin) /\ UpTo(commands, stdout')
                   /\ \A i \in DOMAIN stdout' : stdout[1].number < stdout'[i].number
  BY <1>1, ReceivedLines
<1>3. callers \in Seq(Queued)
  BY DEF VisionInv, VisionTypes
<1>4. /\ Tail(callers) \in Seq(Queued) /\ Head(callers) \in Queued
      /\ \A i \in DOMAIN Tail(callers) : i + 1 \in DOMAIN callers /\ Tail(callers)[i] = callers[i + 1]
  BY <1>1, <1>3, Rest
<1>5. /\ Of(callers) = {Head(callers).number} \cup Of(Tail(callers))
      /\ V!Increasing(callers) =>
           /\ V!Increasing(Tail(callers))
           /\ \A i \in DOMAIN Tail(callers) : Head(callers).number < Tail(callers)[i].number
  BY <1>1, <1>3, RestSorted
<1>6. VisionTypes' /\ NothingLeft'
  <2>1. astray' \in BOOLEAN
    BY <1>1 DEF VisionInv, VisionTypes, V!Lost
  <2> QED BY <1>1, <1>2, <1>4, <2>1 DEF VisionInv, VisionTypes, NothingLeft
<1>7. ASSUME visionProgram' = "running" PROVE Sorted' /\ (astray \/ Matched)'
  <2>1. visionProgram = "running" /\ Sorted /\ (astray \/ Matched)
    BY <1>1, <1>7 DEF VisionInv
  <2>2. V!Increasing(Tail(callers)) /\ UpTo(commands, Tail(callers))
    BY <2>1, <1>4, <1>5 DEF Sorted, UpTo
  <2>3. Sorted'
    BY <2>1, <2>2, <1>1, <1>2 DEF Sorted
  <2>4. ASSUME ~astray' PROVE Matched'
    <3> DEFINE A == Of(Tail(callers))
               B == V!Numbers(stdout') \cup V!Numbers(stdin)
               a == Head(callers).number
               b == stdout[1].number
    <3>1. ~astray /\ V!IsAnswer(stdout[1]) /\ ~V!Lost(SubSeq(stdout, 2, n))
      BY <2>4, <1>1
    <3>2. {a} \cup A = {b} \cup B
      BY <3>1, <2>1, <1>2, <1>5 DEF Matched
    <3>3. A \subseteq Nat /\ B \subseteq Nat
      <4>1. VisionTypes'
        BY <1>6
      <4>2. Of(callers)' \subseteq Nat /\ V!Numbers(stdout)' \subseteq Nat /\ V!Numbers(stdin) \subseteq Nat
        BY <4>1, NumbersPrimed, NumbersNat DEF VisionInv
      <4> QED BY <4>2, <1>1
    <3>4. a \in Nat /\ b \in Nat
      <4>1. n \in 1..Len(stdout) /\ DOMAIN stdout = 1..Len(stdout) /\ Len(stdout) \in Nat
        BY DEF VisionInv, VisionTypes
      <4>2. 1 \in DOMAIN stdout
        BY <4>1
      <4> QED BY <1>4, <4>2, NumbersNat DEF VisionInv, Queued
    <3>5. \A x \in A : a < x
      BY <1>5, <2>1 DEF Sorted, Of
    <3>6. \A x \in B : b < x
      <4>1. \A x \in V!Numbers(stdout') : b < x
        BY <1>2, <2>1 DEF V!Numbers
      <4>2. 1 \in DOMAIN stdout
        BY DEF VisionInv, VisionTypes
      <4>3. \A x \in V!Numbers(stdin) : b < x
        BY <4>2, <2>1 DEF V!Numbers, Sorted, Before
      <4> QED BY <4>1, <4>3
    <3> HIDE DEF A, B, a, b
    <3>7. A = B
      BY <3>2, <3>3, <3>4, <3>5, <3>6, LeastTaken
    <3> QED BY <3>7, <1>1 DEF A, B, Matched
  <2> QED BY <2>3, <2>4
<1> QED BY <1>2, <1>6, <1>7 DEF VisionInv

LEMMA VisionStep ==
  ASSUME VisionInv, V!Next
  PROVE  VisionInv'
<1>1. ASSUME NEW c \in Caller, V!CallerTimeout(c) PROVE VisionInv'
  BY <1>1 DEF V!CallerTimeout, VisionInv, VisionTypes, Silent, NothingLeft, Sorted, Matched
<1>2. CASE V!Restart
  <2>1. /\ visionProgram = "down" /\ visionProgram' \in {"running", "exited"}
        /\ UNCHANGED callers /\ UNCHANGED stdin /\ UNCHANGED stdout
        /\ UNCHANGED astray /\ UNCHANGED commands
    BY <1>2 DEF V!Restart
  <2>2. callers = <<>> /\ stdin = <<>> /\ stdout = <<>>
    BY <2>1 DEF VisionInv, NothingLeft
  <2>3. /\ V!Increasing(<<>>) /\ Before(<<>>, <<>>) /\ UpTo(commands, <<>>)
        /\ Of(<<>>) = {} /\ V!Numbers(<<>>) = {}
    <3>1. DOMAIN <<>> = {}
      OBVIOUS
    <3> QED BY <3>1 DEF V!Increasing, Before, UpTo, Of, V!Numbers
  <2>4. Sorted' /\ Matched'
    BY <2>1, <2>2, <2>3 DEF Sorted, Matched
  <2> QED BY <2>1, <2>4 DEF VisionInv, VisionTypes, Silent, NothingLeft
<1>3. CASE V!handle_info
  BY <1>3, SuccessStep, DataStep, StopsVision
  DEF V!handle_info, V!handle_data_raises, V!handle_exit_status
<1> QED BY <1>1, <1>2, <1>3, CallStep, CastStep, ProgramStep DEF V!Next

LEMMA VisionStart ==
  ASSUME V!Init
  PROVE  VisionInv
<1>1. /\ callers = <<>> /\ stdin = <<>> /\ stdout = <<>> /\ visionProgram = "running"
      /\ astray = FALSE /\ commands = 0
  BY DEF V!Init
<1>2. DOMAIN <<>> = {} /\ \A S : <<>> \in Seq(S)
  OBVIOUS
<1>3. /\ V!Increasing(<<>>) /\ Before(<<>>, <<>>) /\ UpTo(commands, <<>>)
      /\ Of(<<>>) = {} /\ V!Numbers(<<>>) = {}
  BY <1>2 DEF V!Increasing, Before, UpTo, Of, V!Numbers
<1>4. Sorted /\ Matched
  BY <1>1, <1>3 DEF Sorted, Matched
<1> QED BY <1>1, <1>2, <1>4 DEF VisionInv, VisionTypes, Silent, NothingLeft

LEMMA VisionOwn ==
  ASSUME VisionInv
  PROVE  V!OwnAnswer
<1> SUFFICES ASSUME ~astray, visionProgram = "running"
             PROVE  /\ Of(callers) = V!Numbers(stdout) \cup V!Numbers(stdin)
                    /\ V!Increasing(callers)
                    /\ V!Increasing(stdout \o stdin)
  BY DEF V!OwnAnswer, Of
<1>1. Sorted /\ Matched
  BY DEF VisionInv
<1> DEFINE s == stdout \o stdin
<1>2. /\ DOMAIN s = 1..(Len(stdout) + Len(stdin)) /\ DOMAIN stdout = 1..Len(stdout)
      /\ DOMAIN stdin = 1..Len(stdin) /\ Len(stdout) \in Nat /\ Len(stdin) \in Nat
      /\ \A i \in DOMAIN s : s[i] = IF i <= Len(stdout) THEN stdout[i] ELSE stdin[i - Len(stdout)]
  BY DEF VisionInv, VisionTypes
<1> HIDE DEF s
<1>3. V!Increasing(stdout) /\ V!Increasing(stdin) /\ Before(stdout, stdin)
  BY <1>1 DEF Sorted
<1>4. V!Increasing(s)
  <2> SUFFICES ASSUME NEW i \in DOMAIN s, NEW j \in DOMAIN s, i < j
               PROVE  s[i].number < s[j].number
    BY DEF V!Increasing
  <2>1. CASE j <= Len(stdout)
    BY <2>1, <1>2, <1>3 DEF V!Increasing
  <2>2. CASE i > Len(stdout)
    BY <2>2, <1>2, <1>3 DEF V!Increasing
  <2>3. CASE i <= Len(stdout) /\ j > Len(stdout)
    BY <2>3, <1>2, <1>3 DEF Before
  <2> QED BY <2>1, <2>2, <2>3, <1>2
<1> QED BY <1>1, <1>4 DEF Sorted, Matched, s

-----------------------------------------------------------------------------
(* gamepad: commands, messages and callers of a port.                      *)
(* Commands and messages.                                                  *)
Command == [kind : G!Call \cup {"disconnect"}, call : Nat]
Message == [type : {"answer", "error", "Connected", "event"}, call : Nat, connection : Nat]

ProxyTypes ==
  /\ calls \in Nat /\ behind \in Int /\ connection \in Nat /\ mapping \in Nat /\ reader \in Nat
  /\ thread \in {"none", "starting", "reading"}
  /\ proxyProgram \in {"running", "failed", "down"}
  /\ input \in Seq(Command) /\ mailbox \in Seq(Message) /\ clients \in Seq(Nat)

(* Calls have numbers, disconnects and events have none.                   *)
Numbered ==
  /\ \A i \in DOMAIN input : input[i].call > 0 <=> input[i].kind \in G!Call
  /\ \A i \in DOMAIN mailbox : mailbox[i].type = "event" => mailbox[i].call = 0

NothingQueued ==
  proxyProgram = "down" =>
    clients = <<>> /\ input = <<>> /\ mailbox = <<>> /\ reader = 0 /\ behind = 0

(* The calls answered or given an error since the program started, which   *)
(* are all but the last: those that wait and those the queue is behind by. *)
Answered == calls - Len(clients) - behind

(* The calls to be answered and those queued are both the last ones made.  *)
Counted ==
  /\ behind >= 0 /\ Answered >= 0
  /\ G!Pending = (Answered + 1)..calls
  /\ \A i \in DOMAIN clients : clients[i] = calls - Len(clients) + i

ProxyInv ==
  /\ ProxyTypes /\ Numbered /\ NothingQueued
  /\ proxyProgram = "running" => G!AnsweredInOrder /\ Counted

-----------------------------------------------------------------------------
(* What is appended is the last call, or none.                             *)
LEMMA CallsAppended ==
  ASSUME NEW S, NEW s \in Seq(S), NEW e \in S
  PROVE  /\ Append(s, e) \in Seq(S)
         /\ DOMAIN Append(s, e) = DOMAIN s \cup {Len(s) + 1}
         /\ \A i \in DOMAIN s : Append(s, e)[i] = s[i] /\ i < Len(s) + 1
         /\ Append(s, e)[Len(s) + 1] = e
OBVIOUS

LEMMA CallsGrow ==
  ASSUME NEW S, NEW s \in Seq(S), NEW e \in S
  PROVE  /\ G!Calls(Append(s, e)) = G!Calls(s) \cup ({e.call} \ {0})
         /\ G!InOrder(s) /\ G!Below(G!Calls(s), {e.call} \ {0}) => G!InOrder(Append(s, e))
<1> DEFINE t == Append(s, e)
<1>1. /\ DOMAIN t = DOMAIN s \cup {Len(s) + 1}
      /\ \A i \in DOMAIN s : t[i] = s[i] /\ i \in Nat /\ i < Len(s) + 1
      /\ t[Len(s) + 1] = e /\ Len(s) \in Nat
  OBVIOUS
<1> HIDE DEF t
<1>2. G!Calls(t) = G!Calls(s) \cup ({e.call} \ {0})
  BY <1>1 DEF G!Calls
<1>3. ASSUME G!InOrder(s), G!Below(G!Calls(s), {e.call} \ {0})
      PROVE  G!InOrder(t)
  <2> SUFFICES ASSUME NEW i \in DOMAIN t, NEW j \in DOMAIN t,
                      i < j, t[i].call > 0, t[j].call > 0
               PROVE  t[i].call < t[j].call
    BY DEF G!InOrder
  <2>1. CASE j \in DOMAIN s
    <3>1. i \in DOMAIN s
      BY <2>1, <1>1
    <3> QED BY <2>1, <3>1, <1>1, <1>3 DEF G!InOrder
  <2>2. CASE j = Len(s) + 1
    <3>1. i \in DOMAIN s /\ t[i] = s[i] /\ t[j] = e
      BY <2>2, <1>1
    <3>2. s[i].call # 0 /\ e.call # 0
      BY <3>1
    <3>3. s[i].call \in G!Calls(s)
      BY <3>1, <3>2 DEF G!Calls
    <3> QED BY <3>1, <3>2, <3>3, <1>3 DEF G!Below
  <2> QED BY <2>1, <2>2, <1>1
<1> QED BY <1>2, <1>3 DEF t

(* What is taken from the front is the first call, or none.                *)
LEMMA CallsTaken ==
  ASSUME NEW S, NEW s \in Seq(S), s # <<>>
  PROVE  /\ Head(s) \in S /\ Tail(s) \in Seq(S)
         /\ 1 \in DOMAIN s /\ Head(s) = s[1]
         /\ \A i \in DOMAIN Tail(s) :
              i \in Nat /\ i + 1 \in DOMAIN s /\ i + 1 > 1 /\ Tail(s)[i] = s[i + 1]
         /\ \A i \in DOMAIN s : i # 1 => i - 1 \in DOMAIN Tail(s) /\ Tail(s)[i - 1] = s[i]
         /\ G!Calls(s) = G!Calls(Tail(s)) \cup ({Head(s).call} \ {0})
         /\ G!InOrder(s) /\ (\A i \in DOMAIN s : s[i].call \in Nat) =>
              G!InOrder(Tail(s)) /\ G!Below({Head(s).call} \ {0}, G!Calls(Tail(s)))
<1> DEFINE t == Tail(s)  h == Head(s)
<1>1. /\ Len(s) \in Nat \ {0} /\ DOMAIN s = 1..Len(s) /\ DOMAIN t = 1..(Len(s) - 1)
      /\ \A i \in 1..(Len(s) - 1) : t[i] = s[i + 1]
      /\ h \in S /\ t \in Seq(S) /\ h = s[1]
  OBVIOUS
<1> HIDE DEF t, h
<1>2. \A i \in DOMAIN t : i \in Nat /\ i + 1 \in DOMAIN s /\ i + 1 > 1 /\ t[i] = s[i + 1]
  BY <1>1
<1>3. \A i \in DOMAIN s : i # 1 => i - 1 \in DOMAIN t /\ t[i - 1] = s[i]
  BY <1>1
<1>4. 1 \in DOMAIN s
  BY <1>1
<1>5. G!Calls(s) = G!Calls(t) \cup ({h.call} \ {0})
  <2>1. \A x \in G!Calls(s) : x \in G!Calls(t) \/ (x = h.call /\ x # 0)
    BY <1>1, <1>3 DEF G!Calls
  <2>2. \A x \in G!Calls(t) : x \in G!Calls(s)
    BY <1>2 DEF G!Calls
  <2>3. h.call # 0 => h.call \in G!Calls(s)
    BY <1>1, <1>4 DEF G!Calls
  <2> QED BY <2>1, <2>2, <2>3
<1>6. ASSUME G!InOrder(s), \A i \in DOMAIN s : s[i].call \in Nat
      PROVE  G!InOrder(t) /\ G!Below({h.call} \ {0}, G!Calls(t))
  <2>1. G!InOrder(t)
    BY <1>2, <1>6 DEF G!InOrder
  <2>2. ASSUME h.call # 0, NEW m \in G!Calls(t) PROVE h.call < m
    <3>1. PICK i \in DOMAIN t : m = t[i].call /\ m # 0
      BY <2>2 DEF G!Calls
    <3> QED BY SMTT(30), <3>1, <2>2, <1>1, <1>2, <1>4, <1>6 DEF G!InOrder
  <2> QED BY <2>1, <2>2 DEF G!Below
<1> QED BY <1>1, <1>2, <1>3, <1>4, <1>5, <1>6 DEF t, h

LEMMA ProxyNumbers ==
  ASSUME ProxyTypes
  PROVE  /\ \A i \in DOMAIN input : input[i] \in Command /\ input[i].call \in Nat
         /\ \A i \in DOMAIN mailbox :
              /\ mailbox[i] \in Message /\ mailbox[i].call \in Nat
              /\ mailbox[i].connection \in Nat
         /\ \A i \in DOMAIN clients : clients[i] \in Nat
         /\ G!Calls(input) \subseteq Nat /\ G!Calls(mailbox) \subseteq Nat
         /\ G!Answering \subseteq Nat /\ G!Pending \subseteq Nat
<1>1. /\ input \in Seq(Command) /\ mailbox \in Seq(Message) /\ clients \in Seq(Nat)
      /\ reader \in Nat
  BY DEF ProxyTypes
<1>2. /\ \A i \in DOMAIN input : input[i] \in Command
      /\ \A i \in DOMAIN mailbox : mailbox[i] \in Message
      /\ \A i \in DOMAIN clients : clients[i] \in Nat
  BY <1>1
<1>3. /\ \A x \in Command : x.call \in Nat
      /\ \A x \in Message : x.call \in Nat /\ x.connection \in Nat
  BY DEF Command, Message
<1>4. G!Calls(input) \subseteq Nat /\ G!Calls(mailbox) \subseteq Nat /\ G!Answering \subseteq Nat
  BY <1>1, <1>2, <1>3 DEF G!Calls, G!Answering
<1> QED BY <1>2, <1>3, <1>4 DEF G!Pending

(* Nothing the clients wait for comes or goes.                             *)
LEMMA SameCounted ==
  ASSUME Counted, calls' = calls, clients' = clients, behind' = behind,
         G!Pending' = G!Pending
  PROVE  Counted'
BY DEF Counted, Answered

(* The same when what is queued is what the program would read.            *)
LEMMA NumberedInput ==
  ASSUME ProxyInv, input # <<>>, input' = Tail(input)
  PROVE  /\ input' \in Seq(Command)
         /\ \A i \in DOMAIN input' : input'[i].call > 0 <=> input'[i].kind \in G!Call
<1>1. /\ Tail(input) \in Seq(Command)
      /\ \A i \in DOMAIN Tail(input) : i + 1 \in DOMAIN input /\ Tail(input)[i] = input[i + 1]
  BY CallsTaken DEF ProxyInv, ProxyTypes
<1> QED BY <1>1 DEF ProxyInv, Numbered

LEMMA NumberedMailbox ==
  ASSUME ProxyInv, NEW e \in Message, e.type = "event" => e.call = 0,
         mailbox' = Append(mailbox, e)
  PROVE  /\ mailbox' \in Seq(Message)
         /\ \A i \in DOMAIN mailbox' : mailbox'[i].type = "event" => mailbox'[i].call = 0
<1>1. /\ Append(mailbox, e) \in Seq(Message)
      /\ DOMAIN Append(mailbox, e) = DOMAIN mailbox \cup {Len(mailbox) + 1}
      /\ \A i \in DOMAIN mailbox : Append(mailbox, e)[i] = mailbox[i]
      /\ Append(mailbox, e)[Len(mailbox) + 1] = e
  BY CallsAppended DEF ProxyInv, ProxyTypes
<1> QED BY <1>1 DEF ProxyInv, Numbered

(* The reader thread answers the command it has read.                      *)
LEMMA AnswerStep ==
  ASSUME ProxyInv, proxyProgram = "running", reader = 0, input # <<>>,
         input' = Tail(input), reader' = reader,
         NEW e \in Message, e.call = Head(input).call, e.type # "event",
         mailbox' = Append(mailbox, e),
         UNCHANGED <<waiting, clients, mapping, behind>>, UNCHANGED <<calls, events, proxyStops>>,
         UNCHANGED <<thread, connection, connected>>, proxyProgram' = proxyProgram
  PROVE  ProxyInv'
<1>1. ProxyTypes /\ G!AnsweredInOrder /\ Counted
  BY DEF ProxyInv
<1>2. input \in Seq(Command) /\ mailbox \in Seq(Message)
  BY <1>1 DEF ProxyTypes
<1>3. \A i \in DOMAIN input : input[i].call \in Nat
  BY <1>1, ProxyNumbers
<1> DEFINE h == Head(input).call
<1>4. /\ G!Calls(input) = G!Calls(Tail(input)) \cup ({h} \ {0})
      /\ G!InOrder(input) =>
           G!InOrder(Tail(input)) /\ G!Below({h} \ {0}, G!Calls(Tail(input)))
  BY <1>2, <1>3, CallsTaken
<1>5. /\ G!Calls(mailbox') = G!Calls(mailbox) \cup ({h} \ {0})
      /\ G!InOrder(mailbox) /\ G!Below(G!Calls(mailbox), {h} \ {0}) => G!InOrder(mailbox')
  <2> e.call = h /\ mailbox' = Append(mailbox, e) /\ mailbox \in Seq(Message)
    BY <1>2
  <2>1. /\ G!Calls(Append(mailbox, e)) = G!Calls(mailbox) \cup ({e.call} \ {0})
        /\ G!InOrder(mailbox) /\ G!Below(G!Calls(mailbox), {e.call} \ {0}) =>
             G!InOrder(Append(mailbox, e))
    BY CallsGrow
  <2> QED BY <2>1
<1> HIDE DEF h
<1>6. G!Answering = {} /\ G!Answering' = {}
  BY DEF G!Answering
<1>7. G!Pending' = G!Pending
  BY <1>4, <1>5, <1>6 DEF G!Pending
<1>8. G!AnsweredInOrder'
  <2>1. /\ G!InOrder(mailbox) /\ G!InOrder(input)
        /\ G!Below(G!Calls(mailbox), G!Calls(input))
    BY <1>1, <1>6 DEF G!AnsweredInOrder
  <2>2. G!InOrder(mailbox') /\ G!InOrder(input')
    BY <2>1, <1>4, <1>5 DEF G!Below
  <2>3. G!Below(G!Calls(mailbox'), G!Calls(input'))
    BY <2>1, <1>4, <1>5 DEF G!Below
  <2> QED BY <2>2, <2>3, <1>6 DEF G!AnsweredInOrder, G!Below
<1>9. Counted'
  BY <1>1, <1>7, SameCounted
<1>10. ProxyTypes' /\ Numbered'
  <2>1. /\ mailbox' \in Seq(Message)
        /\ \A i \in DOMAIN mailbox' : mailbox'[i].type = "event" => mailbox'[i].call = 0
    BY NumberedMailbox
  <2>2. /\ input' \in Seq(Command)
        /\ \A i \in DOMAIN input' : input'[i].call > 0 <=> input'[i].kind \in G!Call
    BY NumberedInput
  <2> QED BY <1>1, <2>1, <2>2 DEF ProxyTypes, Numbered
<1> QED BY <1>8, <1>9, <1>10 DEF ProxyInv, NothingQueued

(* It takes the call of a connection to its end, or a disconnect.          *)
LEMMA ReadStep ==
  ASSUME ProxyInv, proxyProgram = "running", reader = 0, input # <<>>,
         input' = Tail(input), reader' = Head(input).call, mailbox' = mailbox,
         UNCHANGED <<waiting, clients, mapping, behind>>, UNCHANGED <<calls, events, proxyStops>>,
         connection' \in Nat, thread' \in {"none", "starting", "reading"},
         proxyProgram' = proxyProgram
  PROVE  ProxyInv'
<1>1. ProxyTypes /\ G!AnsweredInOrder /\ Counted
  BY DEF ProxyInv
<1>2. input \in Seq(Command) /\ mailbox \in Seq(Message)
  BY <1>1 DEF ProxyTypes
<1>3. \A i \in DOMAIN input : input[i].call \in Nat
  BY <1>1, ProxyNumbers
<1> DEFINE h == Head(input).call
<1>4. /\ G!Calls(input) = G!Calls(Tail(input)) \cup ({h} \ {0})
      /\ G!InOrder(input) =>
           G!InOrder(Tail(input)) /\ G!Below({h} \ {0}, G!Calls(Tail(input)))
      /\ h \in Nat
  BY ZenonT(60), <1>2, <1>3, CallsTaken
<1> HIDE DEF h
<1>5. G!Answering = {} /\ G!Answering' = {h} \ {0}
  BY DEF G!Answering, h
<1>6. G!Pending' = G!Pending
  BY <1>4, <1>5 DEF G!Pending
<1>7. G!AnsweredInOrder'
  <2>1. /\ G!InOrder(mailbox) /\ G!InOrder(input)
        /\ G!Below(G!Calls(mailbox), G!Calls(input))
    BY <1>1, <1>5 DEF G!AnsweredInOrder
  <2> QED BY <2>1, <1>4, <1>5 DEF G!AnsweredInOrder, G!Below
<1>8. Counted'
  BY <1>1, <1>6, SameCounted
<1>9. ProxyTypes' /\ Numbered'
  BY <1>1, <1>4, NumberedInput DEF ProxyTypes, Numbered, ProxyInv, h
<1> QED BY <1>7, <1>8, <1>9 DEF ProxyInv, NothingQueued

(* It answers that connection.                                             *)
LEMMA ConnectedStep ==
  ASSUME ProxyInv, G!connect_answers
  PROVE  ProxyInv'
<1> DEFINE e == G!Answer(reader, "Connected", connection)
<1>1. /\ proxyProgram = "running" /\ reader # 0 /\ reader' = 0
      /\ mailbox' = Append(mailbox, e)
      /\ UNCHANGED <<waiting, clients, mapping, behind>> /\ input' = input
      /\ UNCHANGED <<thread, connection, connected>> /\ proxyProgram' = proxyProgram
      /\ calls' = calls
  BY DEF G!connect_answers, G!send_msg, G!server
<1>2. ProxyTypes /\ G!AnsweredInOrder /\ Counted
  BY <1>1 DEF ProxyInv
<1>3. e \in Message /\ e.call = reader /\ e.type # "event" /\ mailbox \in Seq(Message)
  BY <1>2 DEF G!Answer, Message, ProxyTypes
<1>4. /\ G!Calls(mailbox') = G!Calls(mailbox) \cup ({reader} \ {0})
      /\ G!InOrder(mailbox) /\ G!Below(G!Calls(mailbox), {reader} \ {0}) => G!InOrder(mailbox')
  <2> e.call = reader /\ mailbox' = Append(mailbox, e) /\ mailbox \in Seq(Message)
    BY <1>1, <1>3
  <2> HIDE DEF e
  <2>1. /\ G!Calls(Append(mailbox, e)) = G!Calls(mailbox) \cup ({e.call} \ {0})
        /\ G!InOrder(mailbox) /\ G!Below(G!Calls(mailbox), {e.call} \ {0}) =>
             G!InOrder(Append(mailbox, e))
    BY <1>3, CallsGrow
  <2> QED BY <2>1
<1>5. G!Answering = {reader} \ {0} /\ G!Answering' = {}
  BY <1>1 DEF G!Answering
<1>6. G!Pending' = G!Pending
  BY <1>1, <1>4, <1>5 DEF G!Pending
<1>7. G!AnsweredInOrder'
  BY <1>1, <1>2, <1>4, <1>5 DEF G!AnsweredInOrder, G!Below
<1>8. Counted'
  BY <1>1, <1>2, <1>6, SameCounted
<1>9. ProxyTypes' /\ Numbered'
  <2>1. /\ mailbox' \in Seq(Message)
        /\ \A i \in DOMAIN mailbox' : mailbox'[i].type = "event" => mailbox'[i].call = 0
    BY <1>1, <1>3, NumberedMailbox
  <2> QED BY <1>1, <1>2, <2>1 DEF ProxyTypes, Numbered, ProxyInv
<1> QED BY <1>1, <1>7, <1>8, <1>9 DEF ProxyInv, NothingQueued

(* The input thread's messages answer no call.                             *)
LEMMA PushStep ==
  ASSUME ProxyInv, proxyProgram = "running",
         NEW e \in Message, e.call = 0, mailbox' = Append(mailbox, e),
         UNCHANGED <<waiting, clients, mapping, behind>>, UNCHANGED <<calls, proxyStops>>,
         UNCHANGED <<reader, connection>>, thread' \in {"none", "starting", "reading"},
         input' = input, proxyProgram' = proxyProgram
  PROVE  ProxyInv'
<1>1. ProxyTypes /\ G!AnsweredInOrder /\ Counted /\ mailbox \in Seq(Message)
  BY DEF ProxyInv, ProxyTypes
<1>2. /\ G!Calls(mailbox') = G!Calls(mailbox) \cup ({0} \ {0})
      /\ G!InOrder(mailbox) /\ G!Below(G!Calls(mailbox), {0} \ {0}) => G!InOrder(mailbox')
  <2> e.call = 0 /\ mailbox' = Append(mailbox, e) /\ mailbox \in Seq(Message)
    BY <1>1
  <2>1. /\ G!Calls(Append(mailbox, e)) = G!Calls(mailbox) \cup ({e.call} \ {0})
        /\ G!InOrder(mailbox) /\ G!Below(G!Calls(mailbox), {e.call} \ {0}) =>
             G!InOrder(Append(mailbox, e))
    BY CallsGrow
  <2> QED BY <2>1
<1>3. G!Calls(mailbox') = G!Calls(mailbox) /\ (G!InOrder(mailbox) => G!InOrder(mailbox'))
  BY <1>2 DEF G!Below
<1>4. G!Answering' = G!Answering
  BY DEF G!Answering
<1>5. G!Pending' = G!Pending
  BY <1>3, <1>4 DEF G!Pending
<1>6. G!AnsweredInOrder'
  BY <1>1, <1>3, <1>4 DEF G!AnsweredInOrder
<1>7. Counted'
  BY <1>1, <1>5, SameCounted
<1>8. ProxyTypes' /\ Numbered'
  <2>1. /\ mailbox' \in Seq(Message)
        /\ \A i \in DOMAIN mailbox' : mailbox'[i].type = "event" => mailbox'[i].call = 0
    BY NumberedMailbox
  <2> QED BY <1>1, <2>1 DEF ProxyTypes, Numbered, ProxyInv
<1> QED BY <1>6, <1>7, <1>8 DEF ProxyInv, NothingQueued

(* A device that cannot be opened, or the end of the program.              *)
LEMMA RaiseStep ==
  ASSUME ProxyInv, input # <<>>, input' = Tail(input), G!Raises,
         UNCHANGED <<waiting, clients, mapping, behind>>, calls' = calls
  PROVE  ProxyInv'
BY NumberedInput DEF G!Raises, G!threads, ProxyInv, ProxyTypes, Numbered, NothingQueued

LEMMA StopsProxy ==
  ASSUME ProxyInv, G!Stops
  PROVE  ProxyInv'
<1>1. /\ clients' = <<>> /\ mapping' = 0 /\ behind' = 0 /\ input' = <<>> /\ mailbox' = <<>>
      /\ reader' = 0 /\ thread' = "none" /\ proxyProgram' = "down"
      /\ connection' = connection /\ calls' = calls
  BY DEF G!Stops
<1>2. <<>> \in Seq(Command) /\ <<>> \in Seq(Message) /\ <<>> \in Seq(Nat) /\ DOMAIN <<>> = {}
  OBVIOUS
<1> QED BY <1>1, <1>2 DEF ProxyInv, ProxyTypes, Numbered, NothingQueued

LEMMA ReaderStep ==
  ASSUME ProxyInv, G!Reader
  PROVE  ProxyInv'
<1>1. ASSUME NEW kind \in G!Call \cup {"disconnect"}, G!Reads(kind)
      PROVE  /\ proxyProgram = "running" /\ reader = 0 /\ input # <<>>
             /\ Head(input).kind = kind /\ input' = Tail(input)
             /\ UNCHANGED <<waiting, clients, mapping, behind>>
             /\ UNCHANGED <<calls, events, proxyStops>>
             /\ Head(input).call \in Nat
             /\ Head(input).call = 0 <=> kind = "disconnect"
  <2>1. input \in Seq(Command) /\ input # <<>> /\ Head(input).kind = kind
    BY <1>1 DEF G!Reads, ProxyInv, ProxyTypes
  <2>2. Head(input) \in Command /\ 1 \in DOMAIN input /\ Head(input) = input[1]
    BY <2>1, CallsTaken
  <2>3. "disconnect" \notin G!Call
    BY DEF G!Call
  <2> QED BY <1>1, <2>1, <2>2, <2>3 DEF G!Reads, G!server, Command, ProxyInv, Numbered
<1>2. ASSUME NEW t \in {"answer", "error"}, NEW kind \in G!Call, G!Reads(kind),
             G!send_msg(G!Answer(Head(input).call, t, 0)),
             UNCHANGED <<G!threads, proxyProgram>>
      PROVE  ProxyInv'
  <2> DEFINE e == G!Answer(Head(input).call, t, 0)
  <2>1. e \in Message /\ e.call = Head(input).call /\ e.type # "event"
    BY <1>1, <1>2 DEF G!Answer, Message
  <2>2. mailbox' = Append(mailbox, e)
    BY <1>2 DEF G!send_msg
  <2> HIDE DEF e
  <2>3. UNCHANGED <<thread, connection, connected>> /\ reader' = reader /\ proxyProgram' = proxyProgram
    BY <1>2 DEF G!threads
  <2> QED BY <1>1, <1>2, <2>1, <2>2, <2>3, AnswerStep
<1>3. ASSUME NEW kind \in G!Call, G!Reads(kind), G!Raises PROVE ProxyInv'
  BY <1>1, <1>3, RaiseStep
<1>4. CASE G!list_devices
  BY <1>2, <1>3, <1>4 DEF G!list_devices, G!Call
<1>5. CASE G!capabilities
  BY <1>2, <1>3, <1>5 DEF G!capabilities, G!Call
<1>6. CASE G!connect
  <2>1. G!Reads("connect") /\ "connect" \in G!Call
    BY <1>6 DEF G!connect, G!Call
  <2>2. CASE G!StartsThread
    <3>1. /\ reader' = Head(input).call /\ mailbox' = mailbox /\ proxyProgram' = proxyProgram
          /\ connection' \in Nat /\ thread' \in {"none", "starting", "reading"}
      BY <2>2 DEF G!StartsThread, ProxyInv, ProxyTypes
    <3> QED BY <1>1, <2>1, <3>1, ReadStep
  <2> QED BY <1>2, <1>3, <1>6, <2>1, <2>2 DEF G!connect
<1>7. CASE G!disconnect
  <2>1. G!Reads("disconnect")
    BY <1>7 DEF G!disconnect
  <2>2. /\ mailbox' = mailbox /\ proxyProgram' = proxyProgram /\ reader' = reader
        /\ connection' \in Nat /\ thread' \in {"none", "starting", "reading"}
    BY <1>7 DEF G!disconnect, ProxyInv, ProxyTypes
  <2>3. reader' = Head(input).call
    BY <1>1, <2>1, <2>2
  <2> QED BY <1>1, <2>1, <2>2, <2>3, ReadStep
<1> QED BY <1>4, <1>5, <1>6, <1>7, ConnectedStep DEF G!Reader

LEMMA InputThreadStep ==
  ASSUME ProxyInv, G!InputThread
  PROVE  ProxyInv'
<1>1. ASSUME G!InputStep
      PROVE  /\ proxyProgram = "running" /\ proxyProgram' = proxyProgram
             /\ UNCHANGED <<waiting, clients, mapping, behind>> /\ UNCHANGED <<calls, proxyStops>>
             /\ UNCHANGED <<reader, connection>> /\ input' = input
  BY <1>1 DEF G!InputStep, G!server
<1>2. CASE G!input_job
  <2>1. G!InputStep /\ thread' = "reading" /\ mailbox' = mailbox
    BY <1>2 DEF G!input_job
  <2> QED BY <1>1, <2>1
          DEF ProxyInv, ProxyTypes, Numbered, NothingQueued, Counted, Answered, G!Pending,
              G!Answering, G!AnsweredInOrder
<1>3. CASE G!input_event
  <2>1. G!Event(connection) \in Message /\ G!Event(connection).call = 0
    BY DEF G!Event, Message, ProxyInv, ProxyTypes
  <2>2. G!InputStep /\ thread' \in {"reading", "none"} /\ mailbox' = Append(mailbox, G!Event(connection))
    BY <1>3 DEF G!input_event, G!send_msg
  <2> QED BY <1>1, <2>1, <2>2, PushStep
<1>4. CASE G!input_raises
  <2>1. G!Answer(0, "error", 0) \in Message /\ G!Answer(0, "error", 0).call = 0
    BY DEF G!Answer, Message
  <2>2. G!InputStep /\ thread' = "none" /\ mailbox' = Append(mailbox, G!Answer(0, "error", 0))
    BY <1>4 DEF G!input_raises, G!send_msg
  <2> QED BY <1>1, <2>1, <2>2, PushStep
<1> QED BY <1>2, <1>3, <1>4 DEF G!InputThread

(* What the server takes from the mailbox is the first call to be          *)
(* answered, or answers none.                                              *)
LEMMA TakenMessage ==
  ASSUME ProxyInv, G!Receives
  PROVE  /\ proxyProgram # "down" /\ proxyProgram' = proxyProgram /\ mailbox # <<>>
         /\ mailbox' = Tail(mailbox) /\ Head(mailbox) \in Message
         /\ calls' = calls /\ input' = input
         /\ UNCHANGED <<reader, thread, connection>>
         /\ mailbox' \in Seq(Message) /\ Numbered'
         /\ Head(mailbox).type = "event" => Head(mailbox).call = 0
         /\ proxyProgram = "running" =>
              /\ G!AnsweredInOrder'
              /\ Head(mailbox).call = 0 => G!Pending' = G!Pending
              /\ Head(mailbox).call # 0 =>
                   Head(mailbox).call = Answered + 1 /\ G!Pending' = (Answered + 2)..calls
<1>1. /\ proxyProgram # "down" /\ proxyProgram' = proxyProgram /\ mailbox # <<>>
      /\ mailbox' = Tail(mailbox)
      /\ calls' = calls /\ input' = input
      /\ UNCHANGED <<reader, thread, connection>>
  BY DEF G!Receives, G!threads
<1>2. mailbox \in Seq(Message) /\ ProxyTypes
  BY DEF ProxyInv, ProxyTypes
<1>3. \A i \in DOMAIN mailbox : mailbox[i].call \in Nat
  BY <1>2, ProxyNumbers
<1> DEFINE h == Head(mailbox)
<1>4. /\ h \in Message /\ Tail(mailbox) \in Seq(Message)
      /\ 1 \in DOMAIN mailbox /\ h = mailbox[1]
      /\ \A i \in DOMAIN Tail(mailbox) : i + 1 \in DOMAIN mailbox /\ Tail(mailbox)[i] = mailbox[i + 1]
      /\ G!Calls(mailbox) = G!Calls(Tail(mailbox)) \cup ({h.call} \ {0})
      /\ G!InOrder(mailbox) =>
           G!InOrder(Tail(mailbox)) /\ G!Below({h.call} \ {0}, G!Calls(Tail(mailbox)))
  BY <1>1, <1>2, <1>3, CallsTaken
<1> HIDE DEF h
<1>5. Numbered' /\ (h.type = "event" => h.call = 0)
  BY <1>1, <1>4 DEF ProxyInv, Numbered
<1>6. G!Answering' = G!Answering
  BY <1>1 DEF G!Answering
<1>7. ASSUME proxyProgram = "running"
      PROVE  /\ G!AnsweredInOrder'
             /\ h.call = 0 => G!Pending' = G!Pending
             /\ h.call # 0 => h.call = Answered + 1 /\ G!Pending' = (Answered + 2)..calls
  <2>1. G!AnsweredInOrder /\ Counted
    BY <1>7 DEF ProxyInv
  <2>2. G!InOrder(mailbox') /\ G!Below({h.call} \ {0}, G!Calls(mailbox'))
    BY <2>1, <1>1, <1>4 DEF G!AnsweredInOrder
  <2>3. G!Calls(mailbox) = G!Calls(mailbox') \cup ({h.call} \ {0})
    BY <1>1, <1>4
  <2>4. G!AnsweredInOrder'
    BY <2>1, <2>2, <2>3, <1>1, <1>6 DEF G!AnsweredInOrder, G!Below
  <2>5. h.call = 0 => G!Pending' = G!Pending
    BY <2>3, <1>1, <1>6 DEF G!Pending
  <2>6. ASSUME h.call # 0 PROVE h.call = Answered + 1 /\ G!Pending' = (Answered + 2)..calls
    <3>1. G!Pending = G!Pending' \cup {h.call}
      BY <2>3, <2>6, <1>1, <1>6 DEF G!Pending
    <3>2. \A m \in G!Pending' : h.call < m
      <4>1. h.call \in G!Calls(mailbox)
        BY <2>3, <2>6
      <4>2. \A m \in G!Calls(mailbox') : h.call < m
        BY <2>2, <2>6 DEF G!Below
      <4>3. \A m \in G!Answering \cup G!Calls(input) : h.call < m
        BY <2>1, <4>1 DEF G!AnsweredInOrder, G!Below
      <4>4. \A m \in G!Pending' : m \in G!Calls(mailbox') \/ m \in G!Answering \cup G!Calls(input)
        BY <1>1, <1>6 DEF G!Pending
      <4> QED BY <4>2, <4>3, <4>4
    <3>3. G!Pending = (Answered + 1)..calls /\ Answered \in Nat /\ calls \in Nat
      BY <2>1, <1>2 DEF Counted, Answered, ProxyTypes
    <3>4. G!Pending' \subseteq Nat
      BY <3>1, <1>2, ProxyNumbers
    <3>5. h.call \in Nat
      BY <1>3, <1>4
    <3>6. h.call = Answered + 1
      <4>1. h.call \in G!Pending
        BY <3>1
      <4>2. Answered + 1 \in G!Pending
        BY <4>1, <3>3, <3>5
      <4>3. Answered + 1 = h.call \/ h.call < Answered + 1
        BY <4>2, <3>1, <3>2
      <4> QED BY <4>1, <4>3, <3>3, <3>5
    <3>7. \A m \in G!Pending' : m \in (Answered + 2)..calls
      BY <3>1, <3>2, <3>3, <3>4, <3>6
    <3>8. \A m \in (Answered + 2)..calls : m \in G!Pending'
      BY <3>1, <3>3, <3>6
    <3> QED BY <3>6, <3>7, <3>8
  <2> QED BY <2>4, <2>5, <2>6
<1> QED BY <1>1, <1>4, <1>5, <1>7 DEF h

LEMMA PushTaken ==
  ASSUME ProxyInv, G!handle_push
  PROVE  ProxyInv'
<1>1. G!Receives /\ Head(mailbox).type = "event" /\ UNCHANGED <<waiting, clients, mapping, behind>>
  BY DEF G!handle_push, G!ForCaller, G!server
<1>2. /\ proxyProgram # "down" /\ proxyProgram' = proxyProgram
      /\ calls' = calls /\ input' = input /\ UNCHANGED <<reader, thread, connection>>
      /\ mailbox' \in Seq(Message) /\ Numbered'
      /\ proxyProgram = "running" => G!AnsweredInOrder' /\ G!Pending' = G!Pending
  BY <1>1, TakenMessage
<1>3. proxyProgram = "running" => Counted'
  BY <1>1, <1>2, SameCounted DEF ProxyInv
<1>4. ProxyTypes'
  BY <1>1, <1>2 DEF ProxyInv, ProxyTypes
<1> QED BY <1>2, <1>3, <1>4 DEF ProxyInv, NothingQueued

LEMMA ReplyStep ==
  ASSUME ProxyInv, G!reply
  PROVE  ProxyInv'
<1> DEFINE h == Head(mailbox)
<1>1. /\ G!Receives /\ h.type # "event"
      /\ mapping' = IF h.type = "Connected" THEN h.connection ELSE mapping
      /\ clients' = IF clients = <<>> THEN clients ELSE Tail(clients)
      /\ behind' = CASE clients # <<>> /\ ~(h.call > 0) -> behind + 1
                     [] clients = <<>> /\ h.call > 0 -> behind - 1
                     [] OTHER -> behind
  BY DEF G!reply, G!ForCaller, G!IsAnswer
<1>2. /\ proxyProgram # "down" /\ proxyProgram' = proxyProgram /\ h \in Message
      /\ calls' = calls /\ input' = input /\ UNCHANGED <<reader, thread, connection>>
      /\ mailbox' \in Seq(Message) /\ Numbered'
      /\ proxyProgram = "running" =>
           /\ G!AnsweredInOrder'
           /\ h.call = 0 => G!Pending' = G!Pending
           /\ h.call # 0 => h.call = Answered + 1 /\ G!Pending' = (Answered + 2)..calls
  BY <1>1, TakenMessage
<1>3. h.call \in Nat /\ h.connection \in Nat
  BY <1>2 DEF Message
<1> HIDE DEF h
<1>4. clients \in Seq(Nat) /\ behind \in Int /\ calls \in Nat /\ mapping \in Nat
  BY DEF ProxyInv, ProxyTypes
<1>5. /\ clients' \in Seq(Nat)
      /\ clients # <<>> =>
           /\ Len(clients') = Len(clients) - 1
           /\ \A i \in DOMAIN clients' : i \in Nat /\ i + 1 \in DOMAIN clients /\ clients'[i] = clients[i + 1]
      /\ clients = <<>> => clients' = clients
  BY <1>1, <1>4
<1>6. behind' \in Int /\ mapping' \in Nat
  BY <1>1, <1>3, <1>4
<1>7. ProxyTypes'
  BY <1>2, <1>5, <1>6 DEF ProxyInv, ProxyTypes
<1>8. ASSUME proxyProgram = "running" PROVE Counted'
  <2>1. Counted /\ Len(clients) \in Nat /\ Len(clients') \in Nat
    BY <1>4, <1>5, <1>8 DEF ProxyInv
  <2>2. Answered' = calls - Len(clients') - behind'
    BY <1>2 DEF Answered
  <2>3. \A i \in DOMAIN clients : clients[i] = calls - Len(clients) + i
    BY <2>1 DEF Counted
  <2>4. CASE h.call = 0 /\ clients # <<>>
    <3>1. behind' = behind + 1
      BY <2>4, <1>1, <1>3
    <3>2. Answered' = Answered /\ G!Pending' = G!Pending
      <4>1. Answered = calls - Len(clients) - behind
        BY DEF Answered
      <4>2. Len(clients') = Len(clients) - 1
        BY <2>4, <1>5
      <4>3. Len(clients) \in Nat /\ behind \in Int /\ calls \in Nat
        BY <2>1, <1>4
      <4>4. calls - (Len(clients) - 1) - (behind + 1) = calls - Len(clients) - behind
        BY <4>3
      <4>5. Answered' = calls - (Len(clients) - 1) - (behind + 1)
        BY <4>2, <2>2, <3>1
      <4> QED BY <4>1, <4>4, <4>5, <2>4, <1>2, <1>8
    <3>3. \A i \in DOMAIN clients' : clients'[i] = calls - Len(clients') + i
      <4>1. Len(clients') = Len(clients) - 1
        BY <2>4, <1>5
      <4>2. \A i \in DOMAIN clients' : i \in Nat /\ i + 1 \in DOMAIN clients /\ clients'[i] = clients[i + 1]
        BY <2>4, <1>5
      <4>3. \A i \in DOMAIN clients' : clients'[i] = calls - Len(clients) + (i + 1)
        BY <4>2, <2>3
      <4> QED BY <4>1, <4>2, <4>3, <2>1, <1>4
    <3> QED BY <3>1, <3>2, <3>3, <2>1, <1>2, <1>4 DEF Counted
  <2>5. CASE h.call = 0 /\ clients = <<>>
    BY <2>5, <2>1, <1>1, <1>2, <1>5, <1>8, SameCounted
  <2>6. CASE h.call # 0 /\ clients # <<>>
    <3>1. behind' = behind /\ Answered' = Answered + 1
      <4>1. behind' = behind
        BY <2>6, <1>1, <1>3
      <4>2. Answered = calls - Len(clients) - behind
        BY DEF Answered
      <4>3. Len(clients') = Len(clients) - 1
        BY <2>6, <1>5
      <4>4. Len(clients) \in Nat /\ behind \in Int /\ calls \in Nat
        BY <2>1, <1>4
      <4>5. calls - (Len(clients) - 1) - behind = calls - Len(clients) - behind + 1
        BY <4>4
      <4>6. Answered' = calls - (Len(clients) - 1) - behind
        BY <4>1, <4>3, <2>2
      <4> QED BY <4>1, <4>2, <4>5, <4>6
    <3>2. \A i \in DOMAIN clients' : clients'[i] = calls - Len(clients') + i
      <4>1. Len(clients') = Len(clients) - 1
        BY <2>6, <1>5
      <4>2. \A i \in DOMAIN clients' : i \in Nat /\ i + 1 \in DOMAIN clients /\ clients'[i] = clients[i + 1]
        BY <2>6, <1>5
      <4>3. \A i \in DOMAIN clients' : clients'[i] = calls - Len(clients) + (i + 1)
        BY <4>2, <2>3
      <4> QED BY <4>1, <4>2, <4>3, <2>1, <1>4
    <3>3. G!Pending' = (Answered' + 1)..calls'
      BY <2>6, <3>1, <2>1, <1>2, <1>4, <1>8 DEF Counted, Answered
    <3>4. Answered' >= 0 /\ behind' >= 0
      BY <3>1, <2>1, <1>4 DEF Counted, Answered
    <3> QED BY <3>2, <3>3, <3>4, <1>2 DEF Counted
  <2>7. CASE h.call # 0 /\ clients = <<>>
    <3>1. behind' = behind - 1 /\ Answered' = Answered + 1 /\ clients' = clients
      BY <2>7, <2>2, <1>1, <1>3, <1>4, <1>5 DEF Answered
    <3>2. h.call \in G!Pending
      <4>1. G!Receives /\ mailbox \in Seq(Message)
        BY <1>1 DEF ProxyInv, ProxyTypes
      <4>2. 1 \in DOMAIN mailbox /\ h = mailbox[1]
        BY <4>1, CallsTaken DEF G!Receives, h
      <4> QED BY <4>2, <2>7 DEF G!Pending, G!Calls
    <3>3. h.call = Answered + 1 /\ h.call <= calls
      BY <3>2, <2>1, <2>7, <1>2, <1>3, <1>4, <1>8 DEF Counted
    <3>4. Len(clients) = 0
      BY <2>7
    <3>5. behind' >= 0 /\ Answered' >= 0
      BY <3>1, <3>3, <3>4, <2>1, <1>3, <1>4 DEF Counted, Answered
    <3>6. G!Pending' = (Answered' + 1)..calls'
      BY <2>7, <3>1, <2>1, <1>2, <1>4, <1>8 DEF Counted, Answered
    <3> QED BY <3>1, <3>5, <3>6, <2>1, <1>2 DEF Counted
  <2> QED BY <2>4, <2>5, <2>6, <2>7
<1> QED BY <1>2, <1>7, <1>8 DEF ProxyInv, NothingQueued

-----------------------------------------------------------------------------
(* Calls.                                                                  *)
LEMMA ClientCalls ==
  ASSUME ProxyInv, NEW c \in Client, NEW kind \in G!Call, G!handle_call(c, kind)
  PROVE  ProxyInv'
<1> DEFINE e == [kind |-> kind, call |-> calls']
<1>1. /\ proxyProgram # "down" /\ proxyProgram' = proxyProgram
      /\ calls' = calls + 1 /\ clients' = Append(clients, calls')
      /\ input' = (IF proxyProgram = "running" THEN Append(input, e) ELSE input)
      /\ mapping' = mapping /\ behind' = behind /\ mailbox' = mailbox
      /\ UNCHANGED <<reader, thread, connection>>
  BY DEF G!handle_call, G!Commanded, G!threads
<1>2. ProxyTypes /\ calls \in Nat /\ behind \in Int /\ clients \in Seq(Nat) /\ input \in Seq(Command)
  BY DEF ProxyInv, ProxyTypes
<1>3. e \in Command /\ e.call = calls + 1 /\ e.call \in Nat /\ e.call > 0 /\ e.kind \in G!Call
  BY <1>1, <1>2 DEF Command
<1> HIDE DEF e
<1>4. /\ clients' \in Seq(Nat) /\ Len(clients') = Len(clients) + 1 /\ Len(clients) \in Nat
      /\ \A i \in DOMAIN clients' : IF i = Len(clients) + 1 THEN clients'[i] = calls'
                                    ELSE i \in DOMAIN clients /\ clients'[i] = clients[i]
  BY <1>1, <1>2
<1>5. /\ Append(input, e) \in Seq(Command)
      /\ DOMAIN Append(input, e) = DOMAIN input \cup {Len(input) + 1}
      /\ \A i \in DOMAIN input : Append(input, e)[i] = input[i]
      /\ Append(input, e)[Len(input) + 1] = e
  BY <1>2, <1>3, CallsAppended
<1>6. input' \in Seq(Command) /\ \A i \in DOMAIN input' : input'[i].call > 0 <=> input'[i].kind \in G!Call
  BY <1>1, <1>2, <1>3, <1>5 DEF ProxyInv, Numbered
<1>7. ProxyTypes' /\ Numbered'
  BY <1>1, <1>2, <1>4, <1>6 DEF ProxyTypes, Numbered, ProxyInv
<1>8. ASSUME proxyProgram = "running" PROVE G!AnsweredInOrder' /\ Counted'
  <2>1. G!AnsweredInOrder /\ Counted /\ input' = Append(input, e)
    BY <1>1, <1>8 DEF ProxyInv
  <2>2. /\ G!Calls(Append(input, e)) = G!Calls(input) \cup ({e.call} \ {0})
        /\ G!InOrder(input) /\ G!Below(G!Calls(input), {e.call} \ {0}) => G!InOrder(Append(input, e))
    BY <1>2, <1>3, CallsGrow
  <2>3. G!Calls(input') = G!Calls(input) \cup {calls + 1}
    BY <2>1, <2>2, <1>3
  <2>4. G!Answering' = G!Answering
    BY <1>1 DEF G!Answering
  <2>5. G!Pending' = G!Pending \cup {calls + 1}
    BY <2>3, <2>4, <1>1 DEF G!Pending
  <2>6. G!Pending = (Answered + 1)..calls /\ Answered \in Nat
    BY <2>1, <1>2, <1>4 DEF Counted, Answered
  <2>7. \A m \in G!Pending : m < calls + 1
    BY <2>6, <1>2
  <2>8. G!AnsweredInOrder'
    <3>1. /\ \A m \in G!Calls(mailbox) : m < calls + 1
          /\ \A m \in G!Answering : m < calls + 1
          /\ \A m \in G!Calls(input) : m < calls + 1
      BY <2>7 DEF G!Pending
    <3>2. G!InOrder(input')
      BY <3>1, <2>1, <2>2, <1>3 DEF G!AnsweredInOrder, G!Below
    <3> QED BY <3>1, <3>2, <2>1, <2>3, <2>4, <1>1 DEF G!AnsweredInOrder, G!Below
  <2>9. Answered' = Answered
    BY <1>1, <1>2, <1>4 DEF Answered
  <2>10. G!Pending' = (Answered' + 1)..calls'
    <3>1. Answered <= calls
      BY <2>1, <1>2, <1>4 DEF Counted, Answered
    <3> QED BY <3>1, <2>5, <2>6, <2>9, <1>1, <1>2
  <2>11. \A i \in DOMAIN clients' : clients'[i] = calls' - Len(clients') + i
    BY <2>1, <1>1, <1>2, <1>4 DEF Counted
  <2> QED BY <2>1, <2>8, <2>9, <2>10, <2>11, <1>1 DEF Counted
<1> QED BY <1>1, <1>7, <1>8 DEF ProxyInv, NothingQueued

LEMMA DisconnectAsked ==
  ASSUME ProxyInv, G!handle_disconnect
  PROVE  ProxyInv'
<1> DEFINE e == [kind |-> "disconnect", call |-> 0]
<1>1. /\ proxyProgram = "running" /\ proxyProgram' = proxyProgram
      /\ input' = Append(input, e)
      /\ calls' = calls /\ mailbox' = mailbox
      /\ UNCHANGED <<waiting, clients, mapping, behind>> /\ UNCHANGED <<reader, thread, connection>>
  BY DEF G!handle_disconnect, G!Commanded, G!threads, G!server
<1>2. ProxyTypes /\ input \in Seq(Command) /\ G!AnsweredInOrder /\ Counted
  BY <1>1 DEF ProxyInv, ProxyTypes
<1>3. e \in Command /\ e.call = 0 /\ e.kind \notin G!Call
  BY DEF Command, G!Call
<1> HIDE DEF e
<1>4. /\ input' \in Seq(Command)
      /\ DOMAIN input' = DOMAIN input \cup {Len(input) + 1}
      /\ \A i \in DOMAIN input : input'[i] = input[i]
      /\ input'[Len(input) + 1] = e
  BY <1>1, <1>2, <1>3, CallsAppended
<1>5. ProxyTypes' /\ Numbered'
  <2>1. \A i \in DOMAIN input' : input'[i].call > 0 <=> input'[i].kind \in G!Call
    BY <1>3, <1>4 DEF ProxyInv, Numbered
  <2> QED BY <2>1, <1>1, <1>2, <1>4 DEF ProxyTypes, Numbered, ProxyInv
<1>6. /\ G!Calls(Append(input, e)) = G!Calls(input) \cup ({e.call} \ {0})
      /\ G!InOrder(input) /\ G!Below(G!Calls(input), {e.call} \ {0}) => G!InOrder(Append(input, e))
  BY <1>2, <1>3, CallsGrow
<1>7. G!Calls(input') = G!Calls(input) /\ G!InOrder(input')
  BY <1>1, <1>2, <1>3, <1>6 DEF G!AnsweredInOrder, G!Below
<1>8. G!Answering' = G!Answering
  BY <1>1 DEF G!Answering
<1>9. G!AnsweredInOrder' /\ G!Pending' = G!Pending
  BY <1>1, <1>2, <1>7, <1>8 DEF G!AnsweredInOrder, G!Pending
<1>10. Counted'
  BY <1>1, <1>2, <1>9, SameCounted
<1> QED BY <1>1, <1>5, <1>9, <1>10 DEF ProxyInv, NothingQueued

(* A program that starts anew has nothing to answer.                       *)
LEMMA NothingCounted ==
  ASSUME calls \in Nat, clients = <<>>, input = <<>>, mailbox = <<>>, reader = 0, behind = 0
  PROVE  G!AnsweredInOrder /\ Counted
<1>1. DOMAIN <<>> = {} /\ Len(<<>>) = 0
  OBVIOUS
<1>2. G!Calls(<<>>) = {} /\ G!InOrder(<<>>) /\ G!Answering = {}
  BY <1>1 DEF G!Calls, G!InOrder, G!Answering
<1>3. G!Pending = {} /\ G!AnsweredInOrder
  BY <1>2 DEF G!Pending, G!AnsweredInOrder, G!Below
<1>4. Answered = calls
  BY <1>1 DEF Answered
<1> QED BY <1>1, <1>3, <1>4 DEF Counted

LEMMA RestartProxy ==
  ASSUME ProxyInv, G!Restart
  PROVE  ProxyInv'
<1>1. /\ proxyProgram = "down" /\ proxyProgram' = "running"
      /\ UNCHANGED <<waiting, clients, mapping, behind>> /\ UNCHANGED <<reader, thread, connection>>
      /\ input' = input /\ mailbox' = mailbox /\ calls' = calls
  BY DEF G!Restart, G!server, G!threads
<1>2. /\ clients = <<>> /\ input = <<>> /\ mailbox = <<>> /\ reader = 0 /\ behind = 0
      /\ calls \in Nat
  BY <1>1 DEF ProxyInv, NothingQueued, ProxyTypes
<1>3. G!AnsweredInOrder /\ Counted
  BY <1>2, NothingCounted
<1>4. G!AnsweredInOrder' /\ Counted'
  BY <1>1, <1>3
  DEF Counted, Answered, G!Pending, G!Answering, G!AnsweredInOrder
<1> QED BY <1>1, <1>4 DEF ProxyInv, ProxyTypes, Numbered, NothingQueued

LEMMA ProxyStep ==
  ASSUME ProxyInv, G!Next
  PROVE  ProxyInv'
<1>1. ASSUME NEW c \in Client, G!ClientTimeout(c) PROVE ProxyInv'
  BY <1>1 DEF G!ClientTimeout, G!threads, ProxyInv, ProxyTypes, Numbered, NothingQueued, Counted,
              Answered, G!Pending, G!Answering, G!AnsweredInOrder
<1>2. CASE G!handle_info
  BY <1>2, PushTaken, ReplyStep, StopsProxy DEF G!handle_info, G!handle_failure
<1> QED BY <1>1, <1>2, ClientCalls, DisconnectAsked, ReaderStep, InputThreadStep, RestartProxy
        DEF G!Next

LEMMA ProxyStart ==
  ASSUME G!Init
  PROVE  ProxyInv
<1>1. /\ clients = <<>> /\ mapping = 0 /\ behind = 0 /\ input = <<>> /\ mailbox = <<>>
      /\ reader = 0 /\ thread = "none" /\ connection = 0 /\ proxyProgram = "running" /\ calls = 0
  BY DEF G!Init
<1>2. <<>> \in Seq(Command) /\ <<>> \in Seq(Message) /\ <<>> \in Seq(Nat) /\ DOMAIN <<>> = {}
  OBVIOUS
<1>3. G!AnsweredInOrder /\ Counted
  BY <1>1, NothingCounted
<1> QED BY <1>1, <1>2, <1>3 DEF ProxyInv, ProxyTypes, Numbered, NothingQueued

(* GamepadPort counts as this module does.                                 *)
LEMMA SameCardinality ==
  ASSUME NEW S
  PROVE  G!Cardinality(S) = Cardinality(S)
BY DEF G!Cardinality, Cardinality

LEMMA ProxyOwn ==
  ASSUME ProxyInv
  PROVE  G!OwnAnswer
<1> DEFINE queued == {clients[i] : i \in DOMAIN clients}
<1> SUFFICES ASSUME proxyProgram = "running"
             PROVE  /\ G!AnsweredInOrder
                    /\ \A i, j \in DOMAIN clients : i < j => clients[i] < clients[j]
                    /\ queued \subseteq G!Pending
                    /\ Cardinality(G!Pending \ queued) = behind
                    /\ G!Below(G!Pending \ queued, queued)
  BY SameCardinality DEF G!OwnAnswer
<1>1. /\ G!AnsweredInOrder /\ Counted
      /\ clients \in Seq(Nat) /\ calls \in Nat /\ behind \in Nat /\ Answered \in Nat
  BY DEF ProxyInv, ProxyTypes, Counted, Answered
<1>2. Len(clients) \in Nat /\ DOMAIN clients = 1..Len(clients)
  BY <1>1
<1> DEFINE q == calls - Len(clients)
<1>3. q \in Nat /\ q = Answered + behind /\ calls = q + Len(clients)
  BY <1>1, <1>2 DEF Answered
<1>4. \A i \in DOMAIN clients : clients[i] = q + i
  BY <1>1 DEF Counted
<1> HIDE DEF q
<1>5. queued = (q + 1)..calls
  <2>1. \A x \in queued : x \in (q + 1)..calls
    BY <1>2, <1>3, <1>4
  <2>2. ASSUME NEW x \in (q + 1)..calls PROVE x \in queued
    <3>1. x - q \in DOMAIN clients
      BY <1>2, <1>3
    <3>2. x = clients[x - q]
      BY <3>1, <1>3, <1>4
    <3> QED BY <3>1, <3>2
  <2> QED BY <2>1, <2>2
<1> HIDE DEF queued
<1>6. G!Pending = (Answered + 1)..calls
  BY <1>1 DEF Counted
<1>7. G!Pending \ queued = (Answered + 1)..q
  BY <1>1, <1>3, <1>5, <1>6
<1>8. Cardinality((Answered + 1)..q) = behind
  <2>1. Answered + 1 \in Int /\ q \in Int
    BY <1>1, <1>3
  <2>2. Cardinality((Answered + 1)..q) = IF Answered + 1 > q THEN 0 ELSE q - (Answered + 1) + 1
    BY <2>1, FS_Interval
  <2> QED BY <2>2, <1>1, <1>3
<1>9. \A i, j \in DOMAIN clients : i < j => clients[i] < clients[j]
  BY <1>2, <1>3, <1>4
<1>10. queued \subseteq G!Pending /\ G!Below(G!Pending \ queued, queued)
  BY <1>1, <1>3, <1>5, <1>6, <1>7 DEF G!Below
<1> QED BY <1>1, <1>7, <1>8, <1>9, <1>10

-----------------------------------------------------------------------------
(* The connections whose mapping Proxy has or will have: the news of them  *)
(* is in the mailbox, or about to be said.                                 *)
News ==
  {mapping} \cup (IF reader # 0 THEN {connection} ELSE {})
    \cup {mailbox[j].connection : j \in {i \in DOMAIN mailbox : mailbox[i].type = "Connected"}}

(* News come in order, newer than the mapping and older than what the      *)
(* reader thread is about to say.                                          *)
NewsInOrder ==
  /\ mapping <= connection /\ (reader # 0 => mapping < connection)
  /\ \A j \in DOMAIN mailbox : mailbox[j].type = "Connected" =>
       /\ mapping < mailbox[j].connection /\ mailbox[j].connection <= connection
       /\ reader # 0 => mailbox[j].connection < connection
  /\ \A i, j \in DOMAIN mailbox :
       i < j /\ mailbox[i].type = "Connected" /\ mailbox[j].type = "Connected" =>
         mailbox[i].connection < mailbox[j].connection

(* An event belongs to the last connection that was said before it, or to  *)
(* one that is about to be said.                                           *)
EventsInOrder ==
  /\ \A i \in DOMAIN mailbox : mailbox[i].type = "event" =>
       /\ mapping <= mailbox[i].connection /\ mailbox[i].connection <= connection
       /\ mailbox[i].connection \in News
  /\ \A i, j \in DOMAIN mailbox :
       i < j /\ mailbox[i].type = "Connected" /\ mailbox[j].type = "event" =>
         mailbox[i].connection <= mailbox[j].connection

NewsInv ==
  /\ NewsInOrder /\ EventsInOrder
  /\ thread # "none" => connection \in News

LEMMA NewsMapped ==
  ASSUME ProxyInv, NewsInv
  PROVE  G!EventsMapped
<1> SUFFICES ASSUME NEW i \in DOMAIN mailbox, mailbox[i].type = "event",
                    NEW current \in G!MappingAt(i)
             PROVE  LET k == mailbox[i].connection
                    IN  \/ current = k
                        \/ current < k /\ (\/ reader # 0 /\ connection = k
                                           \/ \E j \in DOMAIN mailbox :
                                                /\ j > i /\ mailbox[j].connection = k
                                                /\ mailbox[j].type = "Connected")
  BY DEF G!EventsMapped
<1> DEFINE k == mailbox[i].connection
           told == {j \in 1..(i - 1) : mailbox[j].type = "Connected"}
<1>1. /\ DOMAIN mailbox \subseteq Nat /\ mapping \in Nat /\ connection \in Nat
      /\ \A j \in DOMAIN mailbox : mailbox[j].connection \in Nat
  BY ProxyNumbers DEF ProxyInv, ProxyTypes
<1>2. 1..(i - 1) \subseteq DOMAIN mailbox
  BY DEF ProxyInv, ProxyTypes
<1>3. /\ told = {} => current = mapping
      /\ told # {} => \E j \in told : current = mailbox[j].connection /\ \A l \in told : l <= j
  BY DEF G!MappingAt
<1>4. /\ told \subseteq DOMAIN mailbox
      /\ \A j \in told : mailbox[j].type = "Connected" /\ j < i
      /\ \A j \in DOMAIN mailbox : j < i /\ mailbox[j].type = "Connected" => j \in told
  <2>1. \A j \in DOMAIN mailbox : j < i => j \in 1..(i - 1)
    BY DEF ProxyInv, ProxyTypes
  <2> QED BY <1>1, <1>2, <2>1
<1> HIDE DEF told
<1>5. current \in Nat /\ current <= k
  <2>1. CASE told = {}
    BY <2>1, <1>1, <1>3 DEF NewsInv, EventsInOrder
  <2>2. CASE told # {}
    <3>1. PICK j \in told : current = mailbox[j].connection
      BY <2>2, <1>3
    <3> QED BY <3>1, <1>1, <1>4 DEF NewsInv, EventsInOrder
  <2> QED BY <2>1, <2>2
<1>6. k \in News
  BY DEF NewsInv, EventsInOrder
<1>7. CASE mapping = k
  <2>1. \A j \in told : mapping < mailbox[j].connection
    BY <1>4 DEF NewsInv, NewsInOrder
  <2> QED BY <2>1, <1>1, <1>3, <1>5, <1>7
<1>8. CASE reader # 0 /\ connection = k
  BY <1>1, <1>5, <1>8
<1>9. ASSUME NEW j \in DOMAIN mailbox, mailbox[j].type = "Connected", mailbox[j].connection = k
      PROVE  current = k \/ j > i
  <2>1. j # i
    BY <1>9
  <2>2. CASE j < i
    <3>1. j \in told
      BY <2>2, <1>4, <1>9
    <3>2. PICK l \in told : current = mailbox[l].connection /\ j <= l
      BY <3>1, <1>3
    <3>3. k <= current
      BY <3>2, <1>1, <1>4, <1>9 DEF NewsInv, NewsInOrder
    <3> QED BY <3>3, <1>1, <1>5
  <2> QED BY <2>1, <2>2, <1>1
<1> QED BY <1>1, <1>5, <1>6, <1>7, <1>8, <1>9 DEF News

-----------------------------------------------------------------------------
(* Messages that are neither news nor events change nothing of this.       *)
LEMMA NewsSaid ==
  ASSUME ProxyInv, NewsInv, NEW e \in Message, mailbox' = Append(mailbox, e),
         mapping' = mapping, connection' = connection,
         \/ e.type \in {"answer", "error"} /\ reader' = reader
         \/ e.type = "event" /\ e.connection = connection /\ thread # "none" /\ reader' = reader
         \/ e.type = "Connected" /\ e.connection = connection /\ reader # 0 /\ reader' = 0,
         thread' # "none" => thread # "none"
  PROVE  NewsInv'
<1>1. /\ DOMAIN mailbox \subseteq Nat /\ mapping \in Nat /\ connection \in Nat
      /\ \A j \in DOMAIN mailbox : mailbox[j].connection \in Nat
      /\ mailbox \in Seq(Message)
  BY ProxyNumbers DEF ProxyInv, ProxyTypes
<1>2. /\ DOMAIN mailbox' = DOMAIN mailbox \cup {Len(mailbox) + 1}
      /\ \A i \in DOMAIN mailbox : mailbox'[i] = mailbox[i] /\ i < Len(mailbox) + 1
      /\ mailbox'[Len(mailbox) + 1] = e
  BY <1>1, CallsAppended
<1>3. e.connection \in Nat /\ Len(mailbox) + 1 \in Nat
  BY <1>1 DEF Message
<1>4. ASSUME NEW k, k \in News PROVE k \in News'
  <2>1. CASE \E j \in DOMAIN mailbox : mailbox[j].type = "Connected" /\ mailbox[j].connection = k
    BY <2>1, <1>2 DEF News
  <2>2. CASE reader # 0 /\ connection = k
    BY <2>2, <1>2 DEF News
  <2> QED BY <1>4, <2>1, <2>2 DEF News
<1>5. NewsInOrder'
  <2>1. mapping' <= connection' /\ (reader' # 0 => mapping' < connection')
    BY DEF NewsInv, NewsInOrder
  <2>2. ASSUME NEW j \in DOMAIN mailbox', mailbox'[j].type = "Connected"
        PROVE  /\ mapping < mailbox'[j].connection /\ mailbox'[j].connection <= connection
               /\ reader' # 0 => mailbox'[j].connection < connection
    BY <2>2, <1>1, <1>2 DEF NewsInv, NewsInOrder
  <2>3. ASSUME NEW i \in DOMAIN mailbox', NEW j \in DOMAIN mailbox',
               i < j, mailbox'[i].type = "Connected", mailbox'[j].type = "Connected"
        PROVE  mailbox'[i].connection < mailbox'[j].connection
    BY <2>3, <1>1, <1>2, <1>3 DEF NewsInv, NewsInOrder
  <2> QED BY <2>1, <2>2, <2>3 DEF NewsInOrder
<1>6. EventsInOrder'
  <2>1. ASSUME NEW j \in DOMAIN mailbox', mailbox'[j].type = "event"
        PROVE  /\ mapping <= mailbox'[j].connection /\ mailbox'[j].connection <= connection
               /\ mailbox'[j].connection \in News
    <3>1. CASE j \in DOMAIN mailbox
      BY <2>1, <3>1, <1>2 DEF NewsInv, EventsInOrder
    <3>2. CASE j = Len(mailbox) + 1
      BY <2>1, <3>2, <1>1, <1>2 DEF NewsInv, NewsInOrder
    <3> QED BY <3>1, <3>2, <1>2
  <2>2. ASSUME NEW i \in DOMAIN mailbox', NEW j \in DOMAIN mailbox',
               i < j, mailbox'[i].type = "Connected", mailbox'[j].type = "event"
        PROVE  mailbox'[i].connection <= mailbox'[j].connection
    <3>1. CASE j \in DOMAIN mailbox
      BY <2>2, <3>1, <1>1, <1>2, <1>3 DEF NewsInv, EventsInOrder
    <3>2. CASE j = Len(mailbox) + 1
      <4>1. i \in DOMAIN mailbox /\ mailbox'[i] = mailbox[i] /\ mailbox'[j] = e
        BY <2>2, <3>2, <1>1, <1>2, <1>3
      <4> QED BY <2>2, <4>1 DEF NewsInv, NewsInOrder
    <3> QED BY <3>1, <3>2, <1>2
  <2>3. \A j \in DOMAIN mailbox' : mailbox'[j].type = "event" => mailbox'[j].connection \in News'
    BY <2>1, <1>4
  <2> QED BY <2>1, <2>2, <2>3 DEF EventsInOrder
<1>7. thread' # "none" => connection' \in News'
  <2>1. thread' # "none" => connection \in News
    BY DEF NewsInv
  <2> QED BY <2>1, <1>4
<1> QED BY <1>5, <1>6, <1>7 DEF NewsInv

LEMMA NewsKept ==
  ASSUME NewsInv, mailbox' = mailbox, mapping' = mapping, connection' = connection,
         reader' = reader, thread' # "none" => thread # "none"
  PROVE  NewsInv'
<1>1. News' = News
  BY DEF News
<1> QED BY <1>1 DEF NewsInv, NewsInOrder, EventsInOrder

(* A connection is begun when the input thread of the last has ended.      *)
LEMMA NewsBegun ==
  ASSUME ProxyInv, NewsInv, reader = 0, thread = "none", connection' = connection + 1,
         reader' \in Nat \ {0}, mailbox' = mailbox, mapping' = mapping
  PROVE  NewsInv'
<1>1. /\ mapping \in Nat /\ connection \in Nat
      /\ \A j \in DOMAIN mailbox : mailbox[j].connection \in Nat
  BY ProxyNumbers DEF ProxyInv, ProxyTypes
<1>2. News' = News \cup {connection + 1}
  BY DEF News
<1>3. NewsInOrder'
  <2>1. mapping' <= connection' /\ mapping' < connection'
    BY <1>1 DEF NewsInv, NewsInOrder
  <2>2. ASSUME NEW j \in DOMAIN mailbox, mailbox[j].type = "Connected"
        PROVE  /\ mapping < mailbox[j].connection /\ mailbox[j].connection <= connection + 1
               /\ mailbox[j].connection < connection + 1
    BY <2>2, <1>1 DEF NewsInv, NewsInOrder
  <2> QED BY <2>1, <2>2 DEF NewsInv, NewsInOrder
<1>4. EventsInOrder'
  <2>1. ASSUME NEW j \in DOMAIN mailbox, mailbox[j].type = "event"
        PROVE  /\ mapping <= mailbox[j].connection /\ mailbox[j].connection <= connection + 1
               /\ mailbox[j].connection \in News'
    BY <2>1, <1>1, <1>2 DEF NewsInv, EventsInOrder
  <2> QED BY <2>1 DEF NewsInv, EventsInOrder
<1>5. connection' \in News'
  BY <1>2
<1> QED BY <1>3, <1>4, <1>5 DEF NewsInv

(* The next message is read; news become the mapping.                      *)
LEMMA NewsRead ==
  ASSUME ProxyInv, NewsInv, mailbox # <<>>, mailbox' = Tail(mailbox),
         mapping' = (IF Head(mailbox).type = "Connected" THEN Head(mailbox).connection ELSE mapping),
         UNCHANGED <<reader, thread, connection>>
  PROVE  NewsInv'
<1> DEFINE h == Head(mailbox)
<1>1. /\ mapping \in Nat /\ connection \in Nat /\ mailbox \in Seq(Message)
      /\ \A j \in DOMAIN mailbox : mailbox[j].connection \in Nat /\ j \in Nat
  BY ProxyNumbers DEF ProxyInv, ProxyTypes
<1>2. /\ 1 \in DOMAIN mailbox /\ h = mailbox[1]
      /\ \A i \in DOMAIN mailbox' :
           i \in Nat /\ i + 1 \in DOMAIN mailbox /\ i + 1 > 1 /\ mailbox'[i] = mailbox[i + 1]
      /\ \A i \in DOMAIN mailbox : i # 1 => i - 1 \in DOMAIN mailbox' /\ mailbox'[i - 1] = mailbox[i]
  BY <1>1, CallsTaken
<1>3. /\ mapping' = (IF h.type = "Connected" THEN h.connection ELSE mapping)
      /\ mapping' \in Nat
  BY <1>1, <1>2
<1> HIDE DEF h
<1>4. /\ mapping' <= connection /\ (reader # 0 => mapping' < connection)
      /\ \A j \in DOMAIN mailbox' : mailbox'[j].type = "Connected" =>
           mapping' < mailbox'[j].connection
  BY <1>1, <1>2, <1>3 DEF NewsInv, NewsInOrder
<1>5. \A k \in News : (k = mapping /\ h.type = "Connected") \/ k \in News'
  <2>1. ASSUME NEW j \in DOMAIN mailbox, mailbox[j].type = "Connected"
        PROVE  mailbox[j].connection \in News'
    <3>1. CASE j = 1
      BY <2>1, <3>1, <1>2, <1>3 DEF News
    <3>2. CASE j # 1
      <4>1. j - 1 \in DOMAIN mailbox' /\ mailbox'[j - 1] = mailbox[j]
        BY <3>2, <1>2
      <4> QED BY <2>1, <4>1 DEF News
    <3> QED BY <3>1, <3>2
  <2>2. reader # 0 => connection \in News'
    BY DEF News
  <2>3. h.type # "Connected" => mapping \in News'
    BY <1>3 DEF News
  <2> QED BY <2>1, <2>2, <2>3 DEF News
<1>6. NewsInOrder'
  <2>1. ASSUME NEW j \in DOMAIN mailbox', mailbox'[j].type = "Connected"
        PROVE  /\ mailbox'[j].connection <= connection
               /\ reader # 0 => mailbox'[j].connection < connection
    BY <2>1, <1>2 DEF NewsInv, NewsInOrder
  <2>2. ASSUME NEW i \in DOMAIN mailbox', NEW j \in DOMAIN mailbox',
               i < j, mailbox'[i].type = "Connected", mailbox'[j].type = "Connected"
        PROVE  mailbox'[i].connection < mailbox'[j].connection
    <3>1. i + 1 < j + 1
      BY <2>2, <1>2
    <3> QED BY <2>2, <3>1, <1>2 DEF NewsInv, NewsInOrder
  <2> QED BY <2>1, <2>2, <1>4 DEF NewsInOrder
<1>7. ASSUME NEW i \in DOMAIN mailbox', mailbox'[i].type = "event"
      PROVE  /\ mapping' <= mailbox'[i].connection /\ mailbox'[i].connection <= connection
             /\ mailbox'[i].connection \in News'
  <2> DEFINE k == mailbox'[i].connection
  <2>1. /\ mapping <= k /\ k <= connection /\ k \in News /\ k \in Nat
        /\ h.type = "Connected" => mapping < h.connection /\ h.connection <= k
    BY <1>1, <1>2, <1>7 DEF NewsInv, NewsInOrder, EventsInOrder
  <2> HIDE DEF k
  <2>2. mapping' <= k
    BY <2>1, <1>3
  <2>3. h.type = "Connected" => k # mapping
    BY <2>1, <1>1, <1>3
  <2> QED BY <2>1, <2>2, <2>3, <1>5 DEF k
<1>8. EventsInOrder'
  <2>1. ASSUME NEW i \in DOMAIN mailbox', NEW j \in DOMAIN mailbox',
               i < j, mailbox'[i].type = "Connected", mailbox'[j].type = "event"
        PROVE  mailbox'[i].connection <= mailbox'[j].connection
    <3>1. i + 1 < j + 1
      BY <2>1, <1>2
    <3> QED BY <2>1, <3>1, <1>2 DEF NewsInv, EventsInOrder
  <2> QED BY <2>1, <1>7 DEF EventsInOrder
<1>9. ASSUME thread # "none" PROVE connection \in News'
  <2>1. connection \in News
    BY <1>9 DEF NewsInv
  <2>2. h.type = "Connected" => mapping < h.connection /\ h.connection <= connection
    BY <1>2 DEF NewsInv, NewsInOrder
  <2>3. h.type = "Connected" => connection # mapping
    BY <2>2, <1>1, <1>2
  <2> QED BY <2>1, <2>3, <1>5
<1> QED BY <1>6, <1>8, <1>9 DEF NewsInv

LEMMA NothingNew ==
  ASSUME mapping' = 0, mailbox' = <<>>, reader' = 0, thread' = "none", connection' \in Nat
  PROVE  NewsInv'
<1>1. DOMAIN <<>> = {}
  OBVIOUS
<1> QED BY <1>1 DEF NewsInv, NewsInOrder, EventsInOrder

LEMMA NewsStep ==
  ASSUME ProxyInv, NewsInv, G!Next
  PROVE  NewsInv'
<1>1. ASSUME NEW c \in Client, NEW kind \in G!Call, G!handle_call(c, kind) PROVE NewsInv'
  BY <1>1, NewsKept DEF G!handle_call, G!threads
<1>2. ASSUME NEW c \in Client, G!ClientTimeout(c) PROVE NewsInv'
  BY <1>2, NewsKept DEF G!ClientTimeout, G!threads
<1>3. CASE G!handle_disconnect
  BY <1>3, NewsKept DEF G!handle_disconnect, G!threads, G!server
<1>4. CASE G!Restart
  BY <1>4, NewsKept DEF G!Restart, G!threads, G!server
<1>5. CASE G!handle_failure
  BY <1>5, NothingNew DEF G!handle_failure, G!Stops, ProxyInv, ProxyTypes
<1>6. CASE G!handle_push
  BY <1>6, NewsRead DEF G!handle_push, G!Receives, G!server, G!threads, G!ForCaller
<1>7. CASE G!reply
  BY <1>7, NewsRead DEF G!reply, G!Receives, G!threads
<1>8. CASE G!input_job
  BY <1>8, NewsKept DEF G!input_job, G!InputStep, G!server
<1>9. CASE G!input_event
  <2> DEFINE e == G!Event(connection)
  <2>1. e \in Message /\ e.type = "event" /\ e.connection = connection
    BY DEF G!Event, Message, ProxyInv, ProxyTypes
  <2>2. /\ mailbox' = Append(mailbox, e) /\ thread # "none" /\ mapping' = mapping
        /\ connection' = connection /\ reader' = reader
    BY <1>9 DEF G!input_event, G!InputStep, G!server, G!send_msg
  <2> HIDE DEF e
  <2> QED BY <2>1, <2>2, NewsSaid
<1>10. CASE G!input_raises
  <2> DEFINE e == G!Answer(0, "error", 0)
  <2>1. e \in Message /\ e.type = "error"
    BY DEF G!Answer, Message
  <2>2. /\ mailbox' = Append(mailbox, e) /\ thread # "none" /\ mapping' = mapping
        /\ connection' = connection /\ reader' = reader
    BY <1>10 DEF G!input_raises, G!InputStep, G!server, G!send_msg
  <2> HIDE DEF e
  <2> QED BY <2>1, <2>2, NewsSaid
<1>11. CASE G!connect_answers
  <2> DEFINE e == G!Answer(reader, "Connected", connection)
  <2>1. e \in Message /\ e.type = "Connected" /\ e.connection = connection
    BY DEF G!Answer, Message, ProxyInv, ProxyTypes
  <2>2. /\ mailbox' = Append(mailbox, e) /\ thread' = thread /\ mapping' = mapping
        /\ connection' = connection /\ reader # 0 /\ reader' = 0
    BY <1>11 DEF G!connect_answers, G!server, G!send_msg
  <2> HIDE DEF e
  <2> QED BY <2>1, <2>2, NewsSaid
<1>12. CASE G!disconnect
  BY <1>12, NewsKept DEF G!disconnect, G!Reads, G!server
<1>13. ASSUME NEW kind \in G!Call, G!Reads(kind)
       PROVE  mapping' = mapping /\ reader = 0 /\ Head(input).call \in Nat \ {0}
  <2>1. input \in Seq(Command) /\ input # <<>> /\ Head(input).kind = kind
    BY <1>13 DEF G!Reads, ProxyInv, ProxyTypes
  <2>2. Head(input) \in Command /\ 1 \in DOMAIN input /\ Head(input) = input[1]
    BY <2>1, CallsTaken
  <2> QED BY <1>13, <2>1, <2>2 DEF G!Reads, G!server, Command, ProxyInv, Numbered
<1>14. ASSUME NEW kind \in G!Call, G!Reads(kind), G!Raises PROVE NewsInv'
  BY <1>13, <1>14, NewsKept DEF G!Raises, G!threads
<1>15. ASSUME NEW kind \in G!Call, G!Reads(kind), NEW t \in {"answer", "error"},
              G!send_msg(G!Answer(Head(input).call, t, 0)), UNCHANGED <<G!threads, proxyProgram>>
       PROVE  NewsInv'
  <2> DEFINE e == G!Answer(Head(input).call, t, 0)
  <2>1. e \in Message /\ e.type \in {"answer", "error"}
    BY <1>13, <1>15 DEF G!Answer, Message
  <2>2. /\ mailbox' = Append(mailbox, e) /\ thread' = thread /\ mapping' = mapping
        /\ connection' = connection /\ reader' = reader
    BY <1>13, <1>15 DEF G!threads, G!send_msg
  <2> HIDE DEF e
  <2> QED BY <2>1, <2>2, NewsSaid
<1>16. CASE G!list_devices
  BY <1>14, <1>15, <1>16 DEF G!list_devices, G!Call
<1>17. CASE G!capabilities
  BY <1>14, <1>15, <1>17 DEF G!capabilities, G!Call
<1>18. CASE G!connect
  <2>1. G!Reads("connect") /\ "connect" \in G!Call
    BY <1>18 DEF G!connect, G!Call
  <2>2. CASE thread = "none" /\ G!StartsThread
    BY <1>13, <2>1, <2>2, NewsBegun DEF G!StartsThread
  <2> QED BY <1>14, <1>15, <1>18, <2>1, <2>2 DEF G!connect
<1> QED BY <1>1, <1>2, <1>3, <1>4, <1>5, <1>6, <1>7, <1>8, <1>9, <1>10, <1>11, <1>12, <1>16, <1>17,
           <1>18 DEF G!Next, G!Reader, G!InputThread, G!handle_info

LEMMA NewsStart ==
  ASSUME G!Init
  PROVE  NewsInv
<1>1. mailbox = <<>> /\ mapping = 0 /\ reader = 0 /\ thread = "none" /\ connection = 0
  BY DEF G!Init
<1>2. DOMAIN <<>> = {}
  OBVIOUS
<1> QED BY <1>1, <1>2 DEF NewsInv, NewsInOrder, EventsInOrder

-----------------------------------------------------------------------------
(* The three side by side: only one of them takes steps.                   *)
ProgramsInv == VisionInv /\ ProxyInv /\ NewsInv

LEMMA VisionRests ==
  ASSUME VisionInv, UNCHANGED visionVars
  PROVE  VisionInv'
BY DEF visionVars, VisionInv, VisionTypes, Silent, NothingLeft, Sorted, Matched, V!IsAnswer

LEMMA ProxyRests ==
  ASSUME ProxyInv, NewsInv, UNCHANGED proxyVars
  PROVE  ProxyInv' /\ NewsInv'
<1>1. ProxyInv'
  BY DEF proxyVars, ProxyInv, ProxyTypes, Numbered, NothingQueued, Counted, Answered, G!Pending,
         G!Answering, G!AnsweredInOrder
<1>2. NewsInv'
  BY NewsKept DEF proxyVars
<1> QED BY <1>1, <1>2

(* The reachable states of vision and proxy.                               *)
THEOREM PortsInductive == MCSpec => []ProgramsInv
<1>1. MCInit => ProgramsInv
  BY VisionStart, ProxyStart, NewsStart DEF MCInit, ProgramsInv
<1>2. ProgramsInv /\ [MCNext]_everything => ProgramsInv'
  <2> SUFFICES ASSUME VisionInv, ProxyInv, NewsInv, [MCNext]_everything
               PROVE  VisionInv' /\ ProxyInv' /\ NewsInv'
    BY DEF ProgramsInv
  <2>1. CASE OfVision(V!Next)
    BY <2>1, VisionStep, ProxyRests DEF OfVision
  <2>2. CASE G!Next /\ UNCHANGED visionVars
    BY <2>2, VisionRests, ProxyStep, NewsStep
  <2>3. CASE UNCHANGED visionVars /\ UNCHANGED proxyVars
    BY <2>3, VisionRests, ProxyRests
  <2> QED BY <2>1, <2>2, <2>3 DEF MCNext, everything
<1> QED BY <1>1, <1>2, PTL DEF MCSpec

(* An answer reaches the caller that asked: of vision.py until a failed    *)
(* capture or a line read along shifts the queue (Vision.handle_info), and *)
(* of gamepad.py up to the errors of pulled controllers (Proxy.reply).     *)
THEOREM AnswersAreOwn == MCSpec => []OwnAnswer
<1>1. ProgramsInv => OwnAnswer
  BY VisionOwn, ProxyOwn DEF ProgramsInv, OwnAnswer
<1> QED BY <1>1, PortsInductive, PTL

(* Proxy reads an event with the mapping of its controller, or with an     *)
(* older one whose successor is on its way (Proxy.handle_response).        *)
THEOREM EventsReadRight == MCSpec => []EventsMapped
<1>1. ProgramsInv => EventsMapped
  BY NewsMapped DEF ProgramsInv, EventsMapped
<1> QED BY <1>1, PortsInductive, PTL
=============================================================================
