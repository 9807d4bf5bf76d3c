---------------------------- MODULE InputTracker ----------------------------
(***************************************************************************)
(* picopad_proxy's way of a USB gamepad's inputs to a Picopad: the Reader  *)
(* casts every input event to PicopadProxy.InputTracker, which keeps the   *)
(* input state, merges what has changed and sends it as commands, sticks   *)
(* at most every 20 ms.  Each command is a GenServer.call of its own to    *)
(* the connection, which ConnectionManager uses too and may close at any   *)
(* time.  The results are not looked at; a call that exits ends the        *)
(* tracker, and its supervisor starts another.                             *)
(***************************************************************************)
EXTENDS Naturals, Sequences

CONSTANTS
  Button,     \* the buttons in use
  MaxInputs   \* inputs of the player in a behaviour

ASSUME InputAssumption == MaxInputs \in Nat

VARIABLES
  gamepad,    \* what the player holds
  inputs,     \* inputs of the player so far
  queue,      \* casts the tracker has yet to handle
  tracker,    \* PicopadProxy.InputTracker.State
  call,       \* how far send_inputs is
  connected,  \* ConnectionManager has a Picopad
  picopad,    \* the controller state in the firmware, shown to the console
  lost        \* what the tracker takes for sent, or has forgotten

vars == <<gamepad, inputs, queue, tracker, call, connected, picopad, lost>>

Side == {"left", "right"}
Axis == {"h", "v"}
Stick == [Axis -> {"mid", "off"}]      \* off: any position but the middle
Middle == [a \in Axis |-> "mid"]

Controller == [buttons : SUBSET Button, sticks : [Side -> Stick]]
Neutral == [buttons |-> {}, sticks |-> [s \in Side |-> Middle]]

Tracker ==
  [ held : SUBSET Button,            \* held_buttons
    buttonsChanged : BOOLEAN,
    sticks : [Side -> Stick],
    changed : [Side -> BOOLEAN],
    recent : BOOLEAN ]               \* last_stick_report: 20 ms ago at most

(* step: what send_inputs waits for: the manager's picopad_pid, the buttons *)
(* or the sticks.  sides: the sticks still to send.  gone: the connection  *)
(* whose pid it has was closed.                                            *)
Call == [ step : {"idle", "pid", "buttons", "sticks"},
          sides : SUBSET Side,
          gone : BOOLEAN ]

NoCall == [step |-> "idle", sides |-> {}, gone |-> FALSE]

(* buttons: held by the player, named by no command the firmware took      *)
(* since they were refused or forgotten.  release, sticks: whether a       *)
(* release of all buttons, and of which sticks a position, was refused or  *)
(* forgotten and no later one was taken.                                   *)
Lost == [buttons : SUBSET Button, release : BOOLEAN, sticks : SUBSET Side]

Input == [type : {"hold", "release"}, button : Button]
           \cup [type : {"stick"}, side : Side, axis : Axis, to : {"mid", "off"}]

-----------------------------------------------------------------------------
(* The tracker's state.  A definition whose name ends in Bug is a wrong    *)
(* version of the one that follows it, with which a property fails.        *)

New == [held |-> {}, buttonsChanged |-> FALSE, sticks |-> Neutral.sticks,
        changed |-> [s \in Side |-> FALSE], recent |-> TRUE]

(* State.hold_buttons, State.release_buttons and State.move_stick.         *)
Updated(t, i) ==
  CASE i.type = "hold" ->
         [t EXCEPT !.held = @ \cup {i.button}, !.buttonsChanged = TRUE]
    [] i.type = "release" ->
         [t EXCEPT !.held = @ \ {i.button}, !.buttonsChanged = TRUE]
    [] i.type = "stick" ->
         [t EXCEPT !.sticks[i.side][i.axis] = i.to,
                   !.changed[i.side] = @ \/ t.sticks[i.side][i.axis] # i.to]

(* A stick in the middle does not wait for the 20 ms to pass.              *)
SticksToUpdate(t) ==
  {s \in Side : t.changed[s] /\ (~t.recent \/ t.sticks[s] = Middle)}

(* All flags are cleared when any stick was sent.                          *)
SticksSent(t) == [t EXCEPT !.changed = [s \in Side |-> FALSE], !.recent = TRUE]

-----------------------------------------------------------------------------
(* Picopad.hold sets the buttons it names and leaves the others alone:     *)
(* build_set_buttons uses them for the mask too.                           *)
Hold(p, held) == [p EXCEPT !.buttons = @ \cup held]

ReleaseAll_Bug(p) == p

ReleaseAll(p) == [p EXCEPT !.buttons = {}]

ButtonInputs_Bug(t, p) == IF t.held = {} THEN ReleaseAll(p) ELSE p

(* The command of send_button_inputs.                                      *)
ButtonInputs(t, p) == IF t.held = {} THEN ReleaseAll(p) ELSE Hold(p, t.held)

(* Picopad.stick.                                                          *)
StickInput(t, p, s) == [p EXCEPT !.sticks[s] = t.sticks[s]]

ButtonsTaken(t, l) ==
  IF t.held = {} THEN [l EXCEPT !.release = FALSE]
                 ELSE [l EXCEPT !.buttons = @ \ t.held]

ButtonsRefused(t, l) ==
  IF t.held = {} THEN [l EXCEPT !.release = TRUE]
                 ELSE [l EXCEPT !.buttons = @ \cup (t.held \cap gamepad.buttons)]

-----------------------------------------------------------------------------
(* The player presses or releases a button or moves a stick along an axis; *)
(* the Reader polls the event and casts it.                                *)
Cast(i, pad) ==
  /\ inputs < MaxInputs
  /\ inputs' = inputs + 1
  /\ gamepad' = pad
  /\ queue' = Append(queue, i)
  /\ lost' = [lost EXCEPT !.buttons = @ \cap pad.buttons]
  /\ UNCHANGED <<tracker, call, connected, picopad>>

Press(b) ==
  /\ b \notin gamepad.buttons
  /\ Cast([type |-> "hold", button |-> b], [gamepad EXCEPT !.buttons = @ \cup {b}])

Release(b) ==
  /\ b \in gamepad.buttons
  /\ Cast([type |-> "release", button |-> b], [gamepad EXCEPT !.buttons = @ \ {b}])

MoveStick(s, a) ==
  \E to \in {"mid", "off"} :
    Cast([type |-> "stick", side |-> s, axis |-> a, to |-> to],
         [gamepad EXCEPT !.sticks[s][a] = to])

(* handle_cast of an input, up to its first call.                          *)
HandleCast ==
  /\ call.step = "idle"
  /\ queue # <<>>
  /\ queue' = Tail(queue)
  /\ tracker' = Updated(tracker, Head(queue))
  /\ call' = IF tracker' = tracker THEN call ELSE [call EXCEPT !.step = "pid"]
  /\ UNCHANGED <<gamepad, inputs, connected, picopad, lost>>

PicopadPid_Bug ==
  /\ call.step = "pid"
  /\ IF connected
     THEN /\ call' = [call EXCEPT !.step = "buttons"]
          /\ UNCHANGED tracker
     ELSE /\ call' = NoCall
          /\ tracker' = SticksSent([tracker EXCEPT !.buttonsChanged = FALSE])
  /\ UNCHANGED <<gamepad, inputs, queue, connected, picopad, lost>>

(* The manager's answer.  Without a Picopad the flags wait for a later     *)
(* input.                                                                  *)
PicopadPid ==
  /\ call.step = "pid"
  /\ call' = IF connected THEN [call EXCEPT !.step = "buttons"] ELSE NoCall
  /\ UNCHANGED <<gamepad, inputs, queue, tracker, connected, picopad, lost>>

(* send_button_inputs.  The firmware takes the command, or the connection  *)
(* is busy, or the command is lost on the line: the flag is cleared.  Then *)
(* send_stick_inputs looks at the time.                                    *)
SendButtons ==
  LET t == [tracker EXCEPT !.buttonsChanged = FALSE]
      sides == SticksToUpdate(tracker)
  IN  /\ call.step = "buttons"
      /\ IF tracker.buttonsChanged
         THEN /\ ~call.gone
              /\ \/ /\ picopad' = ButtonInputs(tracker, picopad)
                    /\ lost' = ButtonsTaken(tracker, lost)
                 \/ /\ lost' = ButtonsRefused(tracker, lost)
                    /\ UNCHANGED picopad
         ELSE UNCHANGED <<picopad, lost>>
      /\ tracker' = t
      /\ call' = IF sides = {} THEN NoCall
                 ELSE [call EXCEPT !.step = "sticks", !.sides = sides]
      /\ UNCHANGED <<gamepad, inputs, queue, connected>>

(* One stick of send_stick_inputs, taken or not.                           *)
SendStick(s) ==
  /\ call.step = "sticks" /\ s \in call.sides /\ ~call.gone
  /\ \/ /\ picopad' = StickInput(tracker, picopad, s)
        /\ lost' = [lost EXCEPT !.sticks = @ \ {s}]
     \/ /\ lost' = [lost EXCEPT !.sticks = @ \cup {s}]
        /\ UNCHANGED picopad
  /\ IF call.sides = {s}
     THEN /\ tracker' = SticksSent(tracker)
          /\ call' = NoCall
     ELSE /\ call' = [call EXCEPT !.sides = @ \ {s}]
          /\ UNCHANGED tracker
  /\ UNCHANGED <<gamepad, inputs, queue, connected>>

(* What the call under way may have done before it exits.                  *)
Executed ==
  CASE call.step = "buttons" -> {picopad, ButtonInputs(tracker, picopad)}
    [] call.step = "sticks" ->
         {picopad} \cup {StickInput(tracker, picopad, s) : s \in call.sides}
    [] OTHER -> {picopad}

(* A call exits: the connection is gone, or the answer did not come in     *)
(* five seconds.  The tracker exits with it, and all that it knew and had  *)
(* in its mailbox is forgotten.                                            *)
Crash ==
  /\ \/ call.step \in {"pid", "sticks"}
     \/ call.step = "buttons" /\ tracker.buttonsChanged
  /\ picopad' \in IF call.gone THEN {picopad} ELSE Executed
  /\ tracker' = New
  /\ queue' = <<>>
  /\ call' = NoCall
  /\ lost' = [buttons |-> gamepad.buttons, release |-> TRUE, sticks |-> Side]
  /\ UNCHANGED <<gamepad, inputs, connected>>

(* More than 20 ms have passed since the last stick report.                *)
TimePasses ==
  /\ tracker.recent
  /\ tracker' = [tracker EXCEPT !.recent = FALSE]
  /\ UNCHANGED <<gamepad, inputs, queue, call, connected, picopad, lost>>

(* The connection whose pid send_inputs has, if it has one, is closed.     *)
Gone == call' = [call EXCEPT !.gone = call.step \in {"buttons", "sticks"}]

(* ConnectionManager's connect and disconnect.                             *)
Connect ==
  /\ ~connected
  /\ connected' = TRUE
  /\ UNCHANGED <<gamepad, inputs, queue, tracker, call, picopad, lost>>

Disconnect ==
  /\ connected
  /\ connected' = FALSE
  /\ Gone
  /\ UNCHANGED <<gamepad, inputs, queue, tracker, picopad, lost>>

(* The Picopad loses power, and with it what it was sent; the connection   *)
(* ends on the port's error, and the manager linked to it starts anew.     *)
Replug ==
  /\ connected' = FALSE
  /\ Gone
  /\ picopad' = Neutral
  /\ lost' = [buttons |-> lost.buttons \cup (picopad.buttons \cap gamepad.buttons),
              release |-> FALSE, sticks |-> {}]
  /\ UNCHANGED <<gamepad, inputs, queue, tracker>>

Init ==
  /\ gamepad = Neutral
  /\ inputs = 0
  /\ queue = <<>>
  /\ tracker = New
  /\ call = NoCall
  /\ connected = FALSE
  /\ picopad = Neutral
  /\ lost = [buttons |-> {}, release |-> FALSE, sticks |-> {}]

Next ==
  \/ \E b \in Button : Press(b) \/ Release(b)
  \/ \E s \in Side, a \in Axis : MoveStick(s, a)
  \/ HandleCast \/ PicopadPid \/ SendButtons
  \/ \E s \in Side : SendStick(s)
  \/ Crash \/ TimePasses \/ Connect \/ Disconnect \/ Replug

Spec == Init /\ [][Next]_vars

-----------------------------------------------------------------------------
(* Properties.                                                             *)

(* Nothing is left to do: every input was handled and nothing waits for    *)
(* the next one to be sent along.                                          *)
ButtonsSettled == queue = <<>> /\ ~tracker.buttonsChanged

SticksSettled(s) == queue = <<>> /\ ~tracker.changed[s]

(* What the player holds is held on the console, in whatever order inputs, *)
(* connecting and disconnecting came, unless the command that named it was *)
(* refused, or the tracker or the Picopad forgot it; the next hold that    *)
(* the firmware takes from a tracker that knows of it makes up for that.   *)
HeldIsHeld ==
  ButtonsSettled => gamepad.buttons \ lost.buttons \subseteq picopad.buttons

(* When the player lets go of everything, the console sees nothing held,   *)
(* although hold never names a released button: only a release of all that *)
(* was refused or forgotten, and none taken since, leaves some.            *)
AllReleased ==
  ButtonsSettled /\ gamepad.buttons = {} /\ ~lost.release => picopad.buttons = {}

(* A stick let go is in the middle for the console too: the tracker sends  *)
(* it at once, which "avoids weird drift from the center update getting    *)
(* dropped".  Only a refused or forgotten position, with none taken for    *)
(* that stick since, may leave it to drift.                                *)
CenterArrives ==
  \A s \in Side \ lost.sticks :
    SticksSettled(s) /\ gamepad.sticks[s] = Middle => picopad.sticks[s] = Middle

=============================================================================
