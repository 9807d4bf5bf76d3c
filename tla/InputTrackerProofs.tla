------------------------- MODULE InputTrackerProofs -------------------------
(***************************************************************************)
(* Proofs about InputTracker for any buttons and any number of inputs.     *)
(* The invariant follows an input on its way: the last one in the queue    *)
(* about a button or an axis says what the player does with it, without    *)
(* one the tracker knows (ButtonTracked, AxisTracked); what the tracker    *)
(* has no flag for was taken by the firmware, or is in lost (HoldSent,     *)
(* ReleaseSent, CenterSent); a stick in the middle of which send_inputs is *)
(* done is in the same case before its flag is cleared (CenterUnderWay).   *)
(***************************************************************************)
EXTENDS InputTracker, TLAPS

TypeOK ==
  /\ gamepad \in Controller /\ picopad \in Controller
  /\ queue \in Seq(Input)
  /\ tracker \in Tracker
  /\ call \in Call
  /\ lost \in Lost

(* x is the last of the inputs X in q; there is none of them.              *)
LastIs(q, X, x) ==
  \E i \in 1..Len(q) : q[i] = x /\ \A j \in (i + 1)..Len(q) : q[j] \notin X
None(q, X) == \A i \in 1..Len(q) : q[i] \notin X

OfButton(b) == [type : {"hold", "release"}, button : {b}]
OfAxis(s, a) == [type : {"stick"}, side : {s}, axis : {a}, to : {"mid", "off"}]

(* The inputs that make the player's gamepad what it is.                   *)
ButtonInput(b) ==
  [type |-> IF b \in gamepad.buttons THEN "hold" ELSE "release", button |-> b]
AxisInput(s, a) ==
  [type |-> "stick", side |-> s, axis |-> a, to |-> gamepad.sticks[s][a]]

(* A tracker that started anew knows of nothing held, and of sticks in the *)
(* middle.                                                                 *)
ButtonKnown(b) ==
  /\ b \in tracker.held => b \in gamepad.buttons
  /\ b \in gamepad.buttons => b \in tracker.held \cup lost.buttons

ButtonTracked(b) ==
  \/ None(queue, OfButton(b)) /\ ButtonKnown(b)
  \/ LastIs(queue, OfButton(b), ButtonInput(b))

AxisTracked(s, a) ==
  \/ None(queue, OfAxis(s, a)) /\ tracker.sticks[s][a] \in {gamepad.sticks[s][a], "mid"}
  \/ LastIs(queue, OfAxis(s, a), AxisInput(s, a))

HoldSent(b) ==
  None(queue, OfButton(b)) /\ ~tracker.buttonsChanged /\ b \in tracker.held
    => b \in picopad.buttons \cup lost.buttons

ReleaseSent ==
  ~tracker.buttonsChanged /\ tracker.held = {} => picopad.buttons = {} \/ lost.release

CenterTaken(s) == picopad.sticks[s] = Middle \/ s \in lost.sticks

CenterSent(s) ==
  ~tracker.changed[s] /\ tracker.sticks[s] = Middle => CenterTaken(s)

CenterUnderWay(s) ==
  call.step = "sticks" /\ tracker.sticks[s] = Middle /\ s \notin call.sides
    => CenterTaken(s)

IInv ==
  /\ TypeOK
  /\ \A b \in Button : ButtonTracked(b) /\ HoldSent(b)
  /\ \A s \in Side, a \in Axis : AxisTracked(s, a)
  /\ ReleaseSent
  /\ \A s \in Side : CenterSent(s) /\ CenterUnderWay(s)

-----------------------------------------------------------------------------
(* The queue.                                                              *)

(* An input of X that comes is the last of them, another changes nothing.  *)
LEMMA AppendLast ==
  ASSUME NEW q \in Seq(Input), NEW y \in Input, NEW X, NEW x
  PROVE  /\ y = x => LastIs(Append(q, y), X, x)
         /\ y \notin X /\ LastIs(q, X, x) => LastIs(Append(q, y), X, x)
         /\ y \notin X /\ None(q, X) => None(Append(q, y), X)
         /\ None(Append(q, y), X) => None(q, X) /\ y \notin X
<1>1. /\ Len(q) \in Nat /\ Len(Append(q, y)) = Len(q) + 1
      /\ Append(q, y)[Len(q) + 1] = y
      /\ \A i \in 1..Len(q) : Append(q, y)[i] = q[i]
  OBVIOUS
<1>2. y = x => LastIs(Append(q, y), X, x)
  BY <1>1 DEF LastIs
<1>3. ASSUME y \notin X, LastIs(q, X, x) PROVE LastIs(Append(q, y), X, x)
  <2>1. PICK i \in 1..Len(q) : q[i] = x /\ \A j \in (i + 1)..Len(q) : q[j] \notin X
    BY <1>3 DEF LastIs
  <2>2. \A j \in (i + 1)..(Len(q) + 1) : Append(q, y)[j] \notin X
    BY <1>1, <1>3, <2>1
  <2> QED BY <1>1, <2>1, <2>2 DEF LastIs
<1>4. y \notin X /\ None(q, X) => None(Append(q, y), X)
  BY <1>1 DEF None
<1>5. None(Append(q, y), X) => None(q, X) /\ y \notin X
  BY <1>1 DEF None
<1> QED BY <1>2, <1>3, <1>4, <1>5

(* The last input of X is handled, or stays the last.                      *)
LEMMA TailLast ==
  ASSUME NEW q \in Seq(Input), q # <<>>, NEW X, NEW x
  PROVE  /\ LastIs(q, X, x) => \/ Head(q) = x /\ None(Tail(q), X)
                               \/ LastIs(Tail(q), X, x)
         /\ None(q, X) <=> None(Tail(q), X) /\ Head(q) \notin X
<1>1. /\ Len(q) \in Nat \ {0} /\ Len(Tail(q)) = Len(q) - 1 /\ Head(q) = q[1]
      /\ \A i \in 1..Len(Tail(q)) : Tail(q)[i] = q[i + 1]
  OBVIOUS
<1>2. \A i \in 2..Len(q) : i - 1 \in 1..Len(Tail(q)) /\ Tail(q)[i - 1] = q[i]
  BY <1>1
<1>3. ASSUME LastIs(q, X, x)
      PROVE  \/ Head(q) = x /\ None(Tail(q), X)
             \/ LastIs(Tail(q), X, x)
  <2>1. PICK i \in 1..Len(q) : q[i] = x /\ \A j \in (i + 1)..Len(q) : q[j] \notin X
    BY <1>3 DEF LastIs
  <2>2. CASE i = 1
    BY <1>1, <2>1, <2>2 DEF None
  <2>3. CASE i # 1
    <3>1. i - 1 \in 1..Len(Tail(q)) /\ Tail(q)[i - 1] = x
      BY <1>1, <1>2, <2>1, <2>3
    <3>2. \A j \in i..Len(Tail(q)) : Tail(q)[j] \notin X
      BY <1>1, <2>1
    <3> QED BY <3>1, <3>2 DEF LastIs
  <2> QED BY <2>2, <2>3
<1>4. None(q, X) => None(Tail(q), X) /\ Head(q) \notin X
  BY <1>1 DEF None
<1>5. ASSUME None(Tail(q), X), Head(q) \notin X PROVE None(q, X)
  <2> SUFFICES ASSUME NEW i \in 1..Len(q) PROVE q[i] \notin X
    BY DEF None
  <2>1. CASE i = 1
    BY <1>1, <1>5, <2>1
  <2>2. CASE i # 1
    <3>1. i \in 2..Len(q)
      BY <1>1, <2>2
    <3> QED BY <1>2, <1>5, <3>1 DEF None
  <2> QED BY <2>1, <2>2
<1> QED BY <1>3, <1>4, <1>5

-----------------------------------------------------------------------------
(* Inputs and the tracker.                                                 *)

LEMMA InputForms ==
  /\ \A i \in Input : \/ \E b \in Button : i \in OfButton(b)
                      \/ \E s \in Side, a \in Axis : i \in OfAxis(s, a)
  /\ \A b : \A i \in OfButton(b) : i.type \in {"hold", "release"} /\ i.button = b
  /\ \A s, a : \A i \in OfAxis(s, a) :
       i.type = "stick" /\ i.side = s /\ i.axis = a /\ i.to \in {"mid", "off"}
BY DEF Input, OfButton, OfAxis

(* What a handled input leaves as it was.                                  *)
LEMMA UpdatedFacts ==
  ASSUME NEW t \in Tracker, NEW i \in Input
  PROVE  /\ Updated(t, i) \in Tracker
         /\ \A b \in Button :
              /\ i \notin OfButton(b) => (b \in Updated(t, i).held <=> b \in t.held)
              /\ i \in OfButton(b) =>
                   /\ b \in Updated(t, i).held <=> i.type = "hold"
                   /\ Updated(t, i).buttonsChanged
         /\ ~Updated(t, i).buttonsChanged =>
              ~t.buttonsChanged /\ Updated(t, i).held = t.held
         /\ \A s \in Side, a \in Axis :
              /\ i \notin OfAxis(s, a) => Updated(t, i).sticks[s][a] = t.sticks[s][a]
              /\ i \in OfAxis(s, a) => Updated(t, i).sticks[s][a] = i.to
         /\ \A s \in Side :
              ~Updated(t, i).changed[s] =>
                ~t.changed[s] /\ Updated(t, i).sticks[s] = t.sticks[s]
<1>1. ASSUME NEW b \in Button, i \in OfButton(b)
      PROVE  /\ i.type \in {"hold", "release"} /\ i.button = b
             /\ \A s, a : i \notin OfAxis(s, a)
             /\ \A c : c # b => i \notin OfButton(c)
  BY <1>1, InputForms
<1>2. ASSUME NEW s \in Side, NEW a \in Axis, i \in OfAxis(s, a)
      PROVE  /\ i.type = "stick" /\ i.side = s /\ i.axis = a /\ i.to \in {"mid", "off"}
             /\ \A b : i \notin OfButton(b)
             /\ \A r, c : r # s \/ c # a => i \notin OfAxis(r, c)
  BY <1>2, InputForms
<1>3. CASE \E b \in Button : i \in OfButton(b)
  <2>1. PICK b \in Button : i \in OfButton(b)
    BY <1>3
  <2>0. i.button = b
    BY <1>1, <2>1
  <2>2. CASE i.type = "hold"
    <3>1. /\ Updated(t, i) \in Tracker
          /\ Updated(t, i).held = t.held \cup {b} /\ Updated(t, i).buttonsChanged = TRUE
          /\ Updated(t, i).sticks = t.sticks /\ Updated(t, i).changed = t.changed
      BY <2>0, <2>2 DEF Tracker, Updated
    <3> QED BY <1>1, <2>1, <2>2, <3>1
  <2>3. CASE i.type = "release"
    <3>1. /\ Updated(t, i) \in Tracker
          /\ Updated(t, i).held = t.held \ {b} /\ Updated(t, i).buttonsChanged = TRUE
          /\ Updated(t, i).sticks = t.sticks /\ Updated(t, i).changed = t.changed
      BY <2>0, <2>3 DEF Tracker, Updated
    <3> QED BY <1>1, <2>1, <2>3, <3>1
  <2> QED BY <1>1, <2>1, <2>2, <2>3
<1>4. CASE \E s \in Side, a \in Axis : i \in OfAxis(s, a)
  <2> USE DEF Tracker
  <2>1. PICK s \in Side, a \in Axis : i \in OfAxis(s, a)
    BY <1>4
  <2>2. Updated(t, i) = [t EXCEPT !.sticks[s][a] = i.to,
                                  !.changed[s] = @ \/ t.sticks[s][a] # i.to]
    BY SMTT(30), ZenonT(60), <1>2, <2>1 DEF Updated
  <2>3. /\ Updated(t, i).held = t.held
        /\ Updated(t, i).buttonsChanged = t.buttonsChanged
        /\ Updated(t, i).sticks = [t.sticks EXCEPT ![s][a] = i.to]
        /\ Updated(t, i).changed = [t.changed EXCEPT ![s] = @ \/ t.sticks[s][a] # i.to]
    BY <1>2, <2>1, <2>2
  <2>4. \A r \in Side, c \in Axis :
          Updated(t, i).sticks[r][c] = IF r = s /\ c = a THEN i.to ELSE t.sticks[r][c]
    BY <2>3 DEF Stick
  <2>5. ASSUME NEW r \in Side, ~Updated(t, i).changed[r]
        PROVE  ~t.changed[r] /\ Updated(t, i).sticks[r] = t.sticks[r]
    <3>1. CASE r # s
      BY <2>3, <2>5, <3>1
    <3>2. CASE r = s
      <4>1. ~t.changed[s] /\ t.sticks[s][a] = i.to
        BY <2>3, <2>5, <3>2
      <4>2. t.sticks[s] \in [Axis -> {"mid", "off"}]
        BY DEF Stick
      <4>3. [t.sticks[s] EXCEPT ![a] = i.to] = t.sticks[s]
        BY <4>1, <4>2
      <4> QED BY <2>3, <3>2, <4>1, <4>3
    <3> QED BY <3>1, <3>2
  <2>6. /\ Updated(t, i).sticks \in [Side -> Stick]
        /\ Updated(t, i).changed \in [Side -> BOOLEAN]
    BY <1>2, <2>1, <2>3 DEF Stick
  <2>7. Updated(t, i) \in Tracker
    BY <2>2, <2>3, <2>6
  <2> QED BY <1>2, <2>1, <2>3, <2>4, <2>5, <2>7
<1> QED BY <1>3, <1>4, InputForms

(* What the commands and their refusals do.                                *)
LEMMA ButtonFacts ==
  ASSUME NEW t \in Tracker, NEW p \in Controller, NEW l \in Lost
  PROVE  /\ ButtonInputs(t, p) \in Controller
         /\ ButtonInputs(t, p).sticks = p.sticks
         /\ t.held \subseteq ButtonInputs(t, p).buttons
         /\ p.buttons \subseteq ButtonInputs(t, p).buttons \/ t.held = {}
         /\ t.held = {} => ButtonInputs(t, p).buttons = {}
         /\ ButtonsTaken(t, l) \in Lost /\ ButtonsRefused(t, l) \in Lost
         /\ ButtonsTaken(t, l).sticks = l.sticks /\ ButtonsRefused(t, l).sticks = l.sticks
         /\ l.buttons \subseteq ButtonsTaken(t, l).buttons \cup t.held
         /\ l.buttons \subseteq ButtonsRefused(t, l).buttons
         /\ t.held \cap gamepad.buttons \subseteq ButtonsRefused(t, l).buttons
         /\ t.held = {} => ButtonsRefused(t, l).release
<1> USE DEF Tracker, Controller, Lost
<1>1. CASE t.held = {}
  BY <1>1 DEF ButtonInputs, ReleaseAll, ButtonsTaken, ButtonsRefused
<1>2. CASE t.held # {}
  BY <1>2 DEF ButtonInputs, Hold, ButtonsTaken, ButtonsRefused
<1> QED BY <1>1, <1>2

(* A closed connection is noted, and nothing else of the call changes.      *)
LEMMA GoneFacts ==
  ASSUME call \in Call, Gone
  PROVE  call' \in Call /\ call'.step = call.step /\ call'.sides = call.sides
<1> DEFINE g == call.step \in {"buttons", "sticks"}
<1>1. call' = [call EXCEPT !.gone = g] /\ g \in BOOLEAN
  BY DEF Gone
<1> HIDE DEF g
<1> QED BY <1>1 DEF Call

(* A button the tracker holds and the queue is silent about is held.       *)
LEMMA HeldByPlayer ==
  ASSUME NEW b \in Button, ButtonTracked(b), None(queue, OfButton(b)), b \in tracker.held
  PROVE  b \in gamepad.buttons
<1>1. \A x : ~LastIs(queue, OfButton(b), x) \/ x \notin OfButton(b)
  BY DEF LastIs, None
<1>2. ButtonInput(b) \in OfButton(b)
  BY DEF ButtonInput, OfButton
<1> QED BY <1>1, <1>2 DEF ButtonTracked, ButtonKnown

-----------------------------------------------------------------------------
(* The steps.                                                              *)

LEMMA InitIInv == Init => IInv
<1> SUFFICES ASSUME Init PROVE IInv
  OBVIOUS
<1>1. Neutral \in Controller
  BY DEF Neutral, Controller, Stick, Middle
<1>2. tracker \in Tracker
  BY <1>1 DEF Init, New, Tracker, Neutral, Controller
<1>3. call \in Call /\ lost \in Lost
  BY DEF Init, NoCall, Call, Lost
<1>4. TypeOK
  BY <1>1, <1>2, <1>3 DEF Init, TypeOK
<1>5. \A X : None(queue, X)
  BY DEF Init, None
<1> QED BY <1>4, <1>5 DEF IInv, Init, New, Neutral, Middle, NoCall, ButtonTracked,
          ButtonKnown, HoldSent, AxisTracked, ReleaseSent, CenterSent, CenterUnderWay,
          CenterTaken

(* An input changes the gamepad where it says so and nowhere else.         *)
LEMMA CastIInv ==
  ASSUME IInv, NEW i \in Input, NEW pad \in Controller, Cast(i, pad),
         \A b \in Button :
           IF i \in OfButton(b) THEN b \in pad.buttons <=> i.type = "hold"
                                ELSE b \in pad.buttons <=> b \in gamepad.buttons,
         \A s \in Side, a \in Axis :
           pad.sticks[s][a] = IF i \in OfAxis(s, a) THEN i.to ELSE gamepad.sticks[s][a]
  PROVE  IInv'
<1>1. /\ gamepad' = pad /\ queue' = Append(queue, i)
      /\ lost' = [lost EXCEPT !.buttons = @ \cap pad.buttons]
      /\ UNCHANGED <<tracker, call, connected, picopad>> /\ queue \in Seq(Input)
  BY DEF Cast, IInv, TypeOK
<1>2. /\ lost' \in Lost /\ lost'.buttons = lost.buttons \cap pad.buttons
      /\ lost'.release = lost.release /\ lost'.sticks = lost.sticks
  BY <1>1 DEF IInv, TypeOK, Lost
<1>3. TypeOK'
  BY <1>1, <1>2 DEF IInv, TypeOK
<1>4. ASSUME NEW b \in Button PROVE ButtonTracked(b)' /\ HoldSent(b)'
  <2>1. CASE i \in OfButton(b)
    <3>1. i = ButtonInput(b)'
      BY <1>1, <2>1, InputForms DEF ButtonInput, OfButton
    <3>2. LastIs(queue', OfButton(b), ButtonInput(b)')
      BY <1>1, <3>1, AppendLast
    <3>3. ~None(queue', OfButton(b))
      BY <1>1, <2>1, AppendLast
    <3> QED BY <3>2, <3>3 DEF ButtonTracked, HoldSent
  <2>2. CASE i \notin OfButton(b)
    <3>1. ButtonInput(b)' = ButtonInput(b) /\ (b \in gamepad'.buttons <=> b \in gamepad.buttons)
      BY <1>1, <2>2 DEF ButtonInput
    <3>2. ButtonKnown(b) => ButtonKnown(b)'
      BY <1>1, <1>2, <3>1 DEF ButtonKnown
    <3>3. ButtonTracked(b)'
      BY <1>1, <2>2, <3>1, <3>2, AppendLast DEF ButtonTracked, IInv
    <3>4. ASSUME None(queue', OfButton(b)), ~tracker.buttonsChanged, b \in tracker.held
          PROVE  b \in picopad.buttons \cup lost'.buttons
      <4>1. None(queue, OfButton(b))
        BY <1>1, <3>4, AppendLast
      <4>2. b \in picopad.buttons \cup lost.buttons
        BY <3>4, <4>1 DEF IInv, HoldSent
      <4>3. b \in gamepad.buttons
        BY <3>4, <4>1, HeldByPlayer DEF IInv
      <4> QED BY <1>1, <1>2, <3>1, <4>2, <4>3
    <3> QED BY <1>1, <3>3, <3>4 DEF HoldSent
  <2> QED BY <2>1, <2>2
<1>5. ASSUME NEW s \in Side, NEW a \in Axis PROVE AxisTracked(s, a)'
  <2>1. CASE i \in OfAxis(s, a)
    <3>1. i = AxisInput(s, a)'
      BY <1>1, <2>1, InputForms DEF AxisInput, OfAxis
    <3> QED BY <1>1, <3>1, AppendLast DEF AxisTracked
  <2>2. CASE i \notin OfAxis(s, a)
    <3>1. AxisInput(s, a)' = AxisInput(s, a) /\ gamepad'.sticks[s][a] = gamepad.sticks[s][a]
      BY <1>1, <2>2 DEF AxisInput
    <3> QED BY <1>1, <2>2, <3>1, AppendLast DEF AxisTracked, IInv
  <2> QED BY <2>1, <2>2
<1>6. ReleaseSent' /\ \A s \in Side : CenterSent(s)' /\ CenterUnderWay(s)'
  BY <1>1, <1>2 DEF IInv, ReleaseSent, CenterSent, CenterUnderWay, CenterTaken
<1> QED BY <1>3, <1>4, <1>5, <1>6 DEF IInv

LEMMA PlayerIInv ==
  ASSUME IInv,
         \/ \E b \in Button : Press(b) \/ Release(b)
         \/ \E s \in Side, a \in Axis : MoveStick(s, a)
  PROVE  IInv'
<1> USE DEF Controller
<1>0. gamepad \in Controller
  BY DEF IInv, TypeOK
<1>1. ASSUME NEW b \in Button, Press(b) PROVE IInv'
  <2> DEFINE i == [type |-> "hold", button |-> b]
             pad == [gamepad EXCEPT !.buttons = @ \cup {b}]
  <2>1. i \in Input /\ i.type = "hold" /\ i \in OfButton(b) /\ Cast(i, pad)
    BY <1>1 DEF Input, OfButton, Press
  <2>2. pad \in Controller /\ pad.sticks = gamepad.sticks /\ pad.buttons = gamepad.buttons \cup {b}
    BY <1>0
  <2>3. /\ \A c : c # b => i \notin OfButton(c)
        /\ \A s, a : i \notin OfAxis(s, a)
    BY <2>1, InputForms
  <2> HIDE DEF i, pad
  <2> QED BY <2>1, <2>2, <2>3, CastIInv
<1>2. ASSUME NEW b \in Button, Release(b) PROVE IInv'
  <2> DEFINE i == [type |-> "release", button |-> b]
             pad == [gamepad EXCEPT !.buttons = @ \ {b}]
  <2>1. i \in Input /\ i.type = "release" /\ i \in OfButton(b) /\ Cast(i, pad)
    BY <1>2 DEF Input, OfButton, Release
  <2>2. pad \in Controller /\ pad.sticks = gamepad.sticks /\ pad.buttons = gamepad.buttons \ {b}
    BY <1>0
  <2>3. /\ \A c : c # b => i \notin OfButton(c)
        /\ \A s, a : i \notin OfAxis(s, a)
    BY <2>1, InputForms
  <2> HIDE DEF i, pad
  <2> QED BY <2>1, <2>2, <2>3, CastIInv
<1>3. ASSUME NEW s \in Side, NEW a \in Axis, MoveStick(s, a) PROVE IInv'
  <2>1. PICK to \in {"mid", "off"} :
          Cast([type |-> "stick", side |-> s, axis |-> a, to |-> to],
               [gamepad EXCEPT !.sticks[s][a] = to])
    BY <1>3 DEF MoveStick
  <2> DEFINE i == [type |-> "stick", side |-> s, axis |-> a, to |-> to]
             pad == [gamepad EXCEPT !.sticks[s][a] = to]
  <2>2. i \in Input /\ i.type = "stick" /\ i.to = to /\ i \in OfAxis(s, a) /\ Cast(i, pad)
    BY <2>1 DEF Input, OfAxis
  <2>3. /\ pad \in Controller /\ pad.buttons = gamepad.buttons
        /\ \A r \in Side, c \in Axis :
             pad.sticks[r][c] = IF r = s /\ c = a THEN to ELSE gamepad.sticks[r][c]
    BY <1>0 DEF Stick
  <2>4. /\ \A b : i \notin OfButton(b)
        /\ \A r, c : r # s \/ c # a => i \notin OfAxis(r, c)
    BY <2>2, InputForms
  <2> HIDE DEF i, pad
  <2> QED BY <2>2, <2>3, <2>4, CastIInv
<1> QED BY <1>1, <1>2, <1>3

(* The tracker handles an input: its flags say what is new.                *)
LEMMA HandleCastIInv == ASSUME IInv, HandleCast PROVE IInv'
<1> DEFINE i == Head(queue)
           t == Updated(tracker, i)
<1>1. /\ TypeOK /\ queue # <<>> /\ queue' = Tail(queue) /\ tracker' = t
      /\ call.step = "idle" /\ call' \in {call, [call EXCEPT !.step = "pid"]}
      /\ UNCHANGED <<gamepad, picopad, lost>>
  BY DEF HandleCast, IInv
<1>2. queue \in Seq(Input) /\ i \in Input /\ tracker \in Tracker
  BY <1>1 DEF TypeOK
<1>3. t \in Tracker
  BY <1>2, UpdatedFacts
<1> HIDE DEF t
<1>4. call' \in Call /\ call'.step # "sticks"
  BY <1>1 DEF TypeOK, Call
<1>5. TypeOK'
  BY <1>1, <1>2, <1>3, <1>4 DEF TypeOK
<1> USE DEF t
<1>6. ASSUME NEW b \in Button PROVE ButtonTracked(b)' /\ HoldSent(b)'
  <2>1. ButtonInput(b)' = ButtonInput(b)
    BY <1>1 DEF ButtonInput
  <2>2. ButtonTracked(b)'
    <3>1. CASE LastIs(queue, OfButton(b), ButtonInput(b))
      <4>1. CASE LastIs(queue', OfButton(b), ButtonInput(b))
        BY <2>1, <4>1 DEF ButtonTracked
      <4>2. CASE i = ButtonInput(b) /\ None(queue', OfButton(b))
        <5>1. i \in OfButton(b) /\ (i.type = "hold" <=> b \in gamepad.buttons)
          BY <4>2 DEF ButtonInput, OfButton
        <5>2. b \in t.held <=> b \in gamepad.buttons
          BY <1>2, <5>1, UpdatedFacts
        <5> QED BY <1>1, <4>2, <5>2 DEF ButtonTracked, ButtonKnown
      <4> QED BY <1>1, <1>2, <3>1, <4>1, <4>2, TailLast
    <3>2. CASE None(queue, OfButton(b)) /\ ButtonKnown(b)
      <4>1. None(queue', OfButton(b)) /\ i \notin OfButton(b)
        BY <1>1, <1>2, <3>2, TailLast
      <4>2. b \in t.held <=> b \in tracker.held
        BY <1>2, <4>1, UpdatedFacts
      <4> QED BY <1>1, <3>2, <4>1, <4>2 DEF ButtonTracked, ButtonKnown
    <3> QED BY <3>1, <3>2 DEF IInv, ButtonTracked
  <2>3. ASSUME None(queue', OfButton(b)), ~t.buttonsChanged, b \in t.held
        PROVE  b \in picopad.buttons \cup lost.buttons
    <3>1. i \notin OfButton(b) /\ ~tracker.buttonsChanged /\ b \in tracker.held
      BY <1>2, <2>3, UpdatedFacts
    <3>2. None(queue, OfButton(b))
      BY <1>1, <1>2, <2>3, <3>1, TailLast
    <3> QED BY <3>1, <3>2 DEF IInv, HoldSent
  <2> QED BY <1>1, <2>2, <2>3 DEF HoldSent
<1>7. ASSUME NEW s \in Side, NEW a \in Axis PROVE AxisTracked(s, a)'
  <2>1. AxisInput(s, a)' = AxisInput(s, a)
    BY <1>1 DEF AxisInput
  <2>2. CASE LastIs(queue, OfAxis(s, a), AxisInput(s, a))
    <3>1. CASE LastIs(queue', OfAxis(s, a), AxisInput(s, a))
      BY <2>1, <3>1 DEF AxisTracked
    <3>2. CASE i = AxisInput(s, a) /\ None(queue', OfAxis(s, a))
      <4>1. gamepad.sticks[s][a] \in {"mid", "off"}
        BY <1>1 DEF TypeOK, Controller, Stick
      <4>2. i \in OfAxis(s, a) /\ i.to = gamepad.sticks[s][a]
        BY <3>2, <4>1 DEF AxisInput, OfAxis
      <4>3. t.sticks[s][a] = gamepad.sticks[s][a]
        BY <1>2, <4>2, UpdatedFacts
      <4> QED BY <1>1, <3>2, <4>3 DEF AxisTracked
    <3> QED BY <1>1, <1>2, <2>2, <3>1, <3>2, TailLast
  <2>3. CASE /\ None(queue, OfAxis(s, a))
             /\ tracker.sticks[s][a] \in {gamepad.sticks[s][a], "mid"}
    <3>1. None(queue', OfAxis(s, a)) /\ i \notin OfAxis(s, a)
      BY <1>1, <1>2, <2>3, TailLast
    <3>2. t.sticks[s][a] = tracker.sticks[s][a]
      BY <1>2, <3>1, UpdatedFacts
    <3> QED BY <1>1, <2>3, <3>1, <3>2 DEF AxisTracked
  <2> QED BY <2>2, <2>3 DEF IInv, AxisTracked
<1>8. ReleaseSent'
  BY <1>1, <1>2, UpdatedFacts DEF IInv, ReleaseSent
<1>9. ASSUME NEW s \in Side PROVE CenterSent(s)' /\ CenterUnderWay(s)'
  <2>1. ~t.changed[s] => ~tracker.changed[s] /\ t.sticks[s] = tracker.sticks[s]
    BY <1>2, UpdatedFacts
  <2> QED BY <1>1, <1>4, <2>1 DEF IInv, CenterSent, CenterUnderWay, CenterTaken
<1> QED BY <1>5, <1>6, <1>7, <1>8, <1>9 DEF IInv

(* A step that leaves the player, the queue and what the tracker holds as  *)
(* they are keeps what is said of them, if lost still names the buttons    *)
(* the tracker has forgotten.                                              *)
LEMMA TrackedStays ==
  ASSUME IInv, UNCHANGED <<gamepad, queue>>,
         tracker'.held = tracker.held, tracker'.sticks = tracker.sticks,
         lost.buttons \subseteq lost'.buttons \cup tracker.held
  PROVE  /\ \A b \in Button : ButtonTracked(b)'
         /\ \A s \in Side, a \in Axis : AxisTracked(s, a)'
<1>1. \A b \in Button : ButtonInput(b)' = ButtonInput(b) /\ (ButtonKnown(b) => ButtonKnown(b)')
  BY DEF ButtonInput, ButtonKnown
<1>2. \A s \in Side, a \in Axis : AxisInput(s, a)' = AxisInput(s, a)
  BY DEF AxisInput
<1> QED BY <1>1, <1>2 DEF IInv, ButtonTracked, AxisTracked

(* The buttons were taken by the firmware, or lost says that they were     *)
(* not; a stick in the middle that has something to send is to be sent.    *)
LEMMA SendButtonsIInv == ASSUME IInv, SendButtons PROVE IInv'
<1> DEFINE sides == SticksToUpdate(tracker)
<1>0. /\ tracker \in Tracker /\ picopad \in Controller /\ lost \in Lost /\ call \in Call
      /\ call.step = "buttons"
  BY DEF IInv, TypeOK, SendButtons
<1>1. /\ tracker' = [tracker EXCEPT !.buttonsChanged = FALSE]
      /\ call' = IF sides = {} THEN NoCall
                 ELSE [call EXCEPT !.step = "sticks", !.sides = sides]
      /\ UNCHANGED <<gamepad, queue>>
  BY DEF SendButtons
<1>2. /\ tracker' \in Tracker /\ tracker'.held = tracker.held /\ ~tracker'.buttonsChanged
      /\ tracker'.sticks = tracker.sticks /\ tracker'.changed = tracker.changed
  BY <1>0, <1>1 DEF Tracker
<1>3. sides \subseteq Side
  BY DEF SticksToUpdate
<1>4. call' \in Call /\ (call'.step = "sticks" => call'.sides = sides)
  BY <1>0, <1>1, <1>3 DEF Call, NoCall
<1>5. \/ tracker.buttonsChanged /\ picopad' = ButtonInputs(tracker, picopad)
           /\ lost' = ButtonsTaken(tracker, lost)
      \/ tracker.buttonsChanged /\ picopad' = picopad /\ lost' = ButtonsRefused(tracker, lost)
      \/ ~tracker.buttonsChanged /\ picopad' = picopad /\ lost' = lost
  BY DEF SendButtons
<1>6. /\ picopad' \in Controller /\ lost' \in Lost
      /\ picopad'.sticks = picopad.sticks /\ lost'.sticks = lost.sticks
      /\ lost.buttons \subseteq lost'.buttons \cup tracker.held
  BY <1>0, <1>5, ButtonFacts
<1>7. TypeOK'
  BY <1>1, <1>2, <1>4, <1>6 DEF IInv, TypeOK
<1>8. ASSUME NEW b \in Button, None(queue, OfButton(b)), b \in tracker.held
      PROVE  b \in picopad'.buttons \cup lost'.buttons
  <2>1. b \in gamepad.buttons
    BY <1>8, HeldByPlayer DEF IInv
  <2>2. ~tracker.buttonsChanged => b \in picopad.buttons \cup lost.buttons
    BY <1>8 DEF IInv, HoldSent
  <2> QED BY <1>0, <1>5, <1>8, <2>1, <2>2, ButtonFacts
<1>9. tracker.held = {} => picopad'.buttons = {} \/ lost'.release
  BY <1>0, <1>5, ButtonFacts DEF IInv, ReleaseSent
<1>10. ASSUME NEW s \in Side PROVE CenterSent(s)' /\ CenterUnderWay(s)'
  <2>1. s \notin sides /\ tracker.sticks[s] = Middle => ~tracker.changed[s]
    BY DEF SticksToUpdate
  <2> QED BY <1>2, <1>4, <1>6, <2>1 DEF IInv, CenterSent, CenterUnderWay, CenterTaken
<1> QED BY <1>1, <1>2, <1>6, <1>7, <1>8, <1>9, <1>10, TrackedStays DEF IInv, HoldSent, ReleaseSent

(* With the last stick all flags are cleared: a stick in the middle was    *)
(* among those sent, or had none.                                          *)
LEMMA SendStickIInv == ASSUME IInv, NEW s \in Side, SendStick(s) PROVE IInv'
<1>0. /\ tracker \in Tracker /\ picopad \in Controller /\ lost \in Lost /\ call \in Call
      /\ call.step = "sticks" /\ s \in call.sides /\ UNCHANGED <<gamepad, queue>>
  BY DEF IInv, TypeOK, SendStick
<1>1. /\ picopad' \in Controller /\ lost' \in Lost
      /\ picopad'.buttons = picopad.buttons
      /\ lost'.buttons = lost.buttons /\ lost'.release = lost.release
      /\ \A r \in Side \ {s} : CenterTaken(r) => CenterTaken(r)'
      /\ tracker.sticks[s] = Middle => CenterTaken(s)'
  <2> USE <1>0 DEF Controller, Lost, CenterTaken
  <2>1. CASE /\ picopad' = StickInput(tracker, picopad, s)
             /\ lost' = [lost EXCEPT !.sticks = @ \ {s}]
    <3>1. picopad' = [picopad EXCEPT !.sticks[s] = tracker.sticks[s]]
      BY <2>1 DEF StickInput
    <3>2. tracker.sticks[s] \in Stick
      BY DEF Tracker
    <3> QED BY <2>1, <3>1, <3>2
  <2>2. CASE lost' = [lost EXCEPT !.sticks = @ \cup {s}] /\ picopad' = picopad
    BY <2>2
  <2> QED BY <2>1, <2>2 DEF SendStick
<1>2. CASE /\ call.sides = {s} /\ tracker' = SticksSent(tracker) /\ call' = NoCall
  <2>1. /\ tracker' \in Tracker /\ tracker'.held = tracker.held
        /\ tracker'.sticks = tracker.sticks
        /\ tracker'.buttonsChanged = tracker.buttonsChanged
    BY <1>0, <1>2 DEF Tracker, SticksSent
  <2>2. call' \in Call /\ call'.step # "sticks"
    BY <1>2 DEF Call, NoCall
  <2>3. TypeOK'
    BY <1>0, <1>1, <2>1, <2>2 DEF IInv, TypeOK
  <2>4. ASSUME NEW r \in Side, tracker.sticks[r] = Middle PROVE CenterTaken(r)'
    <3>1. r # s => CenterTaken(r)
      BY <1>0, <1>2, <2>4 DEF IInv, CenterUnderWay
    <3> QED BY <1>1, <2>4, <3>1
  <2> QED BY <1>0, <1>1, <2>1, <2>2, <2>3, <2>4, TrackedStays
         DEF IInv, HoldSent, ReleaseSent, CenterSent, CenterUnderWay
<1>3. CASE /\ call.sides # {s} /\ tracker' = tracker
           /\ call' = [call EXCEPT !.sides = @ \ {s}]
  <2>1. call' \in Call /\ call'.step = "sticks" /\ call'.sides = call.sides \ {s}
    BY <1>0, <1>3 DEF Call
  <2>2. TypeOK'
    BY <1>0, <1>1, <1>3, <2>1 DEF IInv, TypeOK
  <2>3. ASSUME NEW r \in Side PROVE CenterSent(r)' /\ CenterUnderWay(r)'
    BY <1>0, <1>1, <1>3, <2>1 DEF IInv, CenterSent, CenterUnderWay
  <2> QED BY <1>0, <1>1, <1>3, <2>2, <2>3, TrackedStays DEF IInv, HoldSent, ReleaseSent
<1> QED BY <1>2, <1>3 DEF SendStick

(* A tracker that starts anew has lost all.                                *)
LEMMA CrashIInv == ASSUME IInv, Crash PROVE IInv'
<1>0. /\ tracker \in Tracker /\ picopad \in Controller /\ gamepad \in Controller
      /\ call \in Call
  BY DEF IInv, TypeOK
<1>1. /\ picopad' \in {picopad} \cup Executed /\ tracker' = New /\ queue' = <<>>
      /\ call' = NoCall /\ gamepad' = gamepad
      /\ lost' = [buttons |-> gamepad.buttons, release |-> TRUE, sticks |-> Side]
  BY DEF Crash
<1>2. \A s \in Side : StickInput(tracker, picopad, s) \in Controller
  BY <1>0 DEF StickInput, Controller, Tracker
<1>3. picopad' \in Controller
  <2>1. ButtonInputs(tracker, picopad) \in Controller
    BY <1>0, ButtonFacts DEF IInv, TypeOK
  <2>2. call.sides \subseteq Side
    BY <1>0 DEF Call
  <2> QED BY <1>0, <1>1, <1>2, <2>1, <2>2 DEF Executed
<1>4. tracker' \in Tracker /\ call' \in Call /\ lost' \in Lost
  BY <1>0, <1>1 DEF New, Neutral, Tracker, Stick, Middle, NoCall, Call, Lost, Controller
<1>5. TypeOK'
  BY <1>1, <1>3, <1>4 DEF IInv, TypeOK
<1>6. \A X : None(queue', X)
  BY <1>1 DEF None
<1>7. \A b \in Button : ButtonTracked(b)' /\ HoldSent(b)'
  BY <1>1, <1>6 DEF ButtonTracked, ButtonKnown, HoldSent, New
<1>8. \A s \in Side, a \in Axis : AxisTracked(s, a)'
  BY <1>1, <1>6 DEF AxisTracked, New, Neutral, Middle
<1>9. ReleaseSent' /\ \A s \in Side : CenterSent(s)' /\ CenterUnderWay(s)'
  BY <1>1 DEF ReleaseSent, CenterSent, CenterUnderWay, CenterTaken
<1> QED BY <1>5, <1>7, <1>8, <1>9 DEF IInv

(* A Picopad that loses power forgets only what lost remembers.            *)
LEMMA ReplugIInv == ASSUME IInv, Replug PROVE IInv'
<1>1. /\ picopad' = Neutral
      /\ lost' = [buttons |-> lost.buttons \cup (picopad.buttons \cap gamepad.buttons),
                  release |-> FALSE, sticks |-> {}]
      /\ Gone /\ UNCHANGED <<gamepad, queue, tracker>>
  BY DEF Replug
<1>2. /\ lost' \in Lost /\ lost.buttons \subseteq lost'.buttons
      /\ picopad.buttons \cap gamepad.buttons \subseteq lost'.buttons
  BY <1>1 DEF IInv, TypeOK, Lost, Controller
<1>3. picopad' \in Controller /\ picopad'.buttons = {}
      /\ \A s \in Side : picopad'.sticks[s] = Middle
  BY <1>1 DEF Neutral, Controller, Stick, Middle
<1>4. call' \in Call /\ call'.step = call.step /\ call'.sides = call.sides
  BY <1>1, GoneFacts DEF IInv, TypeOK
<1>5. TypeOK'
  BY <1>1, <1>2, <1>3, <1>4 DEF IInv, TypeOK
<1>6. ASSUME NEW b \in Button, None(queue, OfButton(b)), ~tracker.buttonsChanged,
             b \in tracker.held
      PROVE  b \in lost'.buttons
  <2>1. b \in gamepad.buttons
    BY <1>6, HeldByPlayer DEF IInv
  <2>2. b \in picopad.buttons \cup lost.buttons
    BY <1>6 DEF IInv, HoldSent
  <2> QED BY <1>2, <2>1, <2>2
<1> QED BY <1>1, <1>2, <1>3, <1>4, <1>5, <1>6, TrackedStays
       DEF IInv, HoldSent, ReleaseSent, CenterSent, CenterUnderWay, CenterTaken

(* The manager's answer, the time and the manager's connections change     *)
(* nothing of it.                                                          *)
LEMMA QuietIInv ==
  ASSUME IInv, PicopadPid \/ TimePasses \/ Connect \/ Disconnect PROVE IInv'
<1>1. UNCHANGED <<gamepad, queue, picopad, lost>>
  BY DEF PicopadPid, TimePasses, Connect, Disconnect
<1>2. /\ tracker' \in Tracker /\ tracker'.held = tracker.held
      /\ tracker'.buttonsChanged = tracker.buttonsChanged
      /\ tracker'.sticks = tracker.sticks /\ tracker'.changed = tracker.changed
  BY DEF PicopadPid, TimePasses, Connect, Disconnect, IInv, TypeOK, Tracker
<1>3. call' \in Call /\ (call'.step = "sticks" => call.step = "sticks" /\ call'.sides = call.sides)
  <2>1. CASE PicopadPid
    BY <2>1 DEF PicopadPid, IInv, TypeOK, Call, NoCall
  <2>2. CASE TimePasses \/ Connect
    BY <2>2 DEF TimePasses, Connect, IInv, TypeOK
  <2>3. CASE Disconnect
    BY <2>3, GoneFacts DEF Disconnect, IInv, TypeOK
  <2> QED BY <2>1, <2>2, <2>3
<1>4. TypeOK'
  BY <1>1, <1>2, <1>3 DEF IInv, TypeOK
<1> QED BY <1>1, <1>2, <1>3, <1>4, TrackedStays
       DEF IInv, HoldSent, ReleaseSent, CenterSent, CenterUnderWay, CenterTaken

LEMMA NextIInv == IInv /\ [Next]_vars => IInv'
<1> SUFFICES ASSUME IInv, [Next]_vars PROVE IInv'
  OBVIOUS
<1>1. CASE UNCHANGED vars
  <2>1. UNCHANGED <<gamepad, inputs, queue, tracker, call, connected, picopad, lost>>
    BY <1>1 DEF vars
  <2> QED BY <2>1, TrackedStays
         DEF IInv, TypeOK, HoldSent, ReleaseSent, CenterSent, CenterUnderWay, CenterTaken
<1> QED BY <1>1, PlayerIInv, HandleCastIInv, SendButtonsIInv, SendStickIInv, CrashIInv,
          ReplugIInv, QuietIInv DEF Next

-----------------------------------------------------------------------------
(* The reachable states.                                                   *)
THEOREM Inductive == Spec => []IInv
<1>1. Init => IInv
  BY InitIInv
<1>2. IInv /\ [Next]_vars => IInv'
  BY NextIInv
<1> QED BY <1>1, <1>2, PTL DEF Spec

(* Without an input in the queue the tracker knows what the player does,   *)
(* or started anew since.                                                  *)
LEMMA Settled ==
  ASSUME IInv, queue = <<>>
  PROVE  /\ \A b \in Button : ButtonKnown(b) /\ None(queue, OfButton(b))
         /\ \A s \in Side : gamepad.sticks[s] = Middle => tracker.sticks[s] = Middle
<1>1. \A X, x : None(queue, X) /\ ~LastIs(queue, X, x)
  BY DEF None, LastIs
<1>2. \A b \in Button : ButtonKnown(b)
  BY <1>1 DEF IInv, ButtonTracked
<1>3. \A s \in Side, a \in Axis : tracker.sticks[s][a] \in {gamepad.sticks[s][a], "mid"}
  BY <1>1 DEF IInv, AxisTracked
<1>4. \A s \in Side : tracker.sticks[s] \in Stick
  BY DEF IInv, TypeOK, Tracker
<1>5. ASSUME NEW s \in Side, gamepad.sticks[s] = Middle PROVE tracker.sticks[s] = Middle
  <2>1. \A a \in Axis : tracker.sticks[s][a] = "mid"
    BY <1>3, <1>5 DEF Middle
  <2> QED BY <1>4, <2>1 DEF Stick, Middle
<1> QED BY <1>1, <1>2, <1>5

(* When every input was handled and sent, the console holds what the       *)
(* player holds: neither the merging of inputs while no Picopad is         *)
(* connected, nor connecting and disconnecting between the calls of        *)
(* send_inputs, nor the masks of Picopad.hold lose a press.  Only one      *)
(* named in a refused command, whose result send_button_inputs drops, or   *)
(* known to a tracker or a Picopad that started anew, may be missing.      *)
THEOREM PressesArrive == Spec => []HeldIsHeld
<1>1. ASSUME IInv PROVE HeldIsHeld
  BY <1>1, Settled DEF HeldIsHeld, ButtonsSettled, IInv, TypeOK, Controller, HoldSent, ButtonKnown
<1> QED BY <1>1, Inductive, PTL

(* And when the player has let go of everything, nothing is held, although *)
(* Picopad.hold never releases a button (State.send_button_inputs calls    *)
(* release_all then), unless that command was refused or forgotten.        *)
THEOREM ReleasesArrive == Spec => []AllReleased
<1>1. ASSUME IInv PROVE AllReleased
  <2> SUFFICES ASSUME ButtonsSettled, gamepad.buttons = {}, ~lost.release
               PROVE  picopad.buttons = {}
    BY DEF AllReleased
  <2>1. tracker.held = {}
    BY <1>1, Settled DEF ButtonsSettled, ButtonKnown, IInv, TypeOK, Tracker
  <2> QED BY <1>1, <2>1 DEF ButtonsSettled, IInv, ReleaseSent
<1> QED BY <1>1, Inductive, PTL

(* A stick let go comes to rest for the console too: the centre is sent at *)
(* once, and clearing the flags of sticks that wait drops no centre        *)
(* (State.send_stick_inputs), unless a position was refused or forgotten.  *)
THEOREM CentersArrive == Spec => []CenterArrives
<1>1. ASSUME IInv PROVE CenterArrives
  BY <1>1, Settled DEF CenterArrives, SticksSettled, IInv, CenterSent, CenterTaken
<1> QED BY <1>1, Inductive, PTL

=============================================================================
