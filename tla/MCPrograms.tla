----------------------------- MODULE MCPrograms -----------------------------
(* Model checking of VisionPort, GamepadPort and ControllerInput.  None of *)
(* them meets another: a behaviour is one of a single one of them, while   *)
(* the other two stay as they began.                                       *)
EXTENDS ControllerInput

CONSTANTS
  Caller, MaxCommands, MaxVisionStops,
  Client, MaxCalls, MaxConnections, MaxEvents, MaxProxyStops

ASSUME {MaxCommands, MaxVisionStops} \subseteq Nat
ASSUME {MaxCalls, MaxConnections, MaxEvents, MaxProxyStops} \subseteq Nat

VARIABLES
  subject,    \* the one that runs: vision, gamepad or input
  asking, patient, callers, stdin, stdout, astray, commands, visionProgram, visionStops,
  waiting, clients, mapping, input, mailbox, reader, thread, connection, connected,
  behind, calls, events, proxyProgram, proxyStops

V == INSTANCE VisionPort
     WITH program <- visionProgram, stops <- visionStops, MaxStops <- MaxVisionStops

G == INSTANCE GamepadPort
     WITH program <- proxyProgram, stops <- proxyStops, MaxStops <- MaxProxyStops

Values == {-1, 0, 2303, 4095, 4096}

(* A user's calibration of the left stick that is in range, with other     *)
(* reaches than the factory's, and one of the right stick that is not.     *)
Dumps ==
  {[factory |-> [l |-> <<0, 7, 112, 0, 8, 128, 0, 7, 112>>,
                 r |-> <<0, 8, 128, 0, 7, 112, 0, 7, 112>>],
    user |-> [l |-> <<33, 100, 95, 189, 151, 121, 239, 213, 104>>, r |-> r]]
      : r \in {NoData, <<255, 255, 255, 255, 15, 255, 0, 7, 112>>}}

visionVars ==
  <<asking, patient, callers, visionProgram, stdin, stdout, astray, commands, visionStops>>
proxyVars ==
  <<waiting, clients, mapping, behind, input, mailbox, reader, thread, connection,
    connected, proxyProgram, calls, events, proxyStops>>
everything == <<subject, visionVars, proxyVars, vars>>

(* What runs is vision; what does not keeps its state.                     *)
OfVision(A) == subject = "vision" /\ A /\ UNCHANGED <<subject, proxyVars, vars>>

MCInit ==
  /\ subject \in {"vision", "gamepad", "input"}
  /\ V!Init /\ G!Init /\ Init
  /\ subject # "input" =>
       /\ controller = "PRO_CONTROLLER"
       /\ calibration = [side \in Side |-> Calibration(Blank, side)]

MCNext ==
  \/ OfVision(V!Next)
  \/ subject = "gamepad" /\ G!Next /\ UNCHANGED <<subject, visionVars, vars>>
  \/ subject = "input" /\ Next /\ UNCHANGED <<subject, visionVars, proxyVars>>

(* The fairness of VisionPort's FairSpec.                                  *)
MCSpec ==
  /\ MCInit /\ [][MCNext]_everything
  /\ WF_everything(OfVision(V!Program))
  /\ WF_everything(OfVision(V!handle_info))
  /\ WF_everything(OfVision(V!Restart))

-----------------------------------------------------------------------------
(* An answer of vision.py reaches the caller of Vision that asked, and one *)
(* of gamepad.py the client of Proxy: the answers that are still to come   *)
(* belong to those who are queued, in order, although callers give up,     *)
(* programs end, and some lines answer nobody (VisionPort, GamepadPort).   *)
OwnAnswer == V!OwnAnswer /\ G!OwnAnswer

(* A call of Vision ends, also one with timeout: :infinity, as             *)
(* wait_until_found makes it: with an answer or the end of the server,     *)
(* unless an answer went astray (VisionPort).                              *)
CallsEnd == V!CallsEnd

(* Proxy reads an event with the mapping of the controller it comes from,  *)
(* or with an older one while the news of the connection is on its way,    *)
(* never with that of a later controller (GamepadPort).                    *)
EventsMapped == G!EventsMapped
=============================================================================
