------------------------------ MODULE GuiInput ------------------------------
(***************************************************************************)
(* What the graphical application sends as the state of the controller     *)
(* (gui/src/streamsession.cpp): every event of a pad, the keyboard, the    *)
(* mouse or the touch screen changes the state of its source, and          *)
(* SendFeedbackState puts the sources together. A menu blocks the input;   *)
(* with a shortcut the directional buttons become a finger on the          *)
(* touchpad. Positions, sticks and motion are left out.                    *)
(***************************************************************************)
EXTENDS Integers, FiniteSets

CONSTANTS PadButtons,   \* buttons of the pad; "mic" is the one that mutes
          Keys,         \* buttons that are mapped to keys
          Shortcut,     \* dpad_touch_shortcut1 to 4
          Fingers,      \* fingers on the touch screen
          TouchesMax,   \* CHIAKI_CONTROLLER_TOUCHES_MAX
          IdMod,        \* numbers of touches
          MaxTouches    \* bound: touches of the screen that begin

VARIABLES
  pad,         \* the buttons in the state of the pad
  micPush,     \* micbutton_push of the pad
  keyboard,    \* keyboard_state: its buttons and touches
  mouse,       \* mouse_touch_id
  touch,       \* touch_state
  tracker,     \* touch_tracker: the touch of each finger
  dpad,        \* the touch of the directional buttons, and its two timers
  regular,     \* dpad_regular
  switched,    \* dpad_regular_touch_switched
  block,       \* input_block
  sent,        \* what the session was given
  held,        \* what the user holds down, by source
  stuck,       \* buttons whose release the pad's state missed
  over,        \* what has been held since before the menu was closed
  begun        \* touches of the screen that began

inputVars == <<pad, micPush, keyboard, mouse, touch, tracker, dpad, regular, switched, block, sent,
               held, stuck, over, begun>>

InputConstantsOK ==
  /\ Shortcut \subseteq PadButtons \cup {"touchpad"}
  /\ {IdMod, TouchesMax, MaxTouches} \subseteq Nat /\ MaxTouches < IdMod

-----------------------------------------------------------------------------
(* The touches of a state, each with a number                              *)

Slots == 1 .. TouchesMax
Idle == [buttons |-> {}, slots |-> [i \in Slots |-> -1], next |-> 0]
FreeSlots(s) == {i \in Slots : s.slots[i] < 0}
Ids(s) == {s.slots[i] : i \in Slots} \ {-1}

\* chiaki_controller_state_start_touch: the first free place and the next number.
TouchId(s) == IF FreeSlots(s) = {} THEN -1 ELSE s.next
StartTouch(s) ==
  IF FreeSlots(s) = {} THEN s
  ELSE LET i == CHOOSE j \in FreeSlots(s) : \A k \in FreeSlots(s) : j <= k
       IN  [s EXCEPT !.slots[i] = s.next, !.next = (@ + 1) % IdMod]

\* chiaki_controller_state_stop_touch
StopTouch(s, id) ==
  [s EXCEPT !.slots = [i \in Slots |-> IF @[i] = id THEN -1 ELSE @[i]]]

Init ==
  /\ pad = {} /\ micPush = FALSE
  /\ keyboard = Idle /\ mouse = -1
  /\ touch = Idle /\ tracker = [f \in {} |-> 0]
  /\ dpad = [touching |-> FALSE, moves |-> FALSE, stops |-> FALSE]
  /\ regular = TRUE /\ switched = FALSE
  /\ block = 0
  /\ sent = [buttons |-> {}, touching |-> {}]
  /\ held = {} /\ stuck = {} /\ over = {} /\ begun = 0

-----------------------------------------------------------------------------
\* SendFeedbackState and DpadSendFeedbackState, which is the one of the timer.
\* Blocked input is idle and the keyboard forgets what it had; it is unblocked
\* when the menu is closed and no button is pressed any more. With the shortcut
\* the directional buttons turn from buttons to a touch and back, once for each
\* time it is pressed. The touch goes on for a while after they are released.
Send(padButtons, kb, ts, timer, oldBlock) ==
  LET all == padButtons \cup kb.buttons \cup ts.buttons
      lifted == oldBlock = 2 /\ all = {}
      blocked == oldBlock # 0 /\ ~lifted
      buttons == IF blocked THEN {} ELSE all
      shortcut == Shortcut # {} /\ Shortcut \subseteq buttons
      asButtons == IF shortcut /\ ~switched THEN ~regular ELSE regular
      asTouch == ~asButtons /\ "dpad" \in buttons
  IN  /\ block' = IF lifted THEN 0 ELSE oldBlock
      /\ keyboard' = IF blocked THEN Idle ELSE kb
      /\ switched' = shortcut
      /\ regular' = asButtons
      /\ dpad' = IF asTouch
                 THEN [touching |-> TRUE, moves |-> dpad.moves \/ ~timer, stops |-> dpad.stops /\ timer]
                 ELSE [dpad EXCEPT !.stops = @ \/ dpad.touching]
      /\ sent' = [buttons |-> IF asTouch THEN buttons \ {"dpad"} ELSE buttons,
                  touching |-> (IF ~blocked /\ Ids(kb) # {} THEN {"mouse"} ELSE {})
                               \cup (IF ~blocked /\ Ids(ts) # {} THEN {"finger"} ELSE {})
                               \cup (IF asTouch \/ dpad.touching THEN {"dpad"} ELSE {})]
      /\ over' = IF block' = 0 THEN over \cap held' ELSE held'

\* UpdateState and HandleButtonEvent of a pad. The button that mutes is not in
\* the state; while it is pressed other buttons that are pressed are ignored,
\* and the first that is released is taken for it: nothing is sent.
PadPressed(b) ==
  /\ <<"pad", b>> \notin held
  /\ held' = held \cup {<<"pad", b>>}
  /\ micPush' = (micPush \/ b = "mic")
  /\ pad' = IF micPush' THEN pad ELSE pad \cup {b}
  /\ stuck' = stuck \ {b}
  /\ Send(pad', keyboard, touch, FALSE, block)
  /\ UNCHANGED <<mouse, touch, tracker, begun>>

PadReleased(b) ==
  /\ <<"pad", b>> \in held
  /\ held' = held \ {<<"pad", b>>}
  /\ micPush' = FALSE
  /\ IF micPush \/ b = "mic"
     THEN /\ stuck' = stuck \cup ({b} \cap pad)
          /\ over' = over \cap held'
          /\ UNCHANGED <<pad, keyboard, dpad, regular, switched, block, sent>>
     ELSE /\ pad' = pad \ {b}
          /\ stuck' = stuck \ {b}
          /\ Send(pad', keyboard, touch, FALSE, block)
  /\ UNCHANGED <<mouse, touch, tracker, begun>>

\* UpdateGamepads: the pad is gone, and its state with it.
PadRemoved ==
  /\ held' = {h \in held : h[1] # "pad"}
  /\ pad' = {} /\ micPush' = FALSE /\ stuck' = {}
  /\ Send({}, keyboard, touch, FALSE, block)
  /\ UNCHANGED <<mouse, touch, tracker, begun>>

\* HandleKeyboardEvent, without the repetitions.
KeyEvent(b) ==
  LET press == <<"key", b>> \notin held
  IN  /\ held' = IF press THEN held \cup {<<"key", b>>} ELSE held \ {<<"key", b>>}
      /\ Send(pad, [keyboard EXCEPT !.buttons = IF press THEN @ \cup {b} ELSE @ \ {b}], touch,
              FALSE, block)
      /\ UNCHANGED <<pad, micPush, mouse, touch, tracker, stuck, begun>>

\* HandleMousePressEvent: all but the left button click the touchpad.
MousePressed(m) ==
  /\ <<"mouse", m>> \notin held
  /\ held' = held \cup {<<"mouse", m>>}
  /\ Send(pad, IF m = "left" THEN keyboard ELSE [keyboard EXCEPT !.buttons = @ \cup {"touchpad"}],
          touch, FALSE, block)
  /\ UNCHANGED <<pad, micPush, mouse, touch, tracker, stuck, begun>>

\* HandleMouseMoveEvent: with only the left button a finger moves, or begins to.
MouseMoved ==
  /\ held' = held
  /\ IF {h \in held : h[1] = "mouse"} = {<<"mouse", "left">>} /\ mouse < 0
     THEN mouse' = TouchId(keyboard) /\ Send(pad, StartTouch(keyboard), touch, FALSE, block)
     ELSE mouse' = mouse /\ Send(pad, keyboard, touch, FALSE, block)
  /\ UNCHANGED <<pad, micPush, touch, tracker, stuck, begun>>

\* HandleMouseReleaseEvent: any button ends the click, the left one the touch.
MouseReleased(m) ==
  /\ <<"mouse", m>> \in held
  /\ held' = held \ {<<"mouse", m>>}
  /\ mouse' = IF m = "left" THEN -1 ELSE mouse
  /\ LET ended == IF m = "left" /\ mouse >= 0 THEN StopTouch(keyboard, mouse) ELSE keyboard
     IN  Send(pad, [ended EXCEPT !.buttons = @ \ {"touchpad"}], touch, FALSE, block)
  /\ UNCHANGED <<pad, micPush, touch, tracker, stuck, begun>>

\* HandleTouchEvent, of one finger. The edge of the screen and a second tap are
\* a click; a finger without a place is not followed.
Clicked(s, click) == [s EXCEPT !.buttons = IF click THEN {"touchpad"} ELSE {}]

FingerDown(f) ==
  /\ <<"finger", f>> \notin held /\ begun < MaxTouches
  /\ begun' = begun + 1
  /\ held' = held \cup {<<"finger", f>>}
  /\ \E click \in BOOLEAN : touch' = Clicked(StartTouch(touch), click)
  /\ tracker' = IF TouchId(touch) < 0 THEN tracker
                ELSE [g \in DOMAIN tracker \cup {f} |-> IF g = f THEN TouchId(touch) ELSE tracker[g]]
  /\ Send(pad, keyboard, touch', FALSE, block)
  /\ UNCHANGED <<pad, micPush, mouse, stuck>>

FingerUp(f) ==
  /\ <<"finger", f>> \in held
  /\ held' = held \ {<<"finger", f>>}
  /\ touch' = Clicked(IF f \in DOMAIN tracker THEN StopTouch(touch, tracker[f]) ELSE touch, FALSE)
  /\ tracker' = [g \in DOMAIN tracker \ {f} |-> tracker[g]]
  /\ Send(pad, keyboard, touch', FALSE, block)
  /\ UNCHANGED <<pad, micPush, mouse, stuck, begun>>

\* BlockInput, as a menu opens and is closed.
BlockInput(on) ==
  /\ held' = held
  /\ Send(pad, keyboard, touch, FALSE, IF on THEN 1 ELSE 2)
  /\ UNCHANGED <<pad, micPush, mouse, touch, tracker, stuck, begun>>

\* dpad_touch_timer: the finger goes on while the buttons are pressed.
DpadMoves ==
  /\ dpad.moves
  /\ held' = held
  /\ Send(pad, keyboard, touch, TRUE, block)
  /\ UNCHANGED <<pad, micPush, mouse, touch, tracker, stuck, begun>>

\* dpad_touch_stop_timer: the finger is lifted and the other timer stopped.
\* What is sent does not begin a touch: the timer would have been stopped.
DpadStops ==
  /\ dpad.stops
  /\ dpad' = [touching |-> FALSE, moves |-> FALSE, stops |-> FALSE]
  /\ sent' = [sent EXCEPT !.touching = @ \ {"dpad"}]
  /\ UNCHANGED <<pad, micPush, keyboard, mouse, touch, tracker, regular, switched, block, held,
                 stuck, over, begun>>

Timers == DpadMoves \/ DpadStops

Next ==
  \/ \E b \in PadButtons : PadPressed(b) \/ PadReleased(b)
  \/ PadRemoved
  \/ \E b \in Keys : KeyEvent(b)
  \/ \E m \in {"left", "right"} : MousePressed(m) \/ MouseReleased(m)
  \/ MouseMoved
  \/ \E f \in Fingers : FingerDown(f) \/ FingerUp(f)
  \/ \E on \in BOOLEAN : BlockInput(on)
  \/ Timers

-----------------------------------------------------------------------------
(* Properties                                                              *)

States == [buttons : SUBSET (PadButtons \cup Keys \cup {"touchpad"}),
           slots : [Slots -> -1 .. (IdMod - 1)], next : 0 .. (IdMod - 1)]

TypeOK ==
  /\ pad \subseteq PadButtons /\ stuck \subseteq PadButtons
  /\ {micPush, regular, switched} \subseteq BOOLEAN
  /\ keyboard \in States /\ touch \in States
  /\ mouse \in -1 .. (IdMod - 1)
  /\ DOMAIN tracker \subseteq Fingers /\ \A f \in DOMAIN tracker : tracker[f] \in 0 .. (IdMod - 1)
  /\ dpad \in [touching : BOOLEAN, moves : BOOLEAN, stops : BOOLEAN]
  /\ block \in 0 .. 2
  /\ sent.touching \subseteq {"mouse", "finger", "dpad"}
  /\ over \subseteq held

\* The button that something held down may press.
Gives(h) == IF h[1] \in {"pad", "key"} THEN h[2] ELSE "touchpad"

\* The console sees pressed only what the user holds, apart from a button that
\* was let go while the one that mutes was pressed: a press whose end was not
\* sent goes on for ever (every handler ends with SendFeedbackState).
NothingStaysPressed ==
  /\ sent.buttons \subseteq {Gives(h) : h \in held} \cup stuck
  /\ "mouse" \in sent.touching => <<"mouse", "left">> \in held
  /\ "finger" \in sent.touching => \E h \in held : h[1] = "finger"

\* Every touch of the screen belongs to one finger that is down
\* (touch_tracker and the places of touch_state).
TouchesAreFingers ==
  /\ {tracker[f] : f \in DOMAIN tracker} = Ids(touch)
  /\ \A f, g \in DOMAIN tracker : tracker[f] = tracker[g] => f = g
  /\ \A f \in DOMAIN tracker : <<"finger", f>> \in held

\* What was held while the menu was open does not act on the game: nothing of it
\* is sent until it was released (input_block).
MenuKeepsItsButtons ==
  \A h \in over : h[1] \in {"pad", "key"} /\ h[2] \in sent.buttons
                  => h[2] \in stuck \/ \E g \in held \ over : Gives(g) = h[2]

\* A finger the directional buttons have put down moves while they are pressed
\* and has a timer that lifts it when they are not (dpad_touch_stop_timer).
DpadTouchIsLifted ==
  /\ dpad.touching => dpad.moves
  /\ dpad.stops => dpad.touching
  /\ dpad.touching /\ ~dpad.stops => "dpad" \in pad \cup keyboard.buttons /\ ~regular /\ block = 0

\* Why these hold. Each button in a state has something that holds it down, and
\* once the menu is closed something that was not held all the time since;
Pressing == IF block = 0 THEN held \ over ELSE held
ButtonsInv ==
  /\ over \subseteq held /\ block \in 0 .. 2 /\ keyboard \in States /\ touch \in States
  /\ \A b \in pad : <<"pad", b>> \in Pressing \/ b \in stuck
  /\ \A b \in keyboard.buttons :
       <<"key", b>> \in Pressing \/ (b = "touchpad" /\ \E h \in Pressing : h[1] = "mouse")
  /\ touch.buttons # {} => touch.buttons = {"touchpad"} /\ \E h \in Pressing : h[1] = "finger"
  /\ sent \in [buttons : SUBSET (pad \cup keyboard.buttons \cup touch.buttons),
               touching : SUBSET {"mouse", "finger", "dpad"}]
  /\ block # 0 => sent.buttons = {}

\* the touch of the mouse has its number, those of the screen have numbers
\* below the next one, and each place has another one.
TouchesInv ==
  /\ mouse \in -1 .. (IdMod - 1) /\ Ids(keyboard) \subseteq {mouse}
  /\ mouse # -1 => <<"mouse", "left">> \in held
  /\ begun \in 0 .. MaxTouches /\ touch.next <= begun
  /\ \A i \in Slots : touch.slots[i] < touch.next
  /\ \A i, j \in Slots : touch.slots[i] = touch.slots[j] => i = j \/ touch.slots[i] = -1
  /\ TouchesAreFingers
  /\ "mouse" \in sent.touching => <<"mouse", "left">> \in held
  /\ "finger" \in sent.touching => \E h \in held : h[1] = "finger"

DpadInv == DpadTouchIsLifted /\ dpad \in [touching : BOOLEAN, moves : BOOLEAN, stops : BOOLEAN]
InputInv == ButtonsInv /\ TouchesInv /\ DpadInv

Unfinished == dpad.touching /\ ("dpad" \notin pad \cup keyboard.buttons)
=============================================================================
