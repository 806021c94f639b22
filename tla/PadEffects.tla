----------------------------- MODULE PadEffects -----------------------------
(***************************************************************************)
(* What the console tells of the controller, on its way to the pads: the   *)
(* handlers of pad info, rumble and trigger effects of                     *)
(* lib/src/streamconnection.c, StreamSession::Event of                     *)
(* gui/src/streamsession.cpp, which runs on Takion's thread as well, and   *)
(* what these leave to the application's thread, which has the pads.  Pads *)
(* come and go; haptics become rumbling by a timer; and the application    *)
(* may begin another session, which meets the same ControllerManager.      *)
(* Motion, handheld pads and the haptics' own audio device are left out;   *)
(* of strengths there is on and off.                                       *)
(***************************************************************************)
EXTENDS Naturals, Sequences, FiniteSets

CONSTANTS Pads,        \* that may be plugged in
          DualSense,   \* those that have trigger effects
          Looks,       \* colors, and as many player indices; a session begins with 0
          Packets,     \* RUMBLE_HAPTICS_PACKETS_PER_RUMBLE
          MaxEvents    \* bound: messages, frames, plugs and further sessions

PadEffectsConstantsOK ==
  /\ DualSense \subseteq Pads /\ 0 \in Looks /\ Packets \in Nat \ {0}
  /\ MaxEvents \in Nat

Kinds == {"rumble", "trigger"}
Still == [k \in Kinds |-> 0]
Strong == [k \in Kinds |-> "strong"]
Levels == {"strong", "off"}
Beginning == [led |-> 0, index |-> 0, level |-> Strong]

VARIABLES
  stream,    \* led_state, player_index, haptic_intensity and trigger_intensity of
             \* the stream connection: what pad info said last
  effect,    \* what the console's rumble and trigger messages said last
  takion,    \* the events Takion's thread still has to send
  gui,       \* led_color, player_index, ps5_rumble_intensity and ps5_trigger_intensity
  posted,    \* what was left to the application's thread
  manager,   \* dualsense_intensity of the ControllerManager
  pads,      \* the pads in controllers, and what they were told
  haptics, humming,  \* rumble_haptics and rumble_haptics_on
  unheard,   \* kinds whose last message was dropped, the intensity being off
  leveled,   \* whether this session had an intensity to tell
  count      \* messages, frames, plugs and further sessions so far

vars == <<stream, effect, takion, gui, posted, manager, pads, haptics, humming, unheard,
          leveled, count>>

Init ==
  /\ stream = Beginning /\ gui = Beginning /\ effect = Still
  /\ takion = <<>> /\ posted = <<>>
  /\ manager = Strong /\ pads = <<>>
  /\ haptics = 0 /\ humming = FALSE
  /\ unheard = {} /\ leveled = FALSE
  /\ count = 0

-----------------------------------------------------------------------------
(* Takion's thread                                                         *)

\* stream_connection_takion_data_pad_info, in either of its two layouts: what
\* has changed becomes an event.
PadInfo(info) ==
  LET Changed(differs, event) == IF differs THEN <<event>> ELSE <<>>
      Level(k) == Changed(info.level[k] # stream.level[k],
                          [is |-> "level", kind |-> k, value |-> info.level[k]])
  IN /\ takion = <<>> /\ count < MaxEvents
     /\ stream' = info
     /\ takion' = Level("rumble") \o Level("trigger")
                  \o Changed(info.led # stream.led, [is |-> "led", value |-> info.led])
                  \o Changed(info.index # stream.index, [is |-> "index", value |-> info.index])
     /\ leveled' = (leveled \/ info.level # stream.level)
     /\ count' = count + 1
     /\ UNCHANGED <<effect, gui, posted, manager, pads, haptics, humming, unheard>>

\* stream_connection_takion_data_rumble and ..._trigger_effects
Effect(k, value) ==
  /\ takion = <<>> /\ count < MaxEvents
  /\ effect' = [effect EXCEPT ![k] = value]
  /\ takion' = <<[is |-> "effect", kind |-> k, value |-> value]>>
  /\ count' = count + 1
  /\ UNCHANGED <<stream, gui, posted, manager, pads, haptics, humming, unheard, leveled>>

\* StreamSession::Event.  The color goes with what is posted, the player index
\* is read when that runs; of a kind whose intensity is off nothing is posted.
Leveled(e) == [gui EXCEPT !.level[e.kind] = e.value]
Dropped(e) == e.is = "effect" /\ gui.level[e.kind] = "off"
Event ==
  LET e == Head(takion) IN
  /\ takion # <<>> /\ takion' = Tail(takion)
  /\ gui' = CASE e.is = "level" -> Leveled(e)
              [] e.is = "led" -> [gui EXCEPT !.led = e.value]
              [] e.is = "index" -> [gui EXCEPT !.index = e.value]
              [] OTHER -> gui
  /\ posted' = CASE e.is = "level" -> Append(posted, [is |-> "level", value |-> gui'.level])
                 [] Dropped(e) -> posted
                 [] OTHER -> Append(posted, e)
  /\ unheard' = IF e.is # "effect" THEN unheard
                ELSE IF Dropped(e) THEN unheard \cup {e.kind} ELSE unheard \ {e.kind}
  /\ UNCHANGED <<stream, effect, manager, pads, haptics, humming, leveled, count>>

\* PushHapticsFrame, of a frame that is strong enough, with a pad to feel it.
HapticsFrame ==
  /\ takion = <<>> /\ count < MaxEvents /\ pads # <<>>
  /\ posted' = Append(posted, [is |-> "frame"])
  /\ count' = count + 1
  /\ UNCHANGED <<stream, effect, takion, gui, manager, pads, haptics, humming, unheard, leveled>>

-----------------------------------------------------------------------------
(* The application's thread                                                *)

Feels(p, k) == k = "rumble" \/ p \in DualSense

Posted ==
  LET e == Head(posted)
      Told(p) == CASE e.is = "led" -> [pads[p] EXCEPT !.led = e.value]
                   [] e.is = "index" -> [pads[p] EXCEPT !.index = gui.index]
                   [] e.is = "effect" /\ Feels(p, e.kind) -> [pads[p] EXCEPT !.effect[e.kind] = e.value]
                   [] OTHER -> pads[p]
  IN /\ posted # <<>> /\ posted' = Tail(posted)
     /\ pads' = [p \in DOMAIN pads |-> Told(p)]
     /\ manager' = IF e.is = "level" THEN e.value ELSE manager
     /\ haptics' = IF e.is = "frame" THEN haptics + 1 ELSE haptics
     /\ UNCHANGED <<stream, effect, takion, gui, humming, unheard, leveled, count>>

\* rumble_haptics_timer
HapticsTimer ==
  LET taken == IF haptics < Packets THEN haptics ELSE Packets
      on == taken > 0
      Hum(p) == [pads[p] EXCEPT !.effect["rumble"] = IF on THEN 1 ELSE 0]
  IN /\ on \/ humming
     /\ haptics' = haptics - taken /\ humming' = on
     /\ pads' = [p \in DOMAIN pads |-> Hum(p)]
     /\ UNCHANGED <<stream, effect, takion, gui, posted, manager, unheard, leveled, count>>

\* UpdateGamepads: a pad that is new is told the looks a second later.
Plug(p) ==
  /\ p \notin DOMAIN pads /\ count < MaxEvents
  /\ pads' = [q \in DOMAIN pads \cup {p} |->
                IF q = p THEN [fresh |-> TRUE, led |-> 0, index |-> 0, effect |-> Still]
                ELSE pads[q]]
  /\ count' = count + 1
  /\ UNCHANGED <<stream, effect, takion, gui, posted, manager, haptics, humming, unheard, leveled>>
Second(p) ==
  /\ p \in DOMAIN pads /\ pads[p].fresh
  /\ pads' = [pads EXCEPT ![p].fresh = FALSE, ![p].led = gui.led, ![p].index = gui.index]
  /\ UNCHANGED <<stream, effect, takion, gui, posted, manager, haptics, humming, unheard, leveled,
                 count>>
\* Within that second the lambda would meet a pad that is gone; left out.
Unplug(p) ==
  /\ p \in DOMAIN pads /\ ~pads[p].fresh
  /\ pads' = [q \in DOMAIN pads \ {p} |-> pads[q]]
  /\ UNCHANGED <<stream, effect, takion, gui, posted, manager, haptics, humming, unheard, leveled,
                 count>>

\* The StreamSession is destroyed, which stops and closes the pads, and another
\* is made.  What was posted for it is gone, but not what was for the manager.
ForManager == {i \in DOMAIN posted : posted[i].is = "level"}
NewSession ==
  /\ count < MaxEvents
  /\ stream' = Beginning /\ gui' = Beginning /\ effect' = Still
  /\ takion' = <<>>
  /\ \E order \in [1..Cardinality(ForManager) -> ForManager] :
       /\ \A i, j \in DOMAIN order : i < j => order[i] < order[j]
       /\ posted' = [i \in DOMAIN order |-> posted[order[i]]]
  /\ pads' = <<>> /\ haptics' = 0 /\ humming' = FALSE
  /\ unheard' = {} /\ leveled' = FALSE
  /\ count' = count + 1
  /\ UNCHANGED manager

Next ==
  \/ \E look \in Looks, level \in [Kinds -> Levels] :
       PadInfo([led |-> look, index |-> look, level |-> level])
  \/ \E k \in Kinds, v \in {0, 1} : Effect(k, v)
  \/ Event \/ HapticsFrame
  \/ Posted \/ HapticsTimer
  \/ \E p \in Pads : Plug(p) \/ Second(p) \/ Unplug(p)
  \/ NewSession

-----------------------------------------------------------------------------
(* Properties                                                              *)

TypeOK ==
  /\ {stream, gui} \subseteq [led : Looks, index : Looks, level : [Kinds -> Levels]]
  /\ effect \in [Kinds -> {0, 1}] /\ Len(takion) <= 4
  /\ \A i \in DOMAIN posted : posted[i].is \in {"level", "led", "index", "effect", "frame"}
  /\ manager \in [Kinds -> Levels]
  /\ DOMAIN pads \subseteq Pads
  /\ \A p \in DOMAIN pads :
       pads[p] \in [fresh : BOOLEAN, led : Looks, index : Looks, effect : [Kinds -> {0, 1}]]
  /\ haptics \in 0..MaxEvents /\ humming \in BOOLEAN
  /\ unheard \subseteq Kinds /\ leveled \in BOOLEAN

Quiet == takion = <<>> /\ posted = <<>>

\* Once everything is done, each pad that is not fresh has the color and the
\* player index that the console told last, whenever it came.
LooksAsTold ==
  Quiet => \A p \in DOMAIN pads :
    ~pads[p].fresh => pads[p].led = stream.led /\ pads[p].index = stream.index

\* Haptics that stop leave no pad rumbling: the timer goes on until it has told
\* the pads.
Unfinished == humming \/ haptics > 0

\* And no pad has an effect that the console ended, or that haptics began and
\* did not go on with, unless the message that ended it was dropped.
EffectsEnd ==
  Quiet => \A p \in DOMAIN pads, k \in Kinds \ unheard :
    pads[p].effect[k] = 1 => effect[k] = 1 \/ (k = "rumble" /\ Unfinished)

\* And effects are of the intensity the console told in this session, if it did.
IntensityAsTold == Quiet /\ leveled => manager = stream.level

\* Why these hold. An event is of one of these marks;
TakionEvents == [is : {"level"}, kind : Kinds, value : Levels]
                \cup [is : {"led", "index"}, value : Looks]
                \cup [is : {"effect"}, kind : Kinds, value : {0, 1}]
PostedEvents == [is : {"level"}, value : [Kinds -> Levels]]
                \cup [is : {"led", "index"}, value : Looks]
                \cup [is : {"effect"}, kind : Kinds, value : {0, 1}]
                \cup [is : {"frame"}]
Mark(e) == IF e.is = "effect" THEN e.kind ELSE e.is
NoneOf(s, mark) == \A i \in DOMAIN s : Mark(s[i]) # mark
LastSays(s, mark, value) ==
  \A i \in DOMAIN s :
    Mark(s[i]) = mark /\ (\A j \in DOMAIN s : j > i => Mark(s[j]) # mark) => s[i].value = value

EffectsTypeInv ==
  /\ {stream, gui} \subseteq [led : Looks, index : Looks, level : [Kinds -> Levels]]
  /\ effect \in [Kinds -> {0, 1}] /\ haptics \in Nat /\ humming \in BOOLEAN
  /\ leveled \in BOOLEAN
  /\ DOMAIN pads \subseteq Pads
  /\ \A p \in DOMAIN pads :
       /\ pads[p] \in [fresh : BOOLEAN, led : Looks, index : Looks, effect : [Kinds -> {0, 1}]]
       /\ p \notin DualSense => pads[p].effect["trigger"] = 0

\* what Takion's thread has still to send is what the stream connection has, and
\* what there is no event for, StreamSession has already;
Due == {e \in TakionEvents :
          e.value = CASE e.is = "led" -> stream.led
                      [] e.is = "index" -> stream.index
                      [] e.is = "level" -> stream.level[e.kind]
                      [] e.is = "effect" -> effect[e.kind]}
NoLevel(s, k) == \A i \in DOMAIN s : ~(s[i].is = "level" /\ s[i].kind = k)
ToSendInv ==
  /\ takion \in Seq(Due)
  /\ NoneOf(takion, "led") => gui.led = stream.led
  /\ NoneOf(takion, "index") => gui.index = stream.index
  /\ \A k \in Kinds : NoLevel(takion, k) => gui.level[k] = stream.level[k]

\* the last that is posted of each mark is what StreamSession has, and what
\* nothing is posted of, the pads have,
LooksInv ==
  /\ LastSays(posted, "led", gui.led)
  /\ \A p \in DOMAIN pads : ~pads[p].fresh =>
       /\ NoneOf(posted, "led") => pads[p].led = gui.led
       /\ NoneOf(posted, "index") => pads[p].index = gui.index
EndsInv ==
  \A k \in Kinds \ unheard : NoneOf(takion, k) =>
    /\ LastSays(posted, k, effect[k])
    /\ NoneOf(posted, k) =>
         \A p \in DOMAIN pads :
           pads[p].effect[k] = 1 => effect[k] = 1 \/ (k = "rumble" /\ Unfinished)

\* or the manager, which has what was posted for it in the session before, too.
LevelInv ==
  leveled /\ NoneOf(takion, "level") =>
    /\ LastSays(posted, "level", gui.level)
    /\ NoneOf(posted, "level") => manager = gui.level

EffectsInv ==
  /\ EffectsTypeInv /\ ToSendInv
  /\ posted \in Seq(PostedEvents) /\ LooksInv /\ EndsInv /\ LevelInv
=============================================================================
