----------------------------- MODULE HostProofs -----------------------------
(***************************************************************************)
(* What holds of HostCalls for any calls on one view, nested as deep as    *)
(* they may; and of Painting for rows of any width.                        *)
(***************************************************************************)
EXTENDS HostCalls, Painting, SequenceTheorems, WellFoundedInduction, TLAPS

------------------------------------------------------------------------------
OneView == \A v, w \in Views : v = w

------------------------------------------------------------------------------
(* Runs of events and programs of steps.                                   *)
LEMMA RunsConcat ==
  ASSUME NEW s \in Runs, NEW t \in Runs
  PROVE  s \o t \in Runs
<1> DEFINE st == s \o t
<1>1. s \in Seq(Events) /\ t \in Seq(Events) /\ ComesUp(s) /\ ComesUp(t)
  BY DEF Runs
<1>2. /\ st \in Seq(Events) /\ Len(st) = Len(s) + Len(t)
      /\ \A i \in 1 .. Len(s) + Len(t) : st[i] = IF i <= Len(s) THEN s[i] ELSE t[i - Len(s)]
  BY <1>1, ConcatProperties
<1>3. DOMAIN s = 1 .. Len(s) /\ DOMAIN t = 1 .. Len(t) /\ DOMAIN st = 1 .. Len(st)
      /\ Len(s) \in Nat /\ Len(t) \in Nat
  BY <1>1, <1>2, LenProperties
<1> HIDE DEF st
<1>4. ASSUME NEW k \in DOMAIN st, NEW m \in DOMAIN Ups, st[k] \in Downs[m], st[k] # "mouse down"
      PROVE  \E l \in DOMAIN st : k < l /\ st[l] \in Ups[m]
  <2>1. CASE k <= Len(s)
    <3>1. k \in DOMAIN s /\ st[k] = s[k]
      BY <1>2, <1>3, <2>1
    <3>2. PICK l \in DOMAIN s : k < l /\ s[l] \in Ups[m]
      BY <1>1, <1>4, <3>1 DEF ComesUp
    <3>3. l \in DOMAIN st /\ st[l] = s[l]
      BY <1>2, <1>3
    <3> QED
      BY <3>2, <3>3
  <2>2. CASE k > Len(s)
    <3>1. k - Len(s) \in DOMAIN t /\ st[k] = t[k - Len(s)]
      BY <1>2, <1>3, <2>2
    <3>2. PICK l \in DOMAIN t : k - Len(s) < l /\ t[l] \in Ups[m]
      BY <1>1, <1>4, <3>1 DEF ComesUp
    <3>3. l + Len(s) \in DOMAIN st /\ st[l + Len(s)] = t[l] /\ k < l + Len(s)
      BY <1>2, <1>3, <3>1, <3>2
    <3> QED
      BY <3>2, <3>3
  <2> QED
    BY <1>3, <2>1, <2>2
<1>5. ComesUp(st)
  BY <1>4 DEF ComesUp
<1> QED
  BY <1>2, <1>5 DEF Runs, st

(* What is left of a run is one.                                           *)
LEMMA RunsTail ==
  ASSUME NEW s \in Runs, s # <<>>
  PROVE  /\ Tail(s) \in Runs /\ s[1] \in Events /\ 1 \in DOMAIN s
         /\ DOMAIN Tail(s) = 1 .. Len(s) - 1 /\ \A k \in DOMAIN Tail(s) : Tail(s)[k] = s[k + 1]
<1>1. s \in Seq(Events) /\ ComesUp(s) /\ Len(s) \in Nat \ {0} /\ DOMAIN s = 1 .. Len(s)
  BY EmptySeq, LenProperties DEF Runs
<1>2. /\ Tail(s) \in Seq(Events) /\ Len(Tail(s)) = Len(s) - 1
      /\ \A k \in 1 .. Len(Tail(s)) : Tail(s)[k] = s[k + 1]
  BY <1>1, HeadTailProperties
<1>3. DOMAIN Tail(s) = 1 .. Len(s) - 1
  BY <1>2, LenProperties
<1>4. ASSUME NEW k \in DOMAIN Tail(s), NEW m \in DOMAIN Ups,
             Tail(s)[k] \in Downs[m], Tail(s)[k] # "mouse down"
      PROVE  \E l \in DOMAIN Tail(s) : k < l /\ Tail(s)[l] \in Ups[m]
  <2>1. k + 1 \in DOMAIN s /\ s[k + 1] = Tail(s)[k]
    BY <1>1, <1>2, <1>3
  <2>2. PICK l \in DOMAIN s : k + 1 < l /\ s[l] \in Ups[m]
    BY <1>1, <1>4, <2>1 DEF ComesUp
  <2>3. l - 1 \in DOMAIN Tail(s) /\ Tail(s)[l - 1] = s[l] /\ k < l - 1
    BY <1>1, <1>2, <1>3, <2>2
  <2> QED
    BY <2>2, <2>3
<1>5. Tail(s) \in Runs
  BY <1>2, <1>4 DEF Runs, ComesUp
<1>6. s[1] \in Events
  BY <1>1
<1> QED
  BY <1>1, <1>2, <1>3, <1>5, <1>6

(* The buttons, and what presses and releases each.                        *)
LEMMA Buttons ==
  /\ DOMAIN Ups = {"mouse", "menu", "key", "finger"}
  /\ Downs["mouse"] = {"mouse down", "click down"} /\ Ups["mouse"] = {"mouse up", "click up"}
  /\ Downs["menu"] = {"menu down"} /\ Ups["menu"] = {"menu up"}
  /\ Downs["key"] = {"key down"} /\ Ups["key"] = {"key up"}
  /\ Downs["finger"] = {"finger down"} /\ Ups["finger"] = {"finger up"}
BY DEF Downs, Ups

Presses == {"click down", "menu down", "key down", "finger down"}

LEMMA PressesOf ==
  ASSUME NEW m \in DOMAIN Ups, NEW e \in Downs[m], e # "mouse down"
  PROVE  e \in Presses
BY Buttons DEF Presses

(* An event that presses nothing, or is the press of the host itself.      *)
LEMMA RunOfOne ==
  ASSUME NEW e \in Events \ Presses
  PROVE  <<e>> \in Runs
<1>1. <<e>> \in Seq(Events) /\ DOMAIN <<e>> = {1} /\ <<e>>[1] = e
  OBVIOUS
<1>2. ComesUp(<<e>>)
  BY <1>1, PressesOf DEF ComesUp
<1> QED
  BY <1>1, <1>2 DEF Runs

LEMMA RunOfReleases ==
  ASSUME NEW s \in Seq(Events), \A k \in DOMAIN s : s[k] \notin Presses
  PROVE  s \in Runs
BY PressesOf DEF Runs, ComesUp

LEMMA NoEvents == <<>> \in Runs
BY DEF Runs, ComesUp

(* A run that presses something first, and releases it later.              *)
LEMMA RunOfPress ==
  ASSUME NEW s \in Seq(Events), NEW m \in DOMAIN Ups, 1 \in DOMAIN s,
         \A n \in DOMAIN Ups : s[1] \in Downs[n] => n = m,
         \A k \in DOMAIN s : k # 1 => s[k] \notin Presses,
         NEW l \in DOMAIN s, l > 1, s[l] \in Ups[m]
  PROVE  s \in Runs
<1>1. ASSUME NEW k \in DOMAIN s, NEW n \in DOMAIN Ups, s[k] \in Downs[n], s[k] # "mouse down"
      PROVE  k = 1 /\ n = m
  BY <1>1, PressesOf
<1>2. ComesUp(s)
  BY <1>1 DEF ComesUp
<1> QED
  BY <1>2 DEF Runs

LEMMA RunOfTwo ==
  /\ <<"click down", "click up">> \in Runs /\ <<"menu down", "menu up">> \in Runs
  /\ <<"key down", "key up">> \in Runs
<1>1. ASSUME NEW m \in DOMAIN Ups, NEW d \in Events, NEW u \in Ups[m], u \in Events \ Presses,
             \A n \in DOMAIN Ups : d \in Downs[n] => n = m
      PROVE  <<d, u>> \in Runs
  <2> DEFINE s == <<d, u>>
  <2>1. s \in Seq(Events) /\ DOMAIN s = {1, 2} /\ s[1] = d /\ s[2] = u
    BY <1>1
  <2> HIDE DEF s
  <2>2. s \in Runs
    BY <1>1, <2>1, RunOfPress
  <2> QED
    BY <2>2 DEF s
<1>2. <<"click down", "click up">> \in Runs
  <2>1. \A n \in DOMAIN Ups : "click down" \in Downs[n] => n = "mouse"
    BY Buttons
  <2>2. "click up" \in Events \ Presses /\ "click down" \in Events
    BY DEF Events, Presses
  <2> QED
    BY <1>1, <2>1, <2>2, Buttons
<1>3. <<"menu down", "menu up">> \in Runs
  <2>1. \A n \in DOMAIN Ups : "menu down" \in Downs[n] => n = "menu"
    BY Buttons
  <2>2. "menu up" \in Events \ Presses /\ "menu down" \in Events
    BY DEF Events, Presses
  <2> QED
    BY <1>1, <2>1, <2>2, Buttons
<1>4. <<"key down", "key up">> \in Runs
  <2>1. \A n \in DOMAIN Ups : "key down" \in Downs[n] => n = "key"
    BY Buttons
  <2>2. "key up" \in Events \ Presses /\ "key down" \in Events
    BY DEF Events, Presses
  <2> QED
    BY <1>1, <2>1, <2>2, Buttons
<1> QED
  BY <1>2, <1>3, <1>4

LEMMA RunOfThree ==
  /\ <<"key down", "char", "key up">> \in Runs
  /\ <<"finger down", "finger up", "tap">> \in Runs
<1>1. ASSUME NEW m \in DOMAIN Ups, NEW s \in Seq(Events), Len(s) = 3,
             \A n \in DOMAIN Ups : s[1] \in Downs[n] => n = m,
             s[2] \notin Presses, s[3] \notin Presses, s[2] \in Ups[m] \/ s[3] \in Ups[m]
      PROVE  s \in Runs
  <2>1. DOMAIN s = 1 .. 3
    BY <1>1, LenProperties
  <2>2. \A k \in DOMAIN s : k # 1 => s[k] \notin Presses
    <3>1. \A k \in DOMAIN s : k # 1 => k = 2 \/ k = 3
      BY <2>1
    <3> QED
      BY <1>1, <3>1
  <2>3. 1 \in DOMAIN s /\ 2 \in DOMAIN s /\ 3 \in DOMAIN s /\ 2 > 1 /\ 3 > 1
    BY <2>1
  <2> QED
    BY <1>1, <2>2, <2>3, RunOfPress
<1>2. <<"key down", "char", "key up">> \in Runs
  <2> DEFINE t == <<"key down", "char", "key up">>
  <2>1. t \in Seq(Events)
    BY DEF Events
  <2>2. Len(t) = 3 /\ t[1] = "key down" /\ t[2] = "char" /\ t[3] = "key up"
    OBVIOUS
  <2> HIDE DEF t
  <2>3. \A n \in DOMAIN Ups : t[1] \in Downs[n] => n = "key"
    BY <2>2, Buttons
  <2>4. t[2] \notin Presses /\ t[3] \notin Presses
    BY <2>2 DEF Presses
  <2>5. t[3] \in Ups["key"] /\ "key" \in DOMAIN Ups
    BY <2>2, Buttons
  <2>6. t \in Runs
    BY ONLY <1>1, <2>1, <2>2, <2>3, <2>4, <2>5, Zenon
  <2> QED
    BY <2>6 DEF t
<1>3. <<"finger down", "finger up", "tap">> \in Runs
  <2> DEFINE t == <<"finger down", "finger up", "tap">>
  <2>1. t \in Seq(Events)
    BY DEF Events
  <2>2. Len(t) = 3 /\ t[1] = "finger down" /\ t[2] = "finger up" /\ t[3] = "tap"
    OBVIOUS
  <2> HIDE DEF t
  <2>3. \A n \in DOMAIN Ups : t[1] \in Downs[n] => n = "finger"
    BY <2>2, Buttons
  <2>4. t[2] \notin Presses /\ t[3] \notin Presses
    BY <2>2 DEF Presses
  <2>5. t[2] \in Ups["finger"] /\ "finger" \in DOMAIN Ups
    BY <2>2, Buttons
  <2>6. t \in Runs
    BY ONLY <1>1, <2>1, <2>2, <2>3, <2>4, <2>5, Zenon
  <2> QED
    BY <2>6 DEF t
<1> QED
  BY <1>2, <1>3

(* A finger that is put down, moved and taken up, however often it moves.  *)
LEMMA RunOfSwipe ==
  ASSUME DragSteps \in Nat
  PROVE  Swipe \in Runs
<1>1. ASSUME NEW n \in Nat, NEW s \in Seq(Events), DOMAIN s = 1 .. n + 2,
             s[1] = "finger down", s[n + 2] = "finger up",
             \A i \in DOMAIN s : i # 1 => s[i] \in {"finger move", "finger up"}
      PROVE  s \in Runs
  <2>1. \A m \in DOMAIN Ups : s[1] \in Downs[m] => m = "finger"
    BY <1>1, Buttons
  <2>2. \A i \in DOMAIN s : i # 1 => s[i] \notin Presses
    BY <1>1 DEF Presses
  <2>3. s[n + 2] \in Ups["finger"] /\ "finger" \in DOMAIN Ups
    BY <1>1, Buttons
  <2>4. 1 \in 1 .. n + 2 /\ n + 2 \in 1 .. n + 2 /\ n + 2 > 1
    BY ONLY n \in Nat
  <2>5. 1 \in DOMAIN s /\ n + 2 \in DOMAIN s
    BY <1>1, <2>4, Zenon
  <2> QED
    BY <2>1, <2>2, <2>3, <2>4, <2>5, RunOfPress
<1>2. Swipe \in [1 .. DragSteps + 2 -> Events]
  BY DEF Swipe, Events
<1>3. Swipe \in Seq(Events) /\ DOMAIN Swipe = 1 .. DragSteps + 2
  BY <1>2, IsASeq
<1>4. Swipe[1] = "finger down" /\ Swipe[DragSteps + 2] = "finger up"
  <2>1. /\ 1 \in 1 .. DragSteps + 2 /\ DragSteps + 2 \in 1 .. DragSteps + 2
        /\ DragSteps + 2 # 1 /\ ~(DragSteps + 2 < DragSteps + 2)
    OBVIOUS
  <2> QED
    BY <2>1, Zenon DEF Swipe
<1>5. \A i \in DOMAIN Swipe : i # 1 => Swipe[i] \in {"finger move", "finger up"}
  BY DEF Swipe
<1> QED
  BY <1>1, <1>3, <1>4, <1>5

LEMMA Joined ==
  ASSUME NEW S, NEW s \in Seq(S), NEW t \in Seq(S)
  PROVE  s \o t \in Seq(S)
BY ConcatProperties, Zenon

(* One step of a call, of a run of events.                                 *)
LEMMA OneStep ==
  ASSUME NEW run \in Runs
  PROVE  InTask(run) \in Seq(Steps) /\ Settled(run) \in Seq(Steps) /\ Directly(run) \in Seq(Steps)
<1>1. [how |-> "task", events |-> run] \in Steps
  BY DEF Steps
<1>2. [how |-> "settle", events |-> run] \in Steps
  BY DEF Steps
<1>3. [how |-> "direct", events |-> run] \in Steps
  BY DEF Steps
<1>4. \A s \in Steps : <<s>> \in Seq(Steps)
  OBVIOUS
<1> QED
  BY <1>1, <1>2, <1>3, <1>4, Zenon DEF InTask, Settled, Directly

LEMMA Waiting == RunUntilIdle \in Seq(Steps) /\ Commit \in Seq(Steps)
<1>1. [how |-> "pump", events |-> <<>>] \in Steps
  BY NoEvents DEF Steps
<1>2. [how |-> "commit", events |-> <<>>] \in Steps
  BY NoEvents DEF Steps
<1>3. \A s \in Steps : <<s>> \in Seq(Steps)
  OBVIOUS
<1>4. RunUntilIdle \in Seq(Steps)
  BY <1>1, <1>3, Zenon DEF RunUntilIdle
<1> QED
  BY <1>2, <1>3, <1>4, Joined, Zenon DEF Commit

(* The runs of the widget.                                                 *)
LEMMA RunsOfTheWidget ==
  ASSUME DragSteps \in Nat
  PROVE  /\ Click \in Runs /\ DoubleClick \in Runs /\ RightClick \in Runs /\ Press \in Runs
         /\ Release \in Runs /\ Move \in Runs /\ Key(TRUE) \in Runs /\ Key(FALSE) \in Runs
         /\ Text \in Runs /\ KeyUp \in Runs /\ Ime \in Runs /\ Tap \in Runs /\ Swipe \in Runs
         /\ Wheel \in Runs /\ <<"script">> \in Runs /\ <<"frame">> \in Runs
<1>1. Click \in Runs /\ RightClick \in Runs
  BY RunOfTwo DEF Click, RightClick
<1>2. DoubleClick \in Runs
  BY <1>1, RunsConcat DEF DoubleClick
<1>3. /\ Press \in Runs /\ Release \in Runs /\ Move \in Runs /\ KeyUp \in Runs /\ Wheel \in Runs
      /\ <<"script">> \in Runs /\ <<"frame">> \in Runs
  <2>1. \A e \in {"mouse down", "mouse up", "move", "key up", "wheel", "script", "frame"} :
           e \in Events \ Presses
    BY DEF Events, Presses
  <2> QED
    BY <2>1, RunOfOne DEF Press, Release, Move, KeyUp, Wheel
<1>4. Key(TRUE) \in Runs
  BY RunOfThree DEF Key
<1>5. Key(FALSE) \in Runs
  BY RunOfTwo DEF Key
<1>6. Text \in Runs
  BY <1>4, RunsConcat DEF Text
<1>7. Ime \in Runs
  <2> DEFINE t == Ime
  <2>1. t \in Seq(Events)
    BY DEF Ime, Events
  <2>2. \A k \in DOMAIN t : t[k] \in {"compose", "commit text"}
    <3>1. t[1] = "compose" /\ t[2] = "commit text" /\ Len(t) = 2
      BY DEF Ime
    <3>2. DOMAIN t = 1 .. 2
      BY <2>1, <3>1, LenProperties
    <3>3. \A k \in DOMAIN t : k = 1 \/ k = 2
      BY ONLY <3>2
    <3> QED
      BY ONLY <3>1, <3>3
  <2> HIDE DEF t
  <2>3. \A k \in DOMAIN t : t[k] \notin Presses
    BY <2>2 DEF Presses
  <2>4. t \in Runs
    BY <2>1, <2>3, RunOfReleases
  <2> QED
    BY <2>4 DEF t
<1>8. Tap \in Runs
  BY RunOfThree DEF Tap
<1> QED
  BY <1>1, <1>2, <1>3, <1>4, <1>5, <1>6, <1>7, <1>8, RunOfSwipe

(* Every program is steps, whatever the number of moves of a drag.         *)
LEMMA ProgramsAreSteps ==
  ASSUME DragSteps \in Nat, NEW c \in DOMAIN Programs, NEW p \in Programs[c]
  PROVE  p \in Seq(Steps)
<1> DEFINE P == Seq(Steps)
<1>1. RunJS \in P /\ EvalToString \in P /\ AnimationFrame \in P /\ SendMouseClick \in P
      /\ SendMouseDown \in P /\ SendMouseUp \in P /\ SendMouseMove \in P
  BY RunsOfTheWidget, OneStep
     DEF RunJS, EvalToString, AnimationFrame, SendMouseClick, SendMouseDown, SendMouseUp,
         SendMouseMove
<1>2. OneScript \subseteq P
  BY <1>1 DEF OneScript, EvalInFrame, EvalWithType, DispatchEvent, SelectOption, FillSelector,
              GetTextForSelector, SetLocalStorage, SendScroll
<1>3. <<>> \in P
  OBVIOUS
<1>4. SetFileForSelector \subseteq P
  BY <1>1, <1>3 DEF SetFileForSelector
<1>5. SendMouseEvent \subseteq P /\ SendKeyEvent \subseteq P
  <2>1. \A e \in {"mouse down", "mouse up", "move", "other down", "other up", "raw key", "char",
                  "key up"} : e \in Events \ Presses
    BY DEF Events, Presses
  <2>2. \A e \in {"mouse down", "mouse up", "move", "other down", "other up", "raw key", "char",
                  "key up"} : InTask(<<e>>) \in P
    BY <2>1, RunOfOne, OneStep
  <2> QED
    BY <2>2 DEF SendMouseEvent, SendKeyEvent
<1>6. Directly(DoubleClick) \in P /\ Directly(RightClick) \in P /\ Directly(Tap) \in P
      /\ Directly(Swipe) \in P /\ SendWheel \in P
  BY RunsOfTheWidget, OneStep DEF SendWheel
<1>7. SendKey \subseteq P /\ SendText \in P /\ SendIme \in P /\ InTask(KeyUp) \in P
  BY RunsOfTheWidget, OneStep DEF SendKey, SendText, SendIme
<1>8. \A s, t \in P : s \o t \in P
  BY Joined
<1>9. [i \in 1 .. DragSteps |-> Head(SendMouseMove)] \in P
  <2>1. Head(SendMouseMove) \in Steps
    BY RunsOfTheWidget DEF SendMouseMove, InTask, Steps
  <2> QED
    BY <2>1, IsASeq
<1> HIDE DEF P
<1>10. Target \in P
  BY <1>1, <1>8 DEF Target
<1>11. ClickSelector \subseteq P /\ DoubleClickSelector \subseteq P /\ RightClickSelector \subseteq P
       /\ HoverSelector \subseteq P
  BY <1>1, <1>6, <1>8, <1>10
     DEF ClickSelector, DoubleClickSelector, RightClickSelector, HoverSelector
<1>12. DragSelector \subseteq P
  <2>1. EvalToString \o EvalToString \in P
    BY <1>1, <1>8
  <2>2. EvalToString \o EvalToString \o SendMouseDown \in P
    BY <1>1, <1>8, <2>1
  <2>3. EvalToString \o EvalToString \o SendMouseDown
          \o [i \in 1 .. DragSteps |-> Head(SendMouseMove)] \in P
    BY ONLY <1>8, <1>9, <2>2, Zenon
  <2>4. EvalToString \o EvalToString \o SendMouseDown
          \o [i \in 1 .. DragSteps |-> Head(SendMouseMove)] \o SendMouseUp \in P
    BY ONLY <1>1, <1>8, <2>3, Zenon
  <2> QED
    BY <1>1, <2>1, <2>4, Zenon DEF DragSelector
<1>13. SendTouchTap \in P /\ SendTouchSwipe \in P
  BY <1>1, <1>6, <1>8 DEF SendTouchTap, SendTouchSwipe
<1>14. RunUntilIdle \in P /\ Commit \in P
  BY Waiting DEF P
<1>15. WaitMs \in P
  <2>1. AnimationFrame \o RunUntilIdle \in P
    BY <1>1, <1>8, <1>14
  <2> QED
    BY <1>8, <1>14, <2>1 DEF WaitMs
<1>16. WaitFor \subseteq P
  <2>1. Probe \in P
    BY <1>1, <1>8, <1>14 DEF Probe
  <2> QED
    BY <1>8, <2>1 DEF WaitFor
<1>17. ScrollToBottom \in P
  <2>1. EvalToString \o EvalToString \in P
    BY <1>1, <1>8
  <2>2. EvalToString \o EvalToString \o WaitMs \in P
    BY <1>8, <1>15, <2>1
  <2> QED
    BY <1>1, <1>8, <2>2 DEF ScrollToBottom
<1>18. Programs[c] \subseteq P
  BY <1>1, <1>2, <1>4, <1>5, <1>6, <1>7, <1>11, <1>12, <1>13, <1>14, <1>15, <1>16, <1>17
     DEF Programs
<1> QED
  BY <1>18 DEF P

(* What the updates of a sequence are.                                     *)
LEMMA Lengths ==
  ASSUME NEW S, NEW s \in Seq(S)
  PROVE  Len(s) \in Nat /\ DOMAIN s = 1 .. Len(s) /\ (s # <<>> => Len(s) >= 1)
         /\ \A i \in 1 .. Len(s) : s[i] \in S
BY EmptySeq, LenProperties

LEMMA Pushed ==
  ASSUME NEW S, NEW s \in Seq(S), NEW f \in S
  PROVE  /\ Append(s, f) \in Seq(S) /\ Len(Append(s, f)) = Len(s) + 1
         /\ \A i \in 1 .. Len(s) : Append(s, f)[i] = s[i]
         /\ Append(s, f)[Len(s) + 1] = f
BY AppendProperties

LEMMA Put ==
  ASSUME NEW S, NEW s \in Seq(S), NEW k \in 1 .. Len(s), NEW f \in S
  PROVE  /\ [s EXCEPT ![k] = f] \in Seq(S) /\ Len([s EXCEPT ![k] = f]) = Len(s)
         /\ \A i \in 1 .. Len(s) : i # k => [s EXCEPT ![k] = f][i] = s[i]
         /\ [s EXCEPT ![k] = f][k] = f
BY ExceptSeq, LenProperties

LEMMA Popped ==
  ASSUME NEW S, NEW s \in Seq(S), s # <<>>
  PROVE  /\ Front(s) \in Seq(S) /\ Len(Front(s)) = Len(s) - 1
         /\ \A i \in 1 .. Len(s) - 1 : Front(s)[i] = s[i]
<1>1. Len(s) \in Nat /\ Len(s) # 0
  BY EmptySeq
<1>2. ASSUME NEW n \in Nat, n = Len(s) - 1
      PROVE  /\ SubSeq(s, 1, n) \in Seq(S) /\ Len(SubSeq(s, 1, n)) = n
             /\ \A i \in 1 .. n : SubSeq(s, 1, n)[i] = s[i]
  <2>1. n <= Len(s)
    BY <1>1, <1>2
  <2>2. SubSeq(s, 1, n) \in Seq(S)
    BY <2>1
  <2>3. Len(SubSeq(s, 1, n)) = n
    BY <2>1
  <2>4. ASSUME NEW i \in 1 .. n PROVE SubSeq(s, 1, n)[i] = s[i]
    BY <2>1
  <2> QED
    BY <2>2, <2>3, <2>4
<1>3. Len(s) - 1 \in Nat
  BY <1>1
<1> QED
  BY ONLY <1>2, <1>3, Zenon DEF Front

LEMMA Rest ==
  ASSUME NEW S, NEW s \in Seq(S), s # <<>>
  PROVE  /\ Tail(s) \in Seq(S) /\ Len(Tail(s)) = Len(s) - 1
         /\ \A i \in 1 .. Len(s) - 1 : Tail(s)[i] = s[i + 1]
BY HeadTailProperties

(* What is on the stack, by what it is.                                    *)
LEMMA CallsOnTheStack ==
  ASSUME NEW f \in Frames, f.at = "call"
  PROVE  /\ f.view \in Views /\ f.steps \in Seq(Steps)
         /\ \A s \in Seq(Steps) :
              LET g == [f EXCEPT !.steps = s]
              IN  g \in Frames /\ g.at = "call" /\ g.view = f.view /\ g.steps = s
BY DEF Frames

LEMMA BodiesOnTheStack ==
  ASSUME NEW f \in Frames, f.at = "body"
  PROVE  /\ f.events \in Runs
         /\ \A r \in Runs :
              LET g == [f EXCEPT !.events = r] IN g \in Frames /\ g.at = "body" /\ g.events = r
BY DEF Frames

LEMMA LoopsOnTheStack ==
  ASSUME NEW f \in Frames, f.at = "loop"
  PROVE  /\ f.quit \in BOOLEAN /\ f.idle \in BOOLEAN
         /\ LET g == [f EXCEPT !.quit = TRUE]
            IN  g \in Frames /\ g.at = "loop" /\ g.quit = TRUE /\ g.idle = f.idle
         /\ LET g == [f EXCEPT !.idle = TRUE]
            IN  g \in Frames /\ g.at = "loop" /\ g.quit = f.quit /\ g.idle = TRUE
BY DEF Frames

LEMMA FramesOfOneView ==
  ASSUME NEW f \in Frames
  PROVE  /\ f.at \in {"init", "start"} => f.view \in Views
         /\ f.at \in {"host", "pump", "task", "load", "init", "start", "call", "body", "loop"}
BY DEF Frames

LEMMA NewFrames ==
  /\ \A at \in {"host", "pump", "task", "load"} : [at |-> at] \in Frames
  /\ \A v \in Views : [at |-> "init", view |-> v] \in Frames /\ [at |-> "start", view |-> v] \in Frames
  /\ \A v \in Views, p \in Seq(Steps) : [at |-> "call", view |-> v, steps |-> p] \in Frames
  /\ \A how \in {"task", "inline", "direct"}, r \in Runs :
        [at |-> "body", how |-> how, events |-> r] \in Frames
  /\ [at |-> "loop", quit |-> FALSE, idle |-> FALSE] \in Frames
BY DEF Frames

------------------------------------------------------------------------------
(* The inductive invariant.                                                *)
IsLoop(s, i) == i \in DOMAIN s /\ s[i].at = "loop"

(* A loop that waits for its delayed quit is there, and has not quit.      *)
LateInv == \A i \in late : IsLoop(stack, i) /\ ~stack[i].quit

(* So is the loop of an entry of the queue; it is not idle before its      *)
(* body, and has one quit that is to come.                                 *)
QueueInv ==
  \A k \in DOMAIN queue :
    /\ IsLoop(stack, queue[k].loop) /\ ~stack[queue[k].loop].quit
    /\ queue[k].what = "body" => ~stack[queue[k].loop].idle
    /\ queue[k].what = "quit" => queue[k].loop \notin late

(* The entries of one loop: the body, the quit when idle, the quit.        *)
Rank(what) == IF what = "body" THEN 1 ELSE IF what = "idle" THEN 2 ELSE 3
OrderInv ==
  \A k, l \in DOMAIN queue :
    queue[k].loop = queue[l].loop /\ k < l => Rank(queue[k].what) < Rank(queue[l].what)

LoopInv == LateInv /\ QueueInv /\ OrderInv /\ EveryLoopWillQuit

(* What may be above what: one document at a time is prepared, and above   *)
(* the callback are the calls of the host in it, which do not wait.        *)
Preparing == {"init", "start"}
Below(s, i, S) == \E j \in 1 .. i - 1 : s[j].at \in S
NoPump(steps) == \A k \in DOMAIN steps : steps[k].how \notin {"pump", "commit"}
Fits(s, i) ==
  /\ s[i].at \in Preparing => ~Below(s, i, Preparing)
  /\ s[i].at = "call" /\ Below(s, i, Preparing) => NoPump(s[i].steps)
  /\ Below(s, i, {"start"}) => s[i].at \in {"call", "host", "body"}
Sound(s) == s \in Seq(Frames) /\ \A i \in DOMAIN s : Fits(s, i)

StartInv ==
  \A i \in DOMAIN stack : stack[i].at = "start" => in_document_start[stack[i].view]

(* What is held down comes up in what is left of a body.                   *)
Releases(s, i, m) ==
  s[i].at = "body" /\ \E k \in DOMAIN s[i].events : s[i].events[k] \in Ups[m]
HeldInv ==
  \A m \in held :
    (m = "mouse" /\ mouse_pressed) \/ \E i \in DOMAIN stack : Releases(stack, i, m)

Inv == TypeOK /\ LoopInv /\ Sound(stack) /\ StartInv /\ HeldInv

------------------------------------------------------------------------------
(* From s to t: the loops are the same, no callback of a document's start  *)
(* has come, and the bodies that have events left are the same.            *)
SameLoops(s, t) ==
  \A i : (IsLoop(s, i) <=> IsLoop(t, i)) /\ (IsLoop(s, i) => t[i] = s[i])
NoNewStart(s, t) == \A i \in DOMAIN t : t[i].at = "start" => i \in DOMAIN s /\ s[i] = t[i]
SameBodies(s, t) ==
  \A i \in DOMAIN s : s[i].at = "body" /\ s[i].events # <<>> => i \in DOMAIN t /\ t[i] = s[i]
Quiet(s, t) == SameLoops(s, t) /\ NoNewStart(s, t) /\ SameBodies(s, t)

LEMMA QuietTwice ==
  ASSUME NEW s, NEW t, NEW u, Quiet(s, t), Quiet(t, u)
  PROVE  Quiet(s, u)
BY Zenon DEF Quiet, SameLoops, NoNewStart, SameBodies

LEMMA LoopsKept ==
  ASSUME LoopInv, UNCHANGED <<queue, late>>, SameLoops(stack, stack')
  PROVE  LoopInv'
<1>1. /\ \A i : IsLoop(stack', i) <=> IsLoop(stack, i)
      /\ \A i : IsLoop(stack, i) => stack'[i] = stack[i]
  BY Zenon DEF SameLoops
<1>2. LateInv'
  BY <1>1 DEF LoopInv, LateInv
<1>3. QueueInv'
  BY <1>1 DEF LoopInv, QueueInv
<1>4. OrderInv'
  BY DEF LoopInv, OrderInv
<1>5. EveryLoopWillQuit'
  <2>1. /\ \A i : i \in On({"loop"}) <=> IsLoop(stack, i)
        /\ \A i : i \in On({"loop"})' <=> IsLoop(stack', i)
    BY DEF On, IsLoop
  <2> SUFFICES ASSUME NEW i \in On({"loop"})'
               PROVE  \/ stack'[i].quit \/ i \in late'
                      \/ \E k \in DOMAIN queue' : queue'[k].what = "quit" /\ queue'[k].loop = i
    BY DEF EveryLoopWillQuit
  <2>2. i \in On({"loop"}) /\ stack'[i] = stack[i]
    BY <1>1, <2>1
  <2> QED
    BY <2>2 DEF LoopInv, EveryLoopWillQuit
<1> QED
  BY <1>2, <1>3, <1>4, <1>5 DEF LoopInv

LEMMA HeldKept ==
  ASSUME HeldInv, UNCHANGED <<held, mouse_pressed>>, SameBodies(stack, stack')
  PROVE  HeldInv'
<1> SUFFICES ASSUME NEW m \in held, ~(m = "mouse" /\ mouse_pressed)
             PROVE  \E i \in DOMAIN stack' : Releases(stack', i, m)
  BY DEF HeldInv
<1>1. PICK i \in DOMAIN stack : Releases(stack, i, m)
  BY DEF HeldInv
<1>2. stack[i].at = "body" /\ stack[i].events # <<>>
  BY <1>1 DEF Releases
<1>3. i \in DOMAIN stack' /\ stack'[i] = stack[i]
  BY <1>2 DEF SameBodies
<1> QED
  BY <1>1, <1>3 DEF Releases

LEMMA StartKept ==
  ASSUME StartInv, NoNewStart(stack, stack'), UNCHANGED in_document_start
  PROVE  StartInv'
BY DEF StartInv, NoNewStart

LEMMA Kept ==
  ASSUME Inv, Sound(stack'), Quiet(stack, stack'),
         UNCHANGED <<queue, late, in_document_start, held, mouse_pressed>>
  PROVE  LoopInv' /\ Sound(stack)' /\ StartInv' /\ HeldInv'
BY LoopsKept, HeldKept, StartKept DEF Inv, Quiet

LEMMA TopOfTheStack ==
  ASSUME stack \in Seq(Frames), stack # <<>>
  PROVE  /\ Len(stack) \in 1 .. Len(stack) /\ Len(stack) \in DOMAIN stack /\ Top \in Frames
         /\ Len(stack) \in Nat /\ Len(stack) >= 1 /\ DOMAIN stack = 1 .. Len(stack)
<1>1. /\ Len(stack) \in Nat /\ DOMAIN stack = 1 .. Len(stack) /\ Len(stack) >= 1
      /\ \A i \in 1 .. Len(stack) : stack[i] \in Frames
  BY Lengths, Zenon
<1>2. Len(stack) \in 1 .. Len(stack)
  BY ONLY <1>1
<1> QED
  BY <1>1, <1>2, Zenon DEF Top

------------------------------------------------------------------------------
(* Frames that come and go.                                                *)
Within(s, S) == \E j \in DOMAIN s : s[j].at \in S

OnTop(s, f) ==
  \/ f.at \in {"host", "body"}
  \/ f.at = "call" /\ (Within(s, Preparing) => NoPump(f.steps))
  \/ f.at \in {"task", "load", "pump", "loop"} /\ ~Within(s, {"start"})
  \/ f.at \in Preparing /\ ~Within(s, Preparing)

LEMMA BelowTheTop ==
  ASSUME NEW s, NEW i \in Nat, DOMAIN s = 1 .. i - 1, NEW t, \A j \in 1 .. i - 1 : t[j] = s[j], NEW S
  PROVE  Below(t, i, S) <=> Within(s, S)
BY DEF Below, Within

LEMMA FitsWhereItDid ==
  ASSUME NEW s, NEW t, NEW i \in Nat, i >= 1, \A j \in 1 .. i : t[j] = s[j], Fits(s, i)
  PROVE  Fits(t, i)
<1>1. t[i] = s[i]
  OBVIOUS
<1>2. \A S : Below(t, i, S) <=> Below(s, i, S)
  BY DEF Below
<1> QED
  BY <1>1, <1>2 DEF Fits

LEMMA PushIsSound ==
  ASSUME NEW s, Sound(s), NEW f \in Frames, OnTop(s, f)
  PROVE  Sound(Append(s, f))
<1> DEFINE n == Len(s)
           t == Append(s, f)
<1>1. s \in Seq(Frames) /\ \A i \in DOMAIN s : Fits(s, i)
  BY DEF Sound
<1>2. n \in Nat /\ DOMAIN s = 1 .. n
  BY <1>1, Lengths, Zenon
<1>3. t \in Seq(Frames) /\ Len(t) = n + 1 /\ (\A i \in 1 .. n : t[i] = s[i]) /\ t[n + 1] = f
  BY <1>1, Pushed
<1>4. DOMAIN t = 1 .. n + 1
  BY <1>3, Lengths, Zenon
<1> HIDE DEF n, t
<1>5. \A i \in DOMAIN t : i = n + 1 \/ (i \in DOMAIN s /\ i \in Nat /\ i >= 1 /\ \A j \in 1 .. i : j \in 1 .. n)
  BY ONLY <1>2, <1>4
<1>6. n + 1 \in Nat /\ (n + 1) - 1 = n
  BY ONLY <1>2
<1>7. \A S : Below(t, n + 1, S) <=> Within(s, S)
  BY <1>2, <1>3, <1>6, BelowTheTop
<1>8. Within(s, {"start"}) => Within(s, Preparing)
  BY DEF Within, Preparing
<1>9. f.at \in Preparing => f.at \notin {"host", "body", "call", "task", "load", "pump", "loop"}
  BY DEF Preparing
<1>10. Fits(t, n + 1)
  BY <1>3, <1>7, <1>8, <1>9 DEF Fits, OnTop
<1>11. \A i \in DOMAIN t : Fits(t, i)
  BY <1>1, <1>3, <1>5, <1>10, FitsWhereItDid, Zenon
<1> QED
  BY <1>3, <1>11 DEF Sound, t

LEMMA PushLeaves ==
  ASSUME NEW s \in Seq(Frames), NEW f \in Frames
  PROVE  /\ \A i : IsLoop(s, i) =>
                     IsLoop(Append(s, f), i) /\ Append(s, f)[i] = s[i] /\ i # Len(s) + 1
         /\ \A i : IsLoop(Append(s, f), i) => IsLoop(s, i) \/ (i = Len(s) + 1 /\ f.at = "loop")
         /\ Append(s, f)[Len(s) + 1] = f /\ Len(s) + 1 \in DOMAIN Append(s, f)
         /\ f.at # "start" => NoNewStart(s, Append(s, f))
         /\ SameBodies(s, Append(s, f))
<1> DEFINE n == Len(s)
           t == Append(s, f)
<1>1. n \in Nat /\ DOMAIN s = 1 .. n
  BY Lengths, Zenon
<1>2. t \in Seq(Frames) /\ Len(t) = n + 1 /\ (\A i \in 1 .. n : t[i] = s[i]) /\ t[n + 1] = f
  BY Pushed
<1>3. DOMAIN t = 1 .. n + 1
  BY <1>2, Lengths, Zenon
<1> HIDE DEF n, t
<1>4. /\ \A i \in DOMAIN t : i = n + 1 \/ i \in DOMAIN s
      /\ \A i \in DOMAIN s : i \in DOMAIN t /\ i # n + 1
      /\ n + 1 \in DOMAIN t
  BY ONLY <1>1, <1>3
<1>5. \A i : IsLoop(s, i) => IsLoop(t, i) /\ t[i] = s[i] /\ i # n + 1
  BY <1>1, <1>2, <1>4, Zenon DEF IsLoop
<1>6. \A i : IsLoop(t, i) => IsLoop(s, i) \/ (i = n + 1 /\ f.at = "loop")
  BY <1>1, <1>2, <1>4, Zenon DEF IsLoop
<1>7. f.at # "start" => NoNewStart(s, t)
  BY <1>1, <1>2, <1>4, Zenon DEF NoNewStart
<1>8. SameBodies(s, t)
  BY <1>1, <1>2, <1>4, Zenon DEF SameBodies
<1> QED
  BY <1>2, <1>4, <1>5, <1>6, <1>7, <1>8, Zenon DEF t, n

LEMMA PushIsQuiet ==
  ASSUME NEW s \in Seq(Frames), NEW f \in Frames, f.at \notin {"loop", "start"}
  PROVE  Quiet(s, Append(s, f))
<1>1. /\ \A i : IsLoop(s, i) => IsLoop(Append(s, f), i) /\ Append(s, f)[i] = s[i]
      /\ \A i : IsLoop(Append(s, f), i) => IsLoop(s, i)
      /\ NoNewStart(s, Append(s, f)) /\ SameBodies(s, Append(s, f))
  BY PushLeaves
<1> QED
  BY <1>1, Zenon DEF Quiet, SameLoops

LEMMA PopIsSound ==
  ASSUME NEW s, Sound(s), s # <<>>
  PROVE  Sound(Front(s))
<1> DEFINE n == Len(s) - 1
           t == Front(s)
<1>1. s \in Seq(Frames) /\ \A i \in DOMAIN s : Fits(s, i)
  BY DEF Sound
<1>2. Len(s) \in Nat /\ DOMAIN s = 1 .. Len(s) /\ Len(s) >= 1
  BY <1>1, Lengths, Zenon
<1>3. t \in Seq(Frames) /\ Len(t) = n /\ \A i \in 1 .. n : t[i] = s[i]
  BY <1>1, Popped, Zenon
<1>4. DOMAIN t = 1 .. n
  BY <1>3, Lengths, Zenon
<1>5. n \in Nat /\ \A i \in 1 .. n : i \in DOMAIN s /\ i \in Nat /\ i >= 1 /\ \A j \in 1 .. i : j \in 1 .. n
  BY ONLY <1>2
<1> HIDE DEF n, t
<1>6. \A i \in DOMAIN t : Fits(t, i)
  BY <1>1, <1>3, <1>4, <1>5, FitsWhereItDid, Zenon
<1> QED
  BY <1>3, <1>6 DEF Sound, t

LEMMA PopLeaves ==
  ASSUME NEW s \in Seq(Frames), s # <<>>, NEW f, f = s[Len(s)]
  PROVE  /\ f.at # "loop" => SameLoops(s, Front(s))
         /\ NoNewStart(s, Front(s))
         /\ f.at # "body" \/ f.events = <<>> => SameBodies(s, Front(s))
<1> DEFINE n == Len(s) - 1
           t == Front(s)
<1>1. Len(s) \in Nat /\ DOMAIN s = 1 .. Len(s) /\ Len(s) >= 1
  BY Lengths, Zenon
<1>2. t \in Seq(Frames) /\ Len(t) = n /\ \A i \in 1 .. n : t[i] = s[i]
  BY Popped, Zenon
<1>3. DOMAIN t = 1 .. n
  BY <1>2, Lengths, Zenon
<1>4. n \in Nat /\ (\A i \in 1 .. n : i \in DOMAIN s) /\ \A i \in DOMAIN s : i \in 1 .. n \/ i = Len(s)
  BY ONLY <1>1
<1> HIDE DEF n, t
<1>5. f.at # "loop" => \A i : IsLoop(s, i) <=> IsLoop(t, i)
  BY <1>2, <1>3, <1>4, Zenon DEF IsLoop
<1>6. f.at # "loop" => \A i : IsLoop(s, i) => t[i] = s[i]
  BY <1>2, <1>3, <1>5, Zenon DEF IsLoop
<1>7. f.at # "body" \/ f.events = <<>> =>
        \A i \in DOMAIN s : s[i].at = "body" /\ s[i].events # <<>> => i \in DOMAIN t /\ t[i] = s[i]
  BY <1>2, <1>3, <1>4, Zenon
<1>8. \A i \in DOMAIN t : t[i].at = "start" => i \in DOMAIN s /\ s[i] = t[i]
  BY <1>2, <1>3, <1>4, Zenon
<1> QED
  BY <1>5, <1>6, <1>7, <1>8, Zenon DEF SameLoops, NoNewStart, SameBodies, t

LEMMA PopIsQuiet ==
  ASSUME NEW s \in Seq(Frames), s # <<>>, NEW f, f = s[Len(s)], f.at # "loop",
         f.at # "body" \/ f.events = <<>>
  PROVE  Quiet(s, Front(s))
BY PopLeaves DEF Quiet

(* A frame that takes the place of the one on top.                         *)
LEMMA PutIsPush ==
  ASSUME NEW S, NEW s \in Seq(S), s # <<>>, NEW f \in S
  PROVE  [s EXCEPT ![Len(s)] = f] = Append(Front(s), f)
<1> DEFINE n == Len(s)
           t == [s EXCEPT ![n] = f]
           u == Append(Front(s), f)
<1>1. n \in Nat /\ n >= 1
  BY Lengths, Zenon
<1>2. n \in 1 .. n
  BY ONLY <1>1
<1>3. t \in Seq(S) /\ Len(t) = n /\ (\A i \in 1 .. n : i # n => t[i] = s[i]) /\ t[n] = f
  BY <1>2, Put
<1>4. Front(s) \in Seq(S) /\ Len(Front(s)) = n - 1 /\ \A i \in 1 .. n - 1 : Front(s)[i] = s[i]
  BY Popped, Zenon
<1>5. /\ u \in Seq(S) /\ Len(u) = (n - 1) + 1 /\ (\A i \in 1 .. n - 1 : u[i] = Front(s)[i])
      /\ u[(n - 1) + 1] = f
  BY <1>4, Pushed
<1>6. (n - 1) + 1 = n /\ \A i \in 1 .. n : i # n => i \in 1 .. n - 1
  BY ONLY <1>1
<1> HIDE DEF n, t, u
<1>7. \A i \in 1 .. Len(t) : t[i] = u[i]
  BY <1>3, <1>4, <1>5, <1>6, Zenon
<1>8. Len(t) = Len(u)
  BY <1>3, <1>5, <1>6, Zenon
<1>9. t = u
  BY <1>3, <1>5, <1>7, <1>8, SeqEqual, Zenon
<1> QED
  BY <1>9 DEF t, u, n

LEMMA WithinPush ==
  ASSUME NEW s \in Seq(Frames), NEW f \in Frames, NEW S
  PROVE  Within(Append(s, f), S) <=> Within(s, S) \/ f.at \in S
<1> DEFINE n == Len(s)
           t == Append(s, f)
<1>1. n \in Nat /\ DOMAIN s = 1 .. n
  BY Lengths, Zenon
<1>2. t \in Seq(Frames) /\ Len(t) = n + 1 /\ (\A i \in 1 .. n : t[i] = s[i]) /\ t[n + 1] = f
  BY Pushed
<1>3. DOMAIN t = 1 .. n + 1
  BY <1>2, Lengths, Zenon
<1> HIDE DEF n, t
<1>4. \A i : i \in DOMAIN t <=> i = n + 1 \/ i \in DOMAIN s
  BY ONLY <1>1, <1>3
<1>5. Within(t, S) <=> Within(s, S) \/ f.at \in S
  BY <1>1, <1>2, <1>4, Zenon DEF Within
<1> QED
  BY <1>5 DEF t

(* What is below the top, and how the top fits on it.                      *)
LEMMA TopFits ==
  ASSUME NEW s, Sound(s), s # <<>>, NEW f, f = s[Len(s)]
  PROVE  /\ f \in Frames
         /\ \A S : Within(s, S) <=> Within(Front(s), S) \/ f.at \in S
         /\ f.at \in Preparing => ~Within(Front(s), Preparing)
         /\ f.at = "call" /\ Within(Front(s), Preparing) => NoPump(f.steps)
         /\ Within(Front(s), {"start"}) => f.at \in {"call", "host", "body"}
<1> DEFINE n == Len(s)
           t == Front(s)
<1>1. s \in Seq(Frames) /\ \A i \in DOMAIN s : Fits(s, i)
  BY DEF Sound
<1>2. n \in Nat /\ DOMAIN s = 1 .. n /\ n >= 1
  BY <1>1, Lengths, Zenon
<1>3. t \in Seq(Frames) /\ Len(t) = n - 1 /\ \A i \in 1 .. n - 1 : t[i] = s[i]
  BY <1>1, Popped, Zenon
<1>4. DOMAIN t = 1 .. n - 1
  BY <1>3, Lengths, Zenon
<1>5. n \in DOMAIN s /\ \A i : i \in 1 .. n <=> i \in 1 .. n - 1 \/ i = n
  BY ONLY <1>2
<1>6. f = s[n] /\ f \in Frames
  BY <1>1, <1>5, Lengths, Zenon
<1> HIDE DEF n, t
<1>7. Fits(s, n) /\ f \in Frames
  BY <1>1, <1>5, <1>6, Zenon
<1>8. \A S : Below(s, n, S) <=> Within(t, S)
  BY <1>3, <1>4, Zenon DEF Below, Within
<1>9. \A S : Within(s, S) <=> Within(t, S) \/ f.at \in S
  BY <1>2, <1>3, <1>4, <1>5, <1>6, Zenon DEF Within
<1>10. f.at \in Preparing => ~Within(t, Preparing)
  BY <1>6, <1>7, <1>8, Zenon DEF Fits
<1>11. f.at = "call" /\ Within(t, Preparing) => NoPump(f.steps)
  BY <1>6, <1>7, <1>8, Zenon DEF Fits
<1>12. Within(t, {"start"}) => f.at \in {"call", "host", "body"}
  BY <1>6, <1>7, <1>8, Zenon DEF Fits
<1> QED
  BY <1>7, <1>9, <1>10, <1>11, <1>12, Zenon DEF t

------------------------------------------------------------------------------
(* The actions.  First those that take a frame from the stack.             *)
LEMMA Pops ==
  ASSUME Inv, stack # <<>>, Pop, Top.at # "loop", Top.at # "body" \/ Top.events = <<>>
  PROVE  Sound(stack') /\ Quiet(stack, stack') /\ stack' \in Seq(Frames)
<1>1. Sound(stack) /\ stack \in Seq(Frames)
  BY DEF Inv, Sound
<1>2. Sound(Front(stack)) /\ Quiet(stack, Front(stack))
  BY <1>1, PopIsSound, PopIsQuiet, Zenon DEF Top
<1> QED
  BY <1>2 DEF Pop, Sound

LEMMA ReturnInv ==
  ASSUME Inv, Return
  PROVE  Inv'
<1>1. stack # <<>> /\ Pop /\ Top.at \in {"call"}
      /\ UNCHANGED <<queue, late, pages, loads, in_document_start, mouse_pressed, held, made>>
  BY DEF Return, Is
<1>2. Sound(stack') /\ Quiet(stack, stack') /\ stack' \in Seq(Frames)
  BY <1>1, Pops
<1>3. LoopInv' /\ Sound(stack)' /\ StartInv' /\ HeldInv'
  BY <1>1, <1>2, Kept
<1>4. TypeOK'
  BY <1>1, <1>2 DEF Inv, TypeOK
<1> QED
  BY <1>3, <1>4 DEF Inv

LEMMA HostReturnsInv ==
  ASSUME Inv, HostReturns
  PROVE  Inv'
<1>1. stack # <<>> /\ Pop /\ Top.at \in {"host"}
      /\ UNCHANGED <<queue, late, pages, loads, in_document_start, mouse_pressed, held, made>>
  BY DEF HostReturns, Is
<1>2. Sound(stack') /\ Quiet(stack, stack') /\ stack' \in Seq(Frames)
  BY <1>1, Pops
<1>3. LoopInv' /\ Sound(stack)' /\ StartInv' /\ HeldInv'
  BY <1>1, <1>2, Kept
<1>4. TypeOK'
  BY <1>1, <1>2 DEF Inv, TypeOK
<1> QED
  BY <1>3, <1>4 DEF Inv

LEMMA NobodyListensInv ==
  ASSUME Inv, NobodyListens
  PROVE  Inv'
<1>1. stack # <<>> /\ Pop /\ Top.at \in {"init"}
      /\ UNCHANGED <<queue, late, pages, loads, in_document_start, mouse_pressed, held, made>>
  BY DEF NobodyListens, Is
<1>2. Sound(stack') /\ Quiet(stack, stack') /\ stack' \in Seq(Frames)
  BY <1>1, Pops
<1>3. LoopInv' /\ Sound(stack)' /\ StartInv' /\ HeldInv'
  BY <1>1, <1>2, Kept
<1>4. TypeOK'
  BY <1>1, <1>2 DEF Inv, TypeOK
<1> QED
  BY <1>3, <1>4 DEF Inv

LEMMA TaskEndsInv ==
  ASSUME Inv, TaskEnds
  PROVE  Inv'
<1>1. stack # <<>> /\ Pop /\ Top.at \in {"task", "load"}
      /\ UNCHANGED <<queue, late, pages, loads, in_document_start, mouse_pressed, held, made>>
  BY DEF TaskEnds, Is
<1>2. Sound(stack') /\ Quiet(stack, stack') /\ stack' \in Seq(Frames)
  BY <1>1, Pops
<1>3. LoopInv' /\ Sound(stack)' /\ StartInv' /\ HeldInv'
  BY <1>1, <1>2, Kept
<1>4. TypeOK'
  BY <1>1, <1>2 DEF Inv, TypeOK
<1> QED
  BY <1>3, <1>4 DEF Inv

LEMMA PumpReturnsInv ==
  ASSUME Inv, PumpReturns
  PROVE  Inv'
<1>1. stack # <<>> /\ Pop /\ Top.at \in {"pump"}
      /\ UNCHANGED <<queue, late, pages, loads, in_document_start, mouse_pressed, held, made>>
  BY DEF PumpReturns, Is
<1>2. Sound(stack') /\ Quiet(stack, stack') /\ stack' \in Seq(Frames)
  BY <1>1, Pops
<1>3. LoopInv' /\ Sound(stack)' /\ StartInv' /\ HeldInv'
  BY <1>1, <1>2, Kept
<1>4. TypeOK'
  BY <1>1, <1>2 DEF Inv, TypeOK
<1> QED
  BY <1>3, <1>4 DEF Inv

LEMMA BodyEndsInv ==
  ASSUME Inv, BodyEnds
  PROVE  Inv'
<1>1. stack # <<>> /\ Pop /\ Top.at \in {"body"} /\ Top.events = <<>>
      /\ UNCHANGED <<queue, late, pages, loads, in_document_start, mouse_pressed, held, made>>
  BY DEF BodyEnds, Is
<1>2. Sound(stack') /\ Quiet(stack, stack') /\ stack' \in Seq(Frames)
  BY <1>1, Pops
<1>3. LoopInv' /\ Sound(stack)' /\ StartInv' /\ HeldInv'
  BY <1>1, <1>2, Kept
<1>4. TypeOK'
  BY <1>1, <1>2 DEF Inv, TypeOK
<1> QED
  BY <1>3, <1>4 DEF Inv

(* Below the callback of a document's start there is no other.             *)
LEMMA StartEndsInv ==
  ASSUME Inv, StartEnds
  PROVE  Inv'
<1>1. stack # <<>> /\ Pop /\ Top.at = "start"
      /\ in_document_start' = [in_document_start EXCEPT ![Top.view] = FALSE]
      /\ UNCHANGED <<queue, late, pages, loads, mouse_pressed, held, made>>
  BY DEF StartEnds, Is
<1>2. Sound(stack') /\ Quiet(stack, stack') /\ stack' \in Seq(Frames)
  BY <1>1, Pops
<1>3. LoopInv' /\ HeldInv'
  BY <1>1, <1>2, LoopsKept, HeldKept DEF Inv, Quiet
<1>4. ~Within(Front(stack), Preparing)
  BY <1>1, TopFits, Zenon DEF Inv, Top, Preparing
<1>5. StartInv'
  <2>1. \A i \in DOMAIN stack' : stack'[i].at # "start"
    BY <1>1, <1>4 DEF Within, Preparing, Pop
  <2> QED
    BY <2>1 DEF StartInv
<1>6. TypeOK'
  <2>1. in_document_start' \in [Views -> BOOLEAN]
    BY <1>1 DEF Inv, TypeOK
  <2> QED
    BY <1>1, <1>2, <2>1 DEF Inv, TypeOK
<1> QED
  BY <1>2, <1>3, <1>5, <1>6 DEF Inv

LEMMA Counts ==
  ASSUME NEW m \in [calls : Nat, pages : Nat, loads : Nat]
  PROVE  /\ [m EXCEPT !.calls = @ + 1] \in [calls : Nat, pages : Nat, loads : Nat]
         /\ [m EXCEPT !.pages = @ + 1] \in [calls : Nat, pages : Nat, loads : Nat]
         /\ [m EXCEPT !.loads = @ + 1] \in [calls : Nat, pages : Nat, loads : Nat]
OBVIOUS

(* The calls of the host.                                                  *)
LEMMA CallInv ==
  ASSUME Inv, NEW v \in Views, NEW steps \in Seq(Steps), Call(v, steps)
  PROVE  Inv'
<1> DEFINE f == [at |-> "call", view |-> v, steps |-> steps]
<1>1. /\ On({"init", "start"}) # {} => NoPump(steps)
      /\ stack' = Append(stack, f) /\ made' = [made EXCEPT !.calls = @ + 1]
      /\ UNCHANGED <<queue, late, pages, loads, in_document_start, mouse_pressed, held>>
  BY DEF Call, NoPump
<1>2. f \in Frames /\ f.at = "call" /\ f.steps = steps
  BY NewFrames
<1> HIDE DEF f
<1>3. Within(stack, Preparing) => On({"init", "start"}) # {}
  BY DEF Within, On, Preparing
<1>4. OnTop(stack, f)
  BY <1>1, <1>2, <1>3 DEF OnTop
<1>5. Sound(stack') /\ Quiet(stack, stack')
  BY <1>1, <1>2, <1>4, PushIsSound, PushIsQuiet DEF Inv, Sound
<1>6. LoopInv' /\ Sound(stack)' /\ StartInv' /\ HeldInv'
  BY <1>1, <1>5, Kept
<1>7. TypeOK'
  <2>1. stack' \in Seq(Frames)
    BY <1>5 DEF Sound
  <2>2. made' \in [calls : Nat, pages : Nat, loads : Nat]
    BY <1>1, Counts, Zenon DEF Inv, TypeOK
  <2> QED
    BY <1>1, <2>1, <2>2 DEF Inv, TypeOK
<1> QED
  BY <1>6, <1>7 DEF Inv

LEMMA HostCallsInInv ==
  ASSUME Inv, HostCallsIn
  PROVE  Inv'
<1>1. PICK v \in Views, c \in Calls : \E p \in Programs[c] : Call(v, p)
  BY DEF HostCallsIn
<1>2. PICK p \in Programs[c] : Call(v, p)
  BY <1>1
<1>3. p \in Seq(Steps)
  BY ProgramsAreSteps, HostCallsAssumption
<1> QED
  BY <1>2, <1>3, CallInv

(* What is left of the call on top when its next step begins.              *)
LEMMA NextStep ==
  ASSUME Inv, Is("call"), Top.steps # <<>>
  PROVE  /\ Sound(Caller) /\ Quiet(stack, Caller) /\ Caller \in Seq(Frames)
         /\ Step \in Steps /\ Step.events \in Runs /\ Top.view \in Views /\ Len(Caller) = Len(stack)
         /\ \A S : Within(Caller, S) <=> Within(Front(stack), S) \/ "call" \in S
         /\ Step.how \in {"pump", "commit"} => ~Within(Caller, Preparing)
<1> DEFINE f == [Top EXCEPT !.steps = Tail(Top.steps)]
           below == Front(stack)
<1>1. stack \in Seq(Frames) /\ Sound(stack) /\ stack # <<>> /\ Top.at = "call"
  BY DEF Inv, Sound, Is
<1>2. /\ Top \in Frames
      /\ Within(below, Preparing) => NoPump(Top.steps)
  BY <1>1, TopFits, Zenon DEF Top
<1>3. Top.view \in Views /\ Top.steps \in Seq(Steps)
  BY <1>1, <1>2, CallsOnTheStack
<1>4. /\ Tail(Top.steps) \in Seq(Steps) /\ Step \in Steps
      /\ 1 \in DOMAIN Top.steps
      /\ DOMAIN Tail(Top.steps) = 1 .. Len(Top.steps) - 1
      /\ \A k \in 1 .. Len(Top.steps) - 1 : Tail(Top.steps)[k] = Top.steps[k + 1]
      /\ \A k \in 1 .. Len(Top.steps) - 1 : k + 1 \in DOMAIN Top.steps
  <2>1. Len(Top.steps) \in Nat /\ DOMAIN Top.steps = 1 .. Len(Top.steps) /\ Len(Top.steps) >= 1
        /\ \A i \in 1 .. Len(Top.steps) : Top.steps[i] \in Steps
    BY <1>3, Lengths, Zenon
  <2>2. /\ Tail(Top.steps) \in Seq(Steps) /\ Len(Tail(Top.steps)) = Len(Top.steps) - 1
        /\ \A i \in 1 .. Len(Top.steps) - 1 : Tail(Top.steps)[i] = Top.steps[i + 1]
    BY <1>3, Rest, Zenon
  <2>3. DOMAIN Tail(Top.steps) = 1 .. Len(Top.steps) - 1
    BY <2>2, Lengths, Zenon
  <2>4. 1 \in DOMAIN Top.steps /\ \A k \in 1 .. Len(Top.steps) - 1 : k + 1 \in DOMAIN Top.steps
    BY ONLY <2>1
  <2> QED
    BY <2>1, <2>2, <2>3, <2>4, Zenon DEF Step
<1>5. f \in Frames /\ f.at = "call" /\ f.steps = Tail(Top.steps)
  BY <1>1, <1>2, <1>4, CallsOnTheStack
<1>6. Caller = [stack EXCEPT ![Len(stack)] = f]
  BY DEF Caller, Top
<1> HIDE DEF f, below
<1>7. Caller = Append(below, f)
  BY <1>1, <1>5, <1>6, PutIsPush DEF below
<1>8. Sound(below) /\ Quiet(stack, below) /\ below \in Seq(Frames)
  BY <1>1, PopIsSound, PopIsQuiet DEF below, Sound, Top
<1>9. NoPump(Top.steps) => NoPump(f.steps)
  BY <1>4, <1>5 DEF NoPump
<1>10. OnTop(below, f)
  BY <1>2, <1>5, <1>9 DEF OnTop
<1>11. Sound(Caller) /\ Quiet(below, Caller)
  BY <1>5, <1>7, <1>8, <1>10, PushIsSound, PushIsQuiet
<1>12. Quiet(stack, Caller)
  BY <1>8, <1>11, QuietTwice
<1>13. \A S : Within(Caller, S) <=> Within(below, S) \/ "call" \in S
  BY <1>5, <1>7, <1>8, WithinPush
<1>14. Step.how \in {"pump", "commit"} => ~Within(Caller, Preparing)
  BY <1>2, <1>4, <1>13 DEF NoPump, Step, Preparing
<1>15. Step.events \in Runs
  BY <1>4 DEF Steps
<1>16. Len(Caller) = Len(stack)
  <2>1. Len(stack) \in 1 .. Len(stack)
    BY <1>1, TopOfTheStack
  <2> QED
    BY <1>1, <1>5, <1>6, <2>1, Put
<1> QED
  BY <1>3, <1>4, <1>11, <1>12, <1>13, <1>14, <1>15, <1>16 DEF Sound, below

LEMMA PushOn ==
  ASSUME NEW s, Sound(s), Quiet(stack, s), NEW f \in Frames, OnTop(s, f),
         f.at \notin {"loop", "start"}
  PROVE  Sound(Append(s, f)) /\ Quiet(stack, Append(s, f)) /\ Append(s, f) \in Seq(Frames)
<1>1. Sound(Append(s, f)) /\ Quiet(s, Append(s, f))
  BY PushIsSound, PushIsQuiet DEF Sound
<1>2. Quiet(stack, Append(s, f))
  BY <1>1, QuietTwice
<1> QED
  BY <1>1, <1>2 DEF Sound

(* Page code runs in the frame, and may call the host.                     *)
LEMMA Enters ==
  ASSUME NEW s, Sound(s), Quiet(stack, s), NEW f \in Frames, OnTop(s, f),
         f.at \notin {"loop", "start"}, Enter(s, f)
  PROVE  Sound(stack') /\ Quiet(stack, stack') /\ stack' \in Seq(Frames)
<1> DEFINE t == Append(s, f)
           h == [at |-> "host"]
<1>1. Sound(t) /\ Quiet(stack, t) /\ t \in Seq(Frames)
  BY PushOn
<1>2. h \in Frames /\ h.at = "host"
  BY NewFrames
<1> HIDE DEF t, h
<1>3. OnTop(t, h)
  BY <1>2 DEF OnTop
<1>4. Sound(Append(t, h)) /\ Quiet(stack, Append(t, h)) /\ Append(t, h) \in Seq(Frames)
  BY <1>1, <1>2, <1>3, PushOn
<1>5. stack' = t \/ stack' = Append(t, h)
  BY DEF Enter, t, h
<1> QED
  BY <1>1, <1>4, <1>5

LEMMA SendDirectlyInv ==
  ASSUME Inv, SendDirectly
  PROVE  Inv'
<1>1. /\ Is("call") /\ Top.steps # <<>> /\ stack' = Append(Caller, Body("direct"))
      /\ UNCHANGED <<queue, late, pages, loads, in_document_start, mouse_pressed, held, made>>
  BY DEF SendDirectly
<1>2. Sound(Caller) /\ Quiet(stack, Caller) /\ Step.events \in Runs
  BY <1>1, NextStep
<1>3. Body("direct") \in Frames /\ Body("direct").at = "body"
  BY <1>2, NewFrames DEF Body
<1>4. OnTop(Caller, Body("direct"))
  BY <1>3 DEF OnTop
<1>5. Sound(stack') /\ Quiet(stack, stack') /\ stack' \in Seq(Frames)
  BY <1>1, <1>2, <1>3, <1>4, PushOn
<1>6. LoopInv' /\ Sound(stack)' /\ StartInv' /\ HeldInv'
  BY <1>1, <1>5, Kept
<1>7. TypeOK'
  BY <1>1, <1>5 DEF Inv, TypeOK
<1> QED
  BY <1>6, <1>7 DEF Inv

LEMMA PumpInv ==
  ASSUME Inv, Pump
  PROVE  Inv'
<1> DEFINE f == [at |-> "pump"]
<1>1. /\ Is("call") /\ Top.steps # <<>> /\ Step.how = "pump"
      /\ stack' = Append(Caller, f) \/ stack' = Caller
      /\ UNCHANGED <<queue, late, pages, loads, in_document_start, mouse_pressed, held, made>>
  BY DEF Pump
<1>2. Sound(Caller) /\ Quiet(stack, Caller) /\ Caller \in Seq(Frames)
      /\ ~Within(Caller, Preparing)
  BY <1>1, NextStep
<1>3. f \in Frames /\ f.at = "pump"
  BY NewFrames
<1> HIDE DEF f
<1>4. OnTop(Caller, f)
  BY <1>2, <1>3 DEF OnTop, Within, Preparing
<1>5. Sound(stack') /\ Quiet(stack, stack') /\ stack' \in Seq(Frames)
  BY <1>1, <1>2, <1>3, <1>4, PushOn
<1>6. LoopInv' /\ Sound(stack)' /\ StartInv' /\ HeldInv'
  BY <1>1, <1>5, Kept
<1>7. TypeOK'
  BY <1>1, <1>5 DEF Inv, TypeOK
<1> QED
  BY <1>6, <1>7 DEF Inv

LEMMA CommitHtmlInv ==
  ASSUME Inv, CommitHtml
  PROVE  Inv'
<1> DEFINE f == [at |-> "init", view |-> Top.view]
<1>1. /\ Is("call") /\ Top.steps # <<>> /\ Step.how = "commit" /\ Enter(Caller, f)
      /\ UNCHANGED <<queue, late, pages, loads, in_document_start, mouse_pressed, held, made>>
  BY DEF CommitHtml
<1>2. Sound(Caller) /\ Quiet(stack, Caller) /\ Top.view \in Views /\ ~Within(Caller, Preparing)
  BY <1>1, NextStep
<1>3. f \in Frames /\ f.at = "init"
  BY <1>2, NewFrames
<1> HIDE DEF f
<1>4. OnTop(Caller, f)
  BY <1>2, <1>3 DEF OnTop, Preparing
<1>5. Sound(stack') /\ Quiet(stack, stack') /\ stack' \in Seq(Frames)
  BY <1>1, <1>2, <1>3, <1>4, Enters
<1>6. LoopInv' /\ Sound(stack)' /\ StartInv' /\ HeldInv'
  BY <1>1, <1>5, Kept
<1>7. TypeOK'
  BY <1>1, <1>5 DEF Inv, TypeOK
<1> QED
  BY <1>6, <1>7 DEF Inv

LEMMA WindowObjectReadyInv ==
  ASSUME Inv, WindowObjectReady
  PROVE  Inv'
<1> DEFINE f == [at |-> "start", view |-> Top.view]
           below == Front(stack)
<1>1. /\ stack # <<>> /\ Top.at = "init" /\ stack' = [stack EXCEPT ![Len(stack)] = f]
      /\ in_document_start' = [in_document_start EXCEPT ![Top.view] = TRUE]
      /\ UNCHANGED <<queue, late, pages, loads, mouse_pressed, held, made>>
  BY DEF WindowObjectReady, Is, Replace
<1>2. Sound(stack) /\ stack \in Seq(Frames)
  BY DEF Inv, Sound
<1>3. /\ Top \in Frames /\ ~Within(below, Preparing)
  BY <1>1, <1>2, TopFits, Zenon DEF Top, Preparing
<1>4. Top.view \in Views
  BY <1>1, <1>3, FramesOfOneView
<1>5. f \in Frames /\ f.at = "start" /\ f.view = Top.view
  BY <1>4, NewFrames
<1>6. Sound(below) /\ Quiet(stack, below) /\ below \in Seq(Frames)
  BY <1>1, <1>2, PopIsSound, PopIsQuiet, Zenon DEF Top, Sound
<1> HIDE DEF f, below
<1>7. stack' = Append(below, f)
  BY <1>1, <1>2, <1>5, PutIsPush DEF below
<1>8. OnTop(below, f)
  BY <1>3, <1>5 DEF OnTop, Preparing
<1>9. Sound(stack') /\ stack' \in Seq(Frames)
  BY <1>5, <1>6, <1>7, <1>8, PushIsSound DEF Sound
<1>10. /\ \A i : IsLoop(below, i) => IsLoop(stack', i) /\ stack'[i] = below[i]
       /\ \A i : IsLoop(stack', i) => IsLoop(below, i)
       /\ SameBodies(below, stack')
  BY <1>5, <1>6, <1>7, PushLeaves
<1>11. SameLoops(stack, stack') /\ SameBodies(stack, stack')
  BY <1>6, <1>10, Zenon DEF Quiet, SameLoops, SameBodies
<1>12. LoopInv' /\ HeldInv'
  BY <1>1, <1>11, LoopsKept, HeldKept DEF Inv
<1>13. in_document_start' \in [Views -> BOOLEAN] /\ in_document_start'[Top.view]
       /\ \A v \in Views : in_document_start[v] => in_document_start'[v]
  BY <1>1, <1>4 DEF Inv, TypeOK
<1>14. StartInv'
  <2> SUFFICES ASSUME NEW i \in DOMAIN stack', stack'[i].at = "start"
               PROVE  in_document_start'[stack'[i].view]
    BY DEF StartInv
  <2>1. ~Within(below, {"start"})
    BY <1>3 DEF Within, Preparing
  <2>2. Len(below) \in Nat /\ DOMAIN below = 1 .. Len(below) /\ Len(stack') = Len(below) + 1
        /\ DOMAIN stack' = 1 .. Len(stack') /\ (\A j \in 1 .. Len(below) : stack'[j] = below[j])
        /\ stack'[Len(below) + 1] = f
    BY <1>5, <1>6, <1>7, <1>9, Pushed, Lengths
  <2>3. i \in DOMAIN below \/ i = Len(below) + 1
    BY ONLY <2>2, i \in DOMAIN stack'
  <2>4. stack'[i] = f
    BY <2>1, <2>2, <2>3, Zenon DEF Within
  <2> QED
    BY <1>5, <1>13, <2>4
<1>15. TypeOK'
  BY <1>1, <1>9, <1>13 DEF Inv, TypeOK
<1> QED
  BY <1>9, <1>12, <1>14, <1>15 DEF Inv

(* Where tasks run, no document's window is being prepared below.          *)
LEMMA MayRunIsFree ==
  ASSUME Inv, MayRun
  PROVE  /\ stack # <<>> /\ stack \in Seq(Frames) /\ Sound(stack) /\ Quiet(stack, stack)
         /\ Top \in Frames /\ ~Within(stack, {"start"})
<1>1. stack # <<>> /\ Top.at \in {"pump", "loop"}
  BY DEF MayRun, Is
<1>2. Sound(stack) /\ stack \in Seq(Frames)
  BY DEF Inv, Sound
<1>3. Top.at \notin {"call", "host", "body", "start"}
  BY <1>1
<1>4. Top \in Frames /\ ~Within(stack, {"start"})
  BY <1>1, <1>2, <1>3, TopFits, Zenon DEF Top
<1>5. Quiet(stack, stack)
  BY DEF Quiet, SameLoops, NoNewStart, SameBodies
<1> QED
  BY <1>1, <1>2, <1>4, <1>5

LEMMA RunPageTaskInv ==
  ASSUME Inv, RunPageTask
  PROVE  Inv'
<1> DEFINE f == [at |-> "task"]
<1>1. /\ MayRun /\ pages > 0 /\ pages' = pages - 1 /\ Enter(stack, f)
      /\ UNCHANGED <<queue, late, loads, in_document_start, mouse_pressed, held, made>>
  BY DEF RunPageTask
<1>2. Sound(stack) /\ Quiet(stack, stack) /\ ~Within(stack, {"start"})
  BY <1>1, MayRunIsFree
<1>3. f \in Frames /\ f.at = "task"
  BY NewFrames
<1> HIDE DEF f
<1>4. OnTop(stack, f)
  BY <1>2, <1>3 DEF OnTop
<1>5. Sound(stack') /\ Quiet(stack, stack') /\ stack' \in Seq(Frames)
  BY <1>1, <1>2, <1>3, <1>4, Enters
<1>6. LoopInv' /\ Sound(stack)' /\ StartInv' /\ HeldInv'
  BY <1>1, <1>5, Kept
<1>7. pages' \in Nat
  BY <1>1 DEF Inv, TypeOK
<1>8. TypeOK'
  BY <1>1, <1>5, <1>7 DEF Inv, TypeOK
<1> QED
  BY <1>6, <1>8 DEF Inv

LEMMA RunLoadTaskInv ==
  ASSUME OneView, Inv, RunLoadTask
  PROVE  Inv'
<1> DEFINE f == [at |-> "load"]
           s == Append(stack, f)
           g(v) == [at |-> "init", view |-> v]
<1>1. /\ MayRun /\ loads > 0 /\ loads' = loads - 1
      /\ \/ stack' = s
         \/ \E v \in Views : (\A i \in On({"init", "start"}) : stack[i].view # v) /\ Enter(s, g(v))
      /\ UNCHANGED <<queue, late, pages, in_document_start, mouse_pressed, held, made>>
  BY DEF RunLoadTask
<1>2. Sound(stack) /\ Quiet(stack, stack) /\ ~Within(stack, {"start"}) /\ stack \in Seq(Frames)
  BY <1>1, MayRunIsFree
<1>3. f \in Frames /\ f.at = "load"
  BY NewFrames
<1> HIDE DEF f, s
<1>4. OnTop(stack, f)
  BY <1>2, <1>3 DEF OnTop
<1>5. Sound(s) /\ Quiet(stack, s) /\ s \in Seq(Frames)
  BY <1>2, <1>3, <1>4, PushOn DEF s
<1>6. Sound(stack') /\ Quiet(stack, stack') /\ stack' \in Seq(Frames)
  <2>1. CASE stack' = s
    BY <1>5, <2>1
  <2>2. ASSUME NEW v \in Views, \A i \in On({"init", "start"}) : stack[i].view # v, Enter(s, g(v))
        PROVE  Sound(stack') /\ Quiet(stack, stack') /\ stack' \in Seq(Frames)
    <3>1. ~Within(stack, Preparing)
      <4> SUFFICES ASSUME NEW i \in DOMAIN stack, stack[i].at \in {"init", "start"} PROVE FALSE
        BY DEF Within, Preparing
      <4>1. stack[i] \in Frames
        BY <1>2, Lengths
      <4>2. stack[i].view \in Views
        BY <4>1, FramesOfOneView
      <4> QED
        BY <2>2, <4>2 DEF On, OneView
    <3>2. ~Within(s, Preparing)
      BY <1>2, <1>3, <3>1, WithinPush DEF s, Preparing
    <3>3. g(v) \in Frames /\ g(v).at = "init"
      BY NewFrames
    <3> HIDE DEF g
    <3>4. OnTop(s, g(v))
      BY <3>2, <3>3 DEF OnTop, Preparing
    <3> QED
      BY <1>5, <2>2, <3>3, <3>4, Enters
  <2> QED
    BY <1>1, <2>1, <2>2
<1>7. LoopInv' /\ Sound(stack)' /\ StartInv' /\ HeldInv'
  BY <1>1, <1>6, Kept
<1>8. loads' \in Nat
  BY <1>1 DEF Inv, TypeOK
<1>9. TypeOK'
  BY <1>1, <1>6, <1>8 DEF Inv, TypeOK
<1> QED
  BY <1>7, <1>9 DEF Inv

------------------------------------------------------------------------------
(* The queue.                                                              *)
LEMMA QueueSize ==
  ASSUME TypeOK
  PROVE  /\ Len(queue) \in Nat /\ DOMAIN queue = 1 .. Len(queue)
         /\ \A k \in DOMAIN queue : queue[k] \in Tasks
         /\ queue # <<>> =>
              /\ Len(queue) >= 1 /\ 1 \in DOMAIN queue /\ Head(queue) = queue[1]
              /\ Tail(queue) \in Seq(Tasks)
              /\ \A k \in DOMAIN Tail(queue) :
                   k \in Nat /\ k + 1 \in DOMAIN queue /\ k + 1 # 1 /\ 1 < k + 1
                   /\ Tail(queue)[k] = queue[k + 1]
              /\ \A l \in DOMAIN queue : l = 1 \/ (l - 1 \in DOMAIN Tail(queue) /\ (l - 1) + 1 = l)
<1>1. queue \in Seq(Tasks)
  BY DEF TypeOK
<1>2. /\ Len(queue) \in Nat /\ DOMAIN queue = 1 .. Len(queue) /\ (queue # <<>> => Len(queue) >= 1)
      /\ \A k \in 1 .. Len(queue) : queue[k] \in Tasks
  BY <1>1, Lengths, Zenon
<1>3. ASSUME queue # <<>>
      PROVE  /\ Len(queue) >= 1 /\ 1 \in DOMAIN queue /\ Head(queue) = queue[1]
             /\ Tail(queue) \in Seq(Tasks)
             /\ \A k \in DOMAIN Tail(queue) :
                  k \in Nat /\ k + 1 \in DOMAIN queue /\ k + 1 # 1 /\ 1 < k + 1
                  /\ Tail(queue)[k] = queue[k + 1]
             /\ \A l \in DOMAIN queue : l = 1 \/ (l - 1 \in DOMAIN Tail(queue) /\ (l - 1) + 1 = l)
  <2> DEFINE n == Len(queue)
             t == Tail(queue)
  <2>1. /\ t \in Seq(Tasks) /\ Len(t) = n - 1 /\ \A k \in 1 .. n - 1 : t[k] = queue[k + 1]
    BY <1>1, <1>3, Rest, Zenon
  <2>2. DOMAIN t = 1 .. n - 1
    BY <2>1, Lengths, Zenon
  <2>3. Head(queue) = queue[1]
    BY <1>1, <1>3
  <2> HIDE DEF t, n
  <2>4. n \in Nat /\ n >= 1 /\ DOMAIN queue = 1 .. n
    BY <1>2, <1>3, Zenon DEF n
  <2>5. 1 \in DOMAIN queue /\ \A k \in DOMAIN t : k \in Nat /\ k + 1 \in DOMAIN queue /\ k + 1 # 1 /\ 1 < k + 1
    BY ONLY <2>2, <2>4
  <2>6. \A l \in DOMAIN queue : l = 1 \/ (l - 1 \in DOMAIN t /\ (l - 1) + 1 = l)
    BY ONLY <2>2, <2>4
  <2> QED
    BY <2>1, <2>2, <2>3, <2>4, <2>5, <2>6, Zenon DEF t, n
<1> QED
  BY <1>2, <1>3, Zenon

(* What is left of the queue when its head has run.                        *)
LEMMA HeadLeaves ==
  ASSUME TypeOK, LoopInv, queue # <<>>, Head(queue).what # "quit",
         queue' = Tail(queue), late' = late, SameLoops(stack, stack')
  PROVE  LoopInv'
<1>1. /\ \A i : IsLoop(stack', i) <=> IsLoop(stack, i)
      /\ \A i : IsLoop(stack, i) => stack'[i] = stack[i]
  BY Zenon DEF SameLoops
<1>2. /\ Head(queue) = queue[1] /\ 1 \in DOMAIN queue
      /\ \A k \in DOMAIN queue' : k \in Nat /\ k + 1 \in DOMAIN queue /\ queue'[k] = queue[k + 1]
      /\ \A l \in DOMAIN queue : l = 1 \/ (l - 1 \in DOMAIN queue' /\ (l - 1) + 1 = l)
  BY QueueSize, Zenon
<1>3. LateInv'
  BY <1>1 DEF LoopInv, LateInv
<1>4. QueueInv'
  BY <1>1, <1>2 DEF LoopInv, QueueInv
<1>5. OrderInv'
  <2> SUFFICES ASSUME NEW k \in DOMAIN queue', NEW l \in DOMAIN queue',
                      queue'[k].loop = queue'[l].loop, k < l
               PROVE  Rank(queue'[k].what) < Rank(queue'[l].what)
    BY DEF OrderInv
  <2>1. k + 1 < l + 1
    BY <1>2
  <2> QED
    BY <1>2, <2>1 DEF LoopInv, OrderInv
<1>6. EveryLoopWillQuit'
  <2>1. /\ \A i : i \in On({"loop"}) <=> IsLoop(stack, i)
        /\ \A i : i \in On({"loop"})' <=> IsLoop(stack', i)
    BY DEF On, IsLoop
  <2> SUFFICES ASSUME NEW i \in On({"loop"})'
               PROVE  \/ stack'[i].quit \/ i \in late'
                      \/ \E k \in DOMAIN queue' : queue'[k].what = "quit" /\ queue'[k].loop = i
    BY DEF EveryLoopWillQuit
  <2>2. i \in On({"loop"}) /\ stack'[i] = stack[i]
    BY <1>1, <2>1
  <2>3. ASSUME NEW k \in DOMAIN queue, queue[k].what = "quit", queue[k].loop = i
        PROVE  \E l \in DOMAIN queue' : queue'[l].what = "quit" /\ queue'[l].loop = i
    <3>1. k # 1
      BY <1>2, <2>3
    <3>2. k - 1 \in DOMAIN queue' /\ queue'[k - 1] = queue[k]
      BY <1>2, <3>1
    <3> QED
      BY <2>3, <3>2
  <2> QED
    BY <2>2, <2>3 DEF LoopInv, EveryLoopWillQuit
<1> QED
  BY <1>3, <1>4, <1>5, <1>6 DEF LoopInv

LEMMA RunBodyInv ==
  ASSUME Inv, RunBody
  PROVE  Inv'
<1> DEFINE f == [at |-> "body", how |-> "task", events |-> Head(queue).events]
<1>1. /\ MayRun /\ queue # <<>> /\ Head(queue).what = "body"
      /\ stack' = Append(stack, f) /\ queue' = Tail(queue)
      /\ UNCHANGED <<late, pages, loads, in_document_start, mouse_pressed, held, made>>
  BY DEF RunBody
<1>2. Sound(stack) /\ Quiet(stack, stack) /\ stack \in Seq(Frames)
  BY <1>1, MayRunIsFree
<1>3. Head(queue) \in Tasks /\ Tail(queue) \in Seq(Tasks)
  BY <1>1, QueueSize DEF Inv
<1>4. f \in Frames /\ f.at = "body"
  BY <1>3, NewFrames DEF Tasks
<1> HIDE DEF f
<1>5. OnTop(stack, f)
  BY <1>4 DEF OnTop
<1>6. Sound(stack') /\ Quiet(stack, stack') /\ stack' \in Seq(Frames)
  BY <1>1, <1>2, <1>4, <1>5, PushOn
<1>7. LoopInv'
  BY <1>1, <1>6, HeadLeaves DEF Inv, Quiet
<1>8. StartInv' /\ HeldInv'
  BY <1>1, <1>6, StartKept, HeldKept DEF Inv, Quiet
<1>9. TypeOK'
  BY <1>1, <1>3, <1>6 DEF Inv, TypeOK
<1> QED
  BY <1>6, <1>7, <1>8, <1>9 DEF Inv

(* What a quit of a loop changes is of no other frame.                     *)
LEMMA PutInLoop ==
  ASSUME NEW f \in Frames, f.at = "loop", NEW s, Sound(s), NEW i, IsLoop(s, i)
  PROVE  /\ Sound([s EXCEPT ![i] = f]) /\ [s EXCEPT ![i] = f][i] = f
         /\ NoNewStart(s, [s EXCEPT ![i] = f]) /\ SameBodies(s, [s EXCEPT ![i] = f])
         /\ \A j : IsLoop(s, j) <=> IsLoop([s EXCEPT ![i] = f], j)
         /\ \A j : IsLoop(s, j) /\ j # i => [s EXCEPT ![i] = f][j] = s[j]
<1> DEFINE t == [s EXCEPT ![i] = f]
<1>1. s \in Seq(Frames) /\ \A j \in DOMAIN s : Fits(s, j)
  BY DEF Sound
<1>2. Len(s) \in Nat /\ DOMAIN s = 1 .. Len(s)
  BY <1>1, Lengths, Zenon
<1>3. i \in 1 .. Len(s) /\ s[i].at = "loop"
  BY <1>2 DEF IsLoop
<1>4. t \in Seq(Frames) /\ Len(t) = Len(s) /\ (\A j \in 1 .. Len(s) : j # i => t[j] = s[j]) /\ t[i] = f
  BY <1>1, <1>3, Put
<1> HIDE DEF t
<1>5. DOMAIN t = DOMAIN s
  BY <1>2, <1>4, Lengths, Zenon
<1>6. \A j \in DOMAIN s : t[j].at = s[j].at /\ (s[j].at # "loop" => t[j] = s[j])
  BY <1>2, <1>3, <1>4, Zenon
<1>7. ASSUME NEW j \in DOMAIN s
      PROVE  Fits(t, j)
    <2>1. \A S : Below(t, j, S) <=> Below(s, j, S)
      <3>1. \A l \in 1 .. j - 1 : l \in DOMAIN s
        BY ONLY <1>2, j \in DOMAIN s
      <3> QED
        BY <1>6, <3>1, Zenon DEF Below
    <2> QED
      BY <1>1, <1>6, <2>1, Zenon DEF Fits
<1>8. Sound(t)
  BY <1>4, <1>5, <1>7, Zenon DEF Sound
<1>9. /\ \A j : IsLoop(s, j) <=> IsLoop(t, j)
      /\ \A j : IsLoop(s, j) /\ j # i => t[j] = s[j]
  BY <1>2, <1>4, <1>5, <1>6, Zenon DEF IsLoop
<1>10. NoNewStart(s, t) /\ SameBodies(s, t)
  BY <1>5, <1>6, Zenon DEF NoNewStart, SameBodies
<1> QED
  BY <1>4, <1>8, <1>9, <1>10, Zenon DEF t

LEMMA Ranks == Rank("body") = 1 /\ Rank("idle") = 2 /\ Rank("quit") = 3
BY DEF Rank

(* A quit has run: of its loop nothing is behind it that it would spoil.   *)
LEMMA QuitRuns ==
  ASSUME TypeOK, LoopInv, queue # <<>>, queue' = Tail(queue), late' = late,
         NEW i, i = Head(queue).loop,
         \A j : IsLoop(stack, j) <=> IsLoop(stack', j),
         \A j : IsLoop(stack, j) /\ j # i => stack'[j] = stack[j],
         \/ Head(queue).what = "quit" /\ stack'[i].quit = TRUE
         \/ Head(queue).what = "idle" /\ stack'[i].quit = stack[i].quit
  PROVE  LoopInv'
<1>1. /\ Head(queue) = queue[1] /\ 1 \in DOMAIN queue
      /\ \A k \in DOMAIN queue' : k \in Nat /\ k + 1 \in DOMAIN queue /\ queue'[k] = queue[k + 1]
                                  /\ 1 < k + 1
      /\ \A l \in DOMAIN queue : l = 1 \/ (l - 1 \in DOMAIN queue' /\ (l - 1) + 1 = l)
      /\ \A k \in DOMAIN queue : queue[k] \in Tasks
  BY QueueSize, Zenon
<1>2. IsLoop(stack, i) /\ ~stack[i].quit /\ (Head(queue).what = "quit" => i \notin late)
  BY <1>1 DEF LoopInv, QueueInv
<1>3. LateInv'
  BY <1>2 DEF LoopInv, LateInv
<1>4. ASSUME NEW k \in DOMAIN queue', queue'[k].loop = i
      PROVE  Head(queue).what = "idle" /\ queue'[k].what = "quit"
  <2>1. Rank(queue[1].what) < Rank(queue[k + 1].what)
    BY <1>1, <1>4 DEF LoopInv, OrderInv
  <2>2. queue[k + 1].what \in {"body", "quit", "idle"} /\ queue[1].what \in {"quit", "idle"}
    BY <1>1 DEF Tasks
  <2> QED
    BY <1>1, <2>1, <2>2, Ranks
<1>5. QueueInv'
  <2> SUFFICES ASSUME NEW k \in DOMAIN queue'
               PROVE  /\ IsLoop(stack', queue'[k].loop) /\ ~stack'[queue'[k].loop].quit
                      /\ queue'[k].what = "body" => ~stack'[queue'[k].loop].idle
                      /\ queue'[k].what = "quit" => queue'[k].loop \notin late'
    BY DEF QueueInv
  <2>1. /\ IsLoop(stack, queue'[k].loop) /\ ~stack[queue'[k].loop].quit
        /\ queue'[k].what = "body" => ~stack[queue'[k].loop].idle
        /\ queue'[k].what = "quit" => queue'[k].loop \notin late
    <3>1. k + 1 \in DOMAIN queue /\ queue'[k] = queue[k + 1]
      BY <1>1
    <3>2. /\ IsLoop(stack, queue[k + 1].loop) /\ ~stack[queue[k + 1].loop].quit
          /\ queue[k + 1].what = "body" => ~stack[queue[k + 1].loop].idle
          /\ queue[k + 1].what = "quit" => queue[k + 1].loop \notin late
      BY <3>1 DEF LoopInv, QueueInv
    <3> QED
      BY ONLY <3>1, <3>2
  <2>2. CASE queue'[k].loop # i
    BY <2>1, <2>2
  <2>3. CASE queue'[k].loop = i
    BY <1>2, <1>4, <2>1, <2>3
  <2> QED
    BY <2>2, <2>3
<1>6. OrderInv'
  <2> SUFFICES ASSUME NEW k \in DOMAIN queue', NEW l \in DOMAIN queue',
                      queue'[k].loop = queue'[l].loop, k < l
               PROVE  Rank(queue'[k].what) < Rank(queue'[l].what)
    BY DEF OrderInv
  <2>1. k + 1 < l + 1
    BY <1>1
  <2> QED
    BY <1>1, <2>1 DEF LoopInv, OrderInv
<1>7. EveryLoopWillQuit'
  <2>1. /\ \A j : j \in On({"loop"}) <=> IsLoop(stack, j)
        /\ \A j : j \in On({"loop"})' <=> IsLoop(stack', j)
    BY DEF On, IsLoop
  <2> SUFFICES ASSUME NEW j \in On({"loop"})'
               PROVE  \/ stack'[j].quit \/ j \in late'
                      \/ \E k \in DOMAIN queue' : queue'[k].what = "quit" /\ queue'[k].loop = j
    BY DEF EveryLoopWillQuit
  <2>2. CASE j = i /\ Head(queue).what = "quit"
    BY <2>2
  <2>3. CASE ~(j = i /\ Head(queue).what = "quit")
    <3>1. j \in On({"loop"}) /\ stack'[j].quit = stack[j].quit
      BY <2>1, <2>3
    <3>2. ASSUME NEW k \in DOMAIN queue, queue[k].what = "quit", queue[k].loop = j
          PROVE  \E l \in DOMAIN queue' : queue'[l].what = "quit" /\ queue'[l].loop = j
      <4>1. k # 1
        BY <1>1, <2>3, <3>2
      <4>2. k - 1 \in DOMAIN queue' /\ queue'[k - 1] = queue[k]
        BY <1>1, <4>1
      <4> QED
        BY <3>2, <4>2
    <3> QED
      BY <3>1, <3>2 DEF LoopInv, EveryLoopWillQuit
  <2> QED
    BY <2>2, <2>3
<1> QED
  BY <1>3, <1>5, <1>6, <1>7 DEF LoopInv

LEMMA RunQuitInv ==
  ASSUME Inv, RunQuit
  PROVE  Inv'
<1> DEFINE q == Head(queue)
           i == q.loop
           quits == [stack[i] EXCEPT !.quit = TRUE]
           idles == [stack[i] EXCEPT !.idle = TRUE]
<1>1. /\ MayRun /\ queue # <<>> /\ queue' = Tail(queue)
      /\ \/ q.what = "quit" /\ stack' = [stack EXCEPT ![i] = quits]
         \/ q.what = "idle" /\ stack' = [stack EXCEPT ![i] = idles]
      /\ UNCHANGED <<late, pages, loads, in_document_start, mouse_pressed, held, made>>
  BY DEF RunQuit
<1>2. q = queue[1] /\ 1 \in DOMAIN queue /\ Tail(queue) \in Seq(Tasks)
  BY <1>1, QueueSize DEF Inv
<1>3. IsLoop(stack, i) /\ Sound(stack) /\ stack \in Seq(Frames)
  BY <1>2 DEF Inv, LoopInv, QueueInv, Sound
<1>4. stack[i] \in Frames /\ stack[i].at = "loop"
  BY <1>3, Lengths, Zenon DEF IsLoop
<1>5. /\ quits \in Frames /\ quits.at = "loop" /\ quits.quit = TRUE
      /\ idles \in Frames /\ idles.at = "loop" /\ idles.quit = stack[i].quit
  BY <1>4, LoopsOnTheStack
<1> HIDE DEF quits, idles
<1>6. ASSUME NEW f \in Frames, f.at = "loop", stack' = [stack EXCEPT ![i] = f]
      PROVE  /\ Sound(stack') /\ NoNewStart(stack, stack') /\ SameBodies(stack, stack')
             /\ \A j : IsLoop(stack, j) <=> IsLoop(stack', j)
             /\ \A j : IsLoop(stack, j) /\ j # i => stack'[j] = stack[j]
             /\ stack'[i] = f
  <2> HIDE DEF q, i
  <2>1. Sound(stack) /\ IsLoop(stack, i) /\ f.at = "loop"
    BY <1>3, <1>6
  <2>2. /\ Sound([stack EXCEPT ![i] = f]) /\ [stack EXCEPT ![i] = f][i] = f
        /\ NoNewStart(stack, [stack EXCEPT ![i] = f]) /\ SameBodies(stack, [stack EXCEPT ![i] = f])
        /\ \A j : IsLoop(stack, j) <=> IsLoop([stack EXCEPT ![i] = f], j)
        /\ \A j : IsLoop(stack, j) /\ j # i => [stack EXCEPT ![i] = f][j] = stack[j]
    BY ONLY <2>1, f \in Frames, PutInLoop
  <2> QED
    BY <1>6, <2>2
<1>7. /\ Sound(stack') /\ NoNewStart(stack, stack') /\ SameBodies(stack, stack')
      /\ LoopInv'
  <2>1. CASE q.what = "quit" /\ stack' = [stack EXCEPT ![i] = quits]
    <3>1. /\ Sound(stack') /\ NoNewStart(stack, stack') /\ SameBodies(stack, stack')
          /\ \A j : IsLoop(stack, j) <=> IsLoop(stack', j)
          /\ \A j : IsLoop(stack, j) /\ j # i => stack'[j] = stack[j]
          /\ stack'[i].quit = TRUE
      BY <1>5, <1>6, <2>1, Zenon
    <3> HIDE DEF q, i
    <3>2. TypeOK /\ LoopInv /\ i = q.loop
      BY DEF Inv, i
    <3> QED
      BY <1>1, <2>1, <3>1, <3>2, QuitRuns, Zenon DEF q
  <2>2. CASE q.what = "idle" /\ stack' = [stack EXCEPT ![i] = idles]
    <3>1. /\ Sound(stack') /\ NoNewStart(stack, stack') /\ SameBodies(stack, stack')
          /\ \A j : IsLoop(stack, j) <=> IsLoop(stack', j)
          /\ \A j : IsLoop(stack, j) /\ j # i => stack'[j] = stack[j]
          /\ stack'[i].quit = stack[i].quit
      BY <1>5, <1>6, <2>2, Zenon
    <3> HIDE DEF q, i
    <3>2. TypeOK /\ LoopInv /\ i = q.loop
      BY DEF Inv, i
    <3> QED
      BY <1>1, <2>2, <3>1, <3>2, QuitRuns, Zenon DEF q
  <2> QED
    BY <1>1, <2>1, <2>2
<1>8. StartInv' /\ HeldInv'
  BY <1>1, <1>7, StartKept, HeldKept DEF Inv
<1>9. TypeOK'
  BY <1>1, <1>2, <1>7 DEF Inv, TypeOK, Sound
<1> QED
  BY <1>7, <1>8, <1>9 DEF Inv

(* The loop on top returns: nothing in the queue is for it.                *)
LEMMA LoopReturnsInv ==
  ASSUME Inv, LoopReturns
  PROVE  Inv'
<1> DEFINE n == Len(stack)
<1>1. /\ stack # <<>> /\ Top.at = "loop" /\ stack' = Front(stack) /\ late' = late \ {n}
      /\ Top.quit \/ queue = <<>>
      /\ UNCHANGED <<queue, pages, loads, in_document_start, mouse_pressed, held, made>>
  BY DEF LoopReturns, Is, Pop
<1>2. Sound(stack) /\ stack \in Seq(Frames) /\ Top = stack[n]
  BY DEF Inv, Sound, Top
<1>3. n \in Nat /\ n >= 1 /\ DOMAIN stack = 1 .. n
  BY <1>1, <1>2, Lengths, Zenon
<1>4. /\ Sound(stack') /\ stack' \in Seq(Frames)
      /\ NoNewStart(stack, stack') /\ SameBodies(stack, stack')
  <2>1. Sound(Front(stack))
    BY <1>1, <1>2, PopIsSound
  <2>2. NoNewStart(stack, Front(stack)) /\ SameBodies(stack, Front(stack))
    BY <1>1, <1>2, PopLeaves
  <2> QED
    BY <1>1, <2>1, <2>2 DEF Sound
<1>5. /\ \A i : IsLoop(stack', i) <=> (IsLoop(stack, i) /\ i # n)
      /\ \A i : IsLoop(stack', i) => stack'[i] = stack[i]
  <2>1. Len(stack') = n - 1 /\ \A i \in 1 .. n - 1 : stack'[i] = stack[i]
    BY <1>1, <1>2, Popped, Zenon
  <2>2. DOMAIN stack' = 1 .. n - 1
    BY <1>4, <2>1, Lengths, Zenon
  <2>3. \A i : i \in 1 .. n - 1 <=> (i \in DOMAIN stack /\ i # n)
    BY ONLY <1>3
  <2> HIDE DEF n
  <2> QED
    BY <2>1, <2>2, <2>3, Zenon DEF IsLoop
<1>6. \A k \in DOMAIN queue : queue[k].loop # n
  <2> SUFFICES ASSUME NEW k \in DOMAIN queue, queue[k].loop = n
               PROVE  FALSE
    OBVIOUS
  <2>1. ~stack[n].quit
    BY DEF Inv, LoopInv, QueueInv
  <2>2. queue = <<>>
    BY <1>1, <1>2, <2>1
  <2> QED
    BY <2>2
<1> HIDE DEF n
<1>7. LoopInv'
  <2>1. LateInv'
    BY <1>1, <1>5 DEF Inv, LoopInv, LateInv
  <2>2. QueueInv'
    BY <1>1, <1>5, <1>6 DEF Inv, LoopInv, QueueInv
  <2>3. OrderInv'
    BY <1>1 DEF Inv, LoopInv, OrderInv
  <2>4. EveryLoopWillQuit'
    <3>1. /\ \A i : i \in On({"loop"}) <=> IsLoop(stack, i)
          /\ \A i : i \in On({"loop"})' <=> IsLoop(stack', i)
      BY DEF On, IsLoop
    <3> SUFFICES ASSUME NEW i \in On({"loop"})'
                 PROVE  \/ stack'[i].quit \/ i \in late'
                        \/ \E k \in DOMAIN queue' : queue'[k].what = "quit" /\ queue'[k].loop = i
      BY DEF EveryLoopWillQuit
    <3>2. i \in On({"loop"}) /\ stack'[i] = stack[i] /\ i # n
      BY <1>5, <3>1
    <3> QED
      BY <1>1, <3>2 DEF Inv, LoopInv, EveryLoopWillQuit
  <2> QED
    BY <2>1, <2>2, <2>3, <2>4 DEF LoopInv
<1>8. StartInv' /\ HeldInv'
  BY <1>1, <1>4, StartKept, HeldKept DEF Inv
<1>9. TypeOK'
  BY <1>1, <1>4 DEF Inv, TypeOK
<1> QED
  BY <1>4, <1>7, <1>8, <1>9 DEF Inv

(* The queue with an entry behind it.                                      *)
LEMMA QueueGrows ==
  ASSUME TypeOK, NEW q \in Tasks, queue' = Append(queue, q)
  PROVE  /\ queue' \in Seq(Tasks) /\ Len(queue) + 1 \in DOMAIN queue' /\ queue'[Len(queue) + 1] = q
         /\ \A k \in DOMAIN queue : k \in DOMAIN queue' /\ queue'[k] = queue[k] /\ k < Len(queue) + 1
         /\ \A k \in DOMAIN queue' : k \in DOMAIN queue \/ k = Len(queue) + 1
<1> DEFINE n == Len(queue)
<1>1. queue \in Seq(Tasks)
  BY DEF TypeOK
<1>2. n \in Nat /\ DOMAIN queue = 1 .. n
  BY <1>1, Lengths, Zenon
<1>3. queue' \in Seq(Tasks) /\ Len(queue') = n + 1 /\ (\A i \in 1 .. n : queue'[i] = queue[i])
      /\ queue'[n + 1] = q
  BY <1>1, Pushed, Zenon
<1>4. DOMAIN queue' = 1 .. n + 1
  BY <1>3, Lengths, Zenon
<1> HIDE DEF n
<1>5. /\ n + 1 \in DOMAIN queue' /\ \A k \in DOMAIN queue : k \in DOMAIN queue' /\ k < n + 1
      /\ \A k \in DOMAIN queue' : k \in DOMAIN queue \/ k = n + 1
  BY ONLY <1>2, <1>4
<1> QED
  BY <1>2, <1>3, <1>5, Zenon DEF n

LEMMA QuitFallsDueInv ==
  ASSUME Inv, NEW id, QuitFallsDue(id)
  PROVE  Inv'
<1> DEFINE q == [what |-> "quit", loop |-> id, events |-> <<>>]
           n == Len(queue)
<1>1. /\ id \in late /\ late' = late \ {id} /\ queue' = Append(queue, q)
      /\ UNCHANGED <<stack, pages, loads, in_document_start, mouse_pressed, held, made>>
  BY DEF QuitFallsDue
<1>2. q \in Tasks /\ q.what = "quit" /\ q.loop = id
  BY <1>1, NoEvents DEF Inv, TypeOK, Tasks
<1> HIDE DEF q
<1>3. /\ queue' \in Seq(Tasks) /\ n + 1 \in DOMAIN queue' /\ queue'[n + 1] = q
      /\ \A k \in DOMAIN queue : k \in DOMAIN queue' /\ queue'[k] = queue[k] /\ k < n + 1
      /\ \A k \in DOMAIN queue' : k \in DOMAIN queue \/ k = n + 1
  BY <1>1, <1>2, QueueGrows DEF Inv
<1>4. n \in Nat /\ DOMAIN queue \subseteq Nat /\ \A k \in DOMAIN queue : queue[k] \in Tasks
  BY QueueSize DEF Inv
<1> HIDE DEF n
<1>5. IsLoop(stack, id) /\ ~stack[id].quit
  BY <1>1 DEF Inv, LoopInv, LateInv
<1>6. LoopInv'
  <2>1. LateInv'
    BY <1>1 DEF Inv, LoopInv, LateInv
  <2>2. QueueInv'
    <3> SUFFICES ASSUME NEW k \in DOMAIN queue'
                 PROVE  /\ IsLoop(stack, queue'[k].loop) /\ ~stack[queue'[k].loop].quit
                        /\ queue'[k].what = "body" => ~stack[queue'[k].loop].idle
                        /\ queue'[k].what = "quit" => queue'[k].loop \notin late'
      BY <1>1 DEF QueueInv
    <3>1. CASE k = n + 1
      BY <1>1, <1>2, <1>3, <1>5, <3>1
    <3>2. CASE k \in DOMAIN queue
      BY <1>1, <1>3, <3>2 DEF Inv, LoopInv, QueueInv
    <3> QED
      BY <1>3, <3>1, <3>2
  <2>3. OrderInv'
    <3> SUFFICES ASSUME NEW k \in DOMAIN queue', NEW l \in DOMAIN queue',
                        queue'[k].loop = queue'[l].loop, k < l
                 PROVE  Rank(queue'[k].what) < Rank(queue'[l].what)
      BY DEF OrderInv
    <3>1. CASE k \in DOMAIN queue /\ l \in DOMAIN queue
      BY <1>3, <3>1 DEF Inv, LoopInv, OrderInv
    <3>2. CASE k \in DOMAIN queue /\ l = n + 1
      <4>1. queue[k].loop = id
        BY <1>2, <1>3, <3>2
      <4>2. queue[k].what \in {"body", "idle"}
        <5>1. queue[k].what # "quit"
          BY <1>1, <3>2, <4>1 DEF Inv, LoopInv, QueueInv
        <5> QED
          BY <1>4, <3>2, <5>1 DEF Tasks
      <4> QED
        BY <1>2, <1>3, <3>2, <4>2, Ranks
    <3>3. CASE k = n + 1
      <4>1. \A j \in DOMAIN queue' : j <= n + 1
        BY <1>3, <1>4
      <4>2. l \in Nat
        BY <1>3, <1>4
      <4> QED
        BY <1>4, <3>3, <4>1, <4>2
    <3> QED
      BY <1>3, <3>1, <3>2, <3>3
  <2>4. EveryLoopWillQuit'
    <3> SUFFICES ASSUME NEW i \in On({"loop"})
                 PROVE  \/ stack[i].quit \/ i \in late'
                        \/ \E k \in DOMAIN queue' : queue'[k].what = "quit" /\ queue'[k].loop = i
      BY <1>1 DEF EveryLoopWillQuit, On
    <3>1. CASE i = id
      BY <1>2, <1>3, <3>1
    <3>2. CASE i # id
      BY <1>1, <1>3, <3>2 DEF Inv, LoopInv, EveryLoopWillQuit
    <3> QED
      BY <3>1, <3>2
  <2> QED
    BY <2>1, <2>2, <2>3, <2>4 DEF LoopInv
<1>7. Sound(stack)' /\ StartInv' /\ HeldInv'
  <2>1. Sound(stack')
    BY <1>1 DEF Inv
  <2>2. StartInv'
    BY <1>1 DEF Inv, StartInv
  <2>3. HeldInv'
    BY <1>1 DEF Inv, HeldInv
  <2> QED
    BY <2>1, <2>2, <2>3
<1>8. TypeOK'
  BY <1>1, <1>3 DEF Inv, TypeOK
<1> QED
  BY <1>6, <1>7, <1>8 DEF Inv

LEMMA TaskIsReadyInv ==
  ASSUME Inv, TaskIsReady
  PROVE  Inv'
<1>1. /\ UNCHANGED <<stack, queue, late, in_document_start, mouse_pressed, held>>
      /\ \/ made' = [made EXCEPT !.pages = @ + 1] /\ pages' = pages + 1 /\ loads' = loads
         \/ made' = [made EXCEPT !.loads = @ + 1] /\ loads' = loads + 1 /\ pages' = pages
  BY DEF TaskIsReady
<1>2. Sound(stack') /\ Quiet(stack, stack')
  BY <1>1 DEF Inv, Quiet, SameLoops, NoNewStart, SameBodies
<1>3. LoopInv' /\ Sound(stack)' /\ StartInv' /\ HeldInv'
  BY <1>1, <1>2, Kept
<1>4. made' \in [calls : Nat, pages : Nat, loads : Nat]
  BY <1>1, Counts, Zenon DEF Inv, TypeOK
<1>5. pages' \in Nat /\ loads' \in Nat
  BY <1>1 DEF Inv, TypeOK
<1>6. TypeOK'
  BY <1>1, <1>4, <1>5 DEF Inv, TypeOK
<1> QED
  BY <1>3, <1>6 DEF Inv

LEMMA QueueGrowsByTwo ==
  ASSUME TypeOK, NEW b \in Tasks, NEW q \in Tasks, queue' = queue \o <<b, q>>
  PROVE  /\ queue' \in Seq(Tasks)
         /\ Len(queue) + 1 \in DOMAIN queue' /\ queue'[Len(queue) + 1] = b
         /\ Len(queue) + 2 \in DOMAIN queue' /\ queue'[Len(queue) + 2] = q
         /\ \A k \in DOMAIN queue : k \in DOMAIN queue' /\ queue'[k] = queue[k]
         /\ \A k \in DOMAIN queue' :
              k \in DOMAIN queue \/ k = Len(queue) + 1 \/ k = Len(queue) + 2
         /\ Len(queue) \in Nat /\ DOMAIN queue = 1 .. Len(queue)
<1> DEFINE n == Len(queue)
           t == <<b, q>>
<1>1. queue \in Seq(Tasks)
  BY DEF TypeOK
<1>2. t \in Seq(Tasks) /\ Len(t) = 2 /\ t[1] = b /\ t[2] = q
  OBVIOUS
<1> HIDE DEF t
<1>3. n \in Nat /\ DOMAIN queue = 1 .. n
  BY <1>1, Lengths, Zenon
<1>4. /\ queue \o t \in Seq(Tasks) /\ Len(queue \o t) = n + 2
      /\ \A i \in 1 .. n + 2 : (queue \o t)[i] = IF i <= n THEN queue[i] ELSE t[i - n]
  <2>1. /\ queue \o t \in Seq(Tasks) /\ Len(queue \o t) = Len(queue) + Len(t)
        /\ \A i \in 1 .. Len(queue) + Len(t) :
             (queue \o t)[i] = IF i <= Len(queue) THEN queue[i] ELSE t[i - Len(queue)]
    BY <1>1, <1>2, ConcatProperties
  <2> QED
    BY <1>2, <2>1, Zenon
<1>5. queue' = queue \o t
  BY DEF t
<1>6. DOMAIN queue' = 1 .. n + 2
  BY <1>4, <1>5, Lengths, Zenon
<1> HIDE DEF n
<1>7. /\ n + 1 \in 1 .. n + 2 /\ n + 2 \in 1 .. n + 2 /\ ~(n + 1 <= n) /\ ~(n + 2 <= n)
      /\ (n + 1) - n = 1 /\ (n + 2) - n = 2
      /\ \A k \in 1 .. n : k \in 1 .. n + 2 /\ k <= n
      /\ \A k \in 1 .. n + 2 : k \in 1 .. n \/ k = n + 1 \/ k = n + 2
  BY ONLY <1>3
<1>8. queue'[n + 1] = b /\ queue'[n + 2] = q
  BY <1>2, <1>4, <1>5, <1>7
<1>9. \A k \in DOMAIN queue : queue'[k] = queue[k]
  BY <1>3, <1>4, <1>5, <1>7
<1> QED
  BY <1>3, <1>4, <1>5, <1>6, <1>7, <1>8, <1>9, Zenon DEF n

(* A new loop, of which the id is no other's: its body and its quits.      *)
LEMMA LoopStarts ==
  ASSUME TypeOK, LoopInv, NEW id, NEW b \in Tasks, NEW q \in Tasks,
         queue' = queue \o <<b, q>>, b.what = "body", b.loop = id, q.loop = id,
         \/ q.what = "quit" /\ late' = late
         \/ q.what = "idle" /\ late' = late \cup {id},
         \A i : IsLoop(stack, i) => IsLoop(stack', i) /\ stack'[i] = stack[i] /\ i # id,
         \A i : IsLoop(stack', i) => IsLoop(stack, i) \/ i = id,
         IsLoop(stack', id), ~stack'[id].quit, ~stack'[id].idle
  PROVE  LoopInv'
<1> DEFINE n == Len(queue)
<1>1. /\ n + 1 \in DOMAIN queue' /\ queue'[n + 1] = b /\ n + 2 \in DOMAIN queue' /\ queue'[n + 2] = q
      /\ \A k \in DOMAIN queue : k \in DOMAIN queue' /\ queue'[k] = queue[k]
      /\ \A k \in DOMAIN queue' : k \in DOMAIN queue \/ k = n + 1 \/ k = n + 2
      /\ n \in Nat /\ DOMAIN queue = 1 .. n
  BY QueueGrowsByTwo
<1> HIDE DEF n
<1>2. id \notin late /\ \A k \in DOMAIN queue : queue[k].loop # id
  BY DEF LoopInv, LateInv, QueueInv
<1>3. LateInv'
  BY DEF LoopInv, LateInv
<1>4. QueueInv'
  <2> SUFFICES ASSUME NEW k \in DOMAIN queue'
               PROVE  /\ IsLoop(stack', queue'[k].loop) /\ ~stack'[queue'[k].loop].quit
                      /\ queue'[k].what = "body" => ~stack'[queue'[k].loop].idle
                      /\ queue'[k].what = "quit" => queue'[k].loop \notin late'
    BY DEF QueueInv
  <2>1. CASE k = n + 1
    BY <1>1, <2>1
  <2>2. CASE k = n + 2
    BY <1>1, <1>2, <2>2
  <2>3. CASE k \in DOMAIN queue
    <3>1. /\ IsLoop(stack, queue[k].loop) /\ ~stack[queue[k].loop].quit
          /\ queue[k].what = "body" => ~stack[queue[k].loop].idle
          /\ queue[k].what = "quit" => queue[k].loop \notin late
      BY <2>3 DEF LoopInv, QueueInv
    <3> QED
      BY <1>1, <1>2, <2>3, <3>1
  <2> QED
    BY <1>1, <2>1, <2>2, <2>3
<1>5. OrderInv'
  <2> SUFFICES ASSUME NEW k \in DOMAIN queue', NEW l \in DOMAIN queue',
                      queue'[k].loop = queue'[l].loop, k < l
               PROVE  Rank(queue'[k].what) < Rank(queue'[l].what)
    BY DEF OrderInv
  <2>1. CASE k \in DOMAIN queue /\ l \in DOMAIN queue
    BY <1>1, <2>1 DEF LoopInv, OrderInv
  <2>2. k \in DOMAIN queue <=> l \in DOMAIN queue
    BY <1>1, <1>2
  <2>3. CASE k \notin DOMAIN queue /\ l \notin DOMAIN queue
    <3>1. k = n + 1 /\ l = n + 2
      BY <1>1, <2>3
    <3> QED
      BY <1>1, <3>1, Ranks
  <2> QED
    BY <2>1, <2>2, <2>3
<1>6. EveryLoopWillQuit'
  <2>1. /\ \A i : i \in On({"loop"}) <=> IsLoop(stack, i)
        /\ \A i : i \in On({"loop"})' <=> IsLoop(stack', i)
    BY DEF On, IsLoop
  <2> SUFFICES ASSUME NEW i \in On({"loop"})'
               PROVE  \/ stack'[i].quit \/ i \in late'
                      \/ \E k \in DOMAIN queue' : queue'[k].what = "quit" /\ queue'[k].loop = i
    BY DEF EveryLoopWillQuit
  <2>2. CASE i = id
    BY <1>1, <2>2
  <2>3. CASE i # id
    <3>1. i \in On({"loop"}) /\ stack'[i] = stack[i]
      BY <2>1, <2>3
    <3> QED
      BY <1>1, <3>1 DEF LoopInv, EveryLoopWillQuit
  <2> QED
    BY <2>2, <2>3
<1> QED
  BY <1>3, <1>4, <1>5, <1>6 DEF LoopInv

LEMMA RunInFrameTaskInv ==
  ASSUME OneView, Inv, RunInFrameTask
  PROVE  Inv'
<1> DEFINE id == Len(stack) + 1
           f == [at |-> "loop", quit |-> FALSE, idle |-> FALSE]
           b == Posted("body", id)
           q == Posted(Quit, id)
<1>1. /\ Is("call") /\ Top.steps # <<>> /\ Step.how \in {"task", "settle"}
      /\ \/ stack' = Append(Caller, Body("inline")) /\ UNCHANGED <<queue, late>>
         \/ /\ ~in_document_start[Top.view]
            /\ stack' = Append(Caller, f)
            /\ queue' = queue \o <<b, q>>
            /\ late' = IF Step.how = "settle" THEN late \cup {id} ELSE late
      /\ UNCHANGED <<pages, loads, in_document_start, mouse_pressed, held, made>>
  BY DEF RunInFrameTask, Inline, Posts
<1>2. /\ Sound(Caller) /\ Quiet(stack, Caller) /\ Caller \in Seq(Frames)
      /\ Step.events \in Runs /\ Top.view \in Views /\ Len(Caller) = Len(stack)
      /\ \A S : Within(Caller, S) <=> Within(Front(stack), S) \/ "call" \in S
  BY <1>1, NextStep
<1>3. ASSUME stack' = Append(Caller, Body("inline")), UNCHANGED <<queue, late>>
      PROVE  Inv'
  <2>1. Body("inline") \in Frames /\ Body("inline").at = "body"
    BY <1>2, NewFrames DEF Body
  <2>2. OnTop(Caller, Body("inline"))
    BY <2>1 DEF OnTop
  <2>3. Sound(stack') /\ Quiet(stack, stack') /\ stack' \in Seq(Frames)
    BY <1>2, <1>3, <2>1, <2>2, PushOn
  <2>4. LoopInv' /\ Sound(stack)' /\ StartInv' /\ HeldInv'
    BY <1>1, <1>3, <2>3, Kept
  <2>5. TypeOK'
    BY <1>1, <1>3, <2>3 DEF Inv, TypeOK
  <2> QED
    BY <2>4, <2>5 DEF Inv
<1>4. ASSUME ~in_document_start[Top.view], stack' = Append(Caller, f), queue' = queue \o <<b, q>>,
             late' = IF Step.how = "settle" THEN late \cup {id} ELSE late
      PROVE  Inv'
  <2>1. f \in Frames /\ f.at = "loop" /\ ~f.quit /\ ~f.idle
    BY NewFrames
  <2>2. stack \in Seq(Frames) /\ stack # <<>>
    BY <1>1 DEF Inv, Sound, Is
  <2>3. Len(stack) \in Nat /\ Len(stack) >= 1
    BY <2>2, Lengths
  <2>4. id \in Nat
    BY <2>3
  <2>5. /\ b \in Tasks /\ b.what = "body" /\ b.loop = id
        /\ q \in Tasks /\ q.loop = id /\ (q.what = IF Step.how = "settle" THEN "idle" ELSE "quit")
    <3> HIDE DEF id
    <3> QED
      BY <1>2, <2>4, NoEvents DEF Posted, Quit, Tasks
  <2>6. \/ q.what = "quit" /\ late' = late
        \/ q.what = "idle" /\ late' = late \cup {id}
    BY <1>4, <2>5
  <2>7. ~Within(Caller, {"start"})
    <3>1. \A i \in DOMAIN stack : stack[i].at # "start"
      <4> SUFFICES ASSUME NEW i \in DOMAIN stack, stack[i].at = "start" PROVE FALSE
        OBVIOUS
      <4>1. stack[i] \in Frames
        BY <2>2, Lengths
      <4>2. stack[i].view \in Views
        BY <4>1, FramesOfOneView
      <4>3. in_document_start[stack[i].view]
        BY DEF Inv, StartInv
      <4> QED
        BY <1>2, <1>4, <4>2, <4>3 DEF OneView
    <3>2. ~Within(stack, {"start"})
      BY <3>1 DEF Within
    <3>3. ~Within(Front(stack), {"start"})
      BY <2>2, <3>2, TopFits, Zenon DEF Inv
    <3> QED
      BY <1>2, <3>3
  <2>8. Len(Caller) + 1 = id
    BY <1>2
  <2> HIDE DEF f, b, q, id
  <2>9. OnTop(Caller, f)
    BY <2>1, <2>7 DEF OnTop
  <2>10. Sound(stack') /\ stack' \in Seq(Frames)
    BY <1>2, <1>4, <2>1, <2>9, PushIsSound DEF Sound
  <2>11. /\ \A i : IsLoop(Caller, i) => IsLoop(stack', i) /\ stack'[i] = Caller[i] /\ i # id
         /\ \A i : IsLoop(stack', i) => IsLoop(Caller, i) \/ i = id
         /\ stack'[id] = f /\ id \in DOMAIN stack'
         /\ NoNewStart(Caller, stack') /\ SameBodies(Caller, stack')
    <3>1. /\ \A i : IsLoop(Caller, i) =>
                      IsLoop(Append(Caller, f), i) /\ Append(Caller, f)[i] = Caller[i]
                      /\ i # Len(Caller) + 1
          /\ \A i : IsLoop(Append(Caller, f), i) =>
                      IsLoop(Caller, i) \/ (i = Len(Caller) + 1 /\ f.at = "loop")
          /\ Append(Caller, f)[Len(Caller) + 1] = f
          /\ Len(Caller) + 1 \in DOMAIN Append(Caller, f)
          /\ f.at # "start" => NoNewStart(Caller, Append(Caller, f))
          /\ SameBodies(Caller, Append(Caller, f))
      BY <1>2, <2>1, PushLeaves, Zenon
    <3>2. f.at # "start"
      BY <2>1
    <3> QED
      BY <1>4, <2>8, <3>1, <3>2, Zenon
  <2>12. /\ \A i : IsLoop(stack, i) => IsLoop(stack', i) /\ stack'[i] = stack[i] /\ i # id
         /\ \A i : IsLoop(stack', i) => IsLoop(stack, i) \/ i = id
         /\ IsLoop(stack', id) /\ ~stack'[id].quit /\ ~stack'[id].idle
    <3>1. IsLoop(stack', id) /\ ~stack'[id].quit /\ ~stack'[id].idle
      BY <2>1, <2>11, Zenon DEF IsLoop
    <3> QED
      BY <1>2, <2>11, <3>1, Zenon DEF Quiet, SameLoops
  <2>13. NoNewStart(stack, stack') /\ SameBodies(stack, stack')
    BY <1>2, <2>11, Zenon DEF Quiet, NoNewStart, SameBodies
  <2>14. LoopInv'
    BY <1>4, <2>5, <2>6, <2>12, LoopStarts DEF Inv
  <2>15. StartInv' /\ HeldInv'
    BY <1>1, <2>13, StartKept, HeldKept DEF Inv
  <2>16. TypeOK'
    <3>1. queue' \in Seq(Tasks)
      BY <1>4, <2>5, QueueGrowsByTwo DEF Inv
    <3>2. late' \subseteq Nat
      BY <1>4, <2>4 DEF Inv, TypeOK
    <3> QED
      BY <1>1, <2>10, <3>1, <3>2 DEF Inv, TypeOK
  <2> QED
    BY <2>10, <2>14, <2>15, <2>16 DEF Inv
<1> QED
  BY <1>1, <1>3, <1>4

(* What comes up in a run after its first event does in what is left.      *)
LEMMA ComesUpLater ==
  ASSUME NEW r \in Runs, r # <<>>, NEW m
  PROVE  /\ \A k \in DOMAIN r : k # 1 /\ r[k] \in Ups[m] =>
              \E l \in DOMAIN Tail(r) : Tail(r)[l] \in Ups[m]
         /\ m \in DOMAIN Ups /\ r[1] \in Downs[m] /\ r[1] # "mouse down" =>
              \E l \in DOMAIN Tail(r) : Tail(r)[l] \in Ups[m]
<1>1. r \in Seq(Events) /\ ComesUp(r)
  BY DEF Runs
<1>2. Len(r) \in Nat /\ DOMAIN r = 1 .. Len(r)
  BY <1>1, Lengths, Zenon
<1>3. /\ 1 \in DOMAIN r /\ DOMAIN Tail(r) = 1 .. Len(r) - 1
      /\ \A k \in DOMAIN Tail(r) : Tail(r)[k] = r[k + 1]
  BY RunsTail, Zenon
<1>4. \A k \in DOMAIN r : k # 1 => k - 1 \in DOMAIN Tail(r) /\ (k - 1) + 1 = k
  BY ONLY <1>2, <1>3
<1>5. \A k \in DOMAIN r : k # 1 /\ r[k] \in Ups[m] =>
        \E l \in DOMAIN Tail(r) : Tail(r)[l] \in Ups[m]
  BY <1>3, <1>4
<1>6. ASSUME m \in DOMAIN Ups, r[1] \in Downs[m], r[1] # "mouse down"
      PROVE  \E l \in DOMAIN Tail(r) : Tail(r)[l] \in Ups[m]
  <2>1. PICK k \in DOMAIN r : 1 < k /\ r[k] \in Ups[m]
    BY <1>1, <1>3, <1>6 DEF ComesUp
  <2>2. k # 1
    BY <2>1
  <2> QED
    BY <1>5, <2>1, <2>2
<1> QED
  BY <1>5, <1>6

(* An event is dispatched.                                                 *)
LEMMA DispatchInv ==
  ASSUME Inv, Dispatch
  PROVE  Inv'
<1> DEFINE n == Len(stack)
           r == Top.events
           e == r[1]
           g == [Top EXCEPT !.events = Tail(r)]
           h == [at |-> "host"]
           below == Front(stack)
           t == Append(below, g)
<1>1. /\ stack # <<>> /\ Top.at = "body" /\ r # <<>>
      /\ held' = (held \ {m \in DOMAIN Ups : e \in Ups[m]}) \cup {m \in DOMAIN Downs : e \in Downs[m]}
      /\ mouse_pressed' = (e = "mouse down" \/ (mouse_pressed /\ e # "mouse up"))
      /\ stack' = t \/ stack' = Append(t, h)
      /\ UNCHANGED <<queue, late, pages, loads, in_document_start, made>>
  BY DEF Dispatch, Sees, Enter, Is
<1>2. stack \in Seq(Frames) /\ Sound(stack) /\ Top = stack[n]
  BY DEF Inv, Sound, Top
<1>3. n \in Nat /\ n >= 1 /\ DOMAIN stack = 1 .. n
  BY <1>1, <1>2, Lengths, Zenon
<1>4. Top \in Frames
  BY <1>1, <1>2, TopOfTheStack
<1>5. r \in Runs
  BY <1>1, <1>4, BodiesOnTheStack
<1>6. Tail(r) \in Runs
  BY <1>1, <1>5, RunsTail
<1>7. g \in Frames /\ g.at = "body" /\ g.events = Tail(r)
  BY <1>1, <1>4, <1>6, BodiesOnTheStack
<1>8. h \in Frames /\ h.at = "host"
  BY NewFrames
<1>9. /\ Sound(below) /\ below \in Seq(Frames) /\ SameLoops(stack, below) /\ NoNewStart(stack, below)
      /\ Len(below) = n - 1 /\ \A i \in 1 .. n - 1 : below[i] = stack[i]
  <2>1. Sound(Front(stack))
    BY <1>1, <1>2, PopIsSound
  <2>2. Top.at # "loop"
    BY <1>1
  <2>3. SameLoops(stack, Front(stack)) /\ NoNewStart(stack, Front(stack))
    BY <1>1, <1>2, <2>2, PopLeaves
  <2>4. Len(Front(stack)) = Len(stack) - 1 /\ \A i \in 1 .. Len(stack) - 1 : Front(stack)[i] = stack[i]
    BY <1>1, <1>2, Popped, Zenon
  <2> QED
    BY <2>1, <2>3, <2>4 DEF Sound
<1> HIDE DEF n, r, e, g, h, below, t
<1>10. OnTop(below, g) /\ OnTop(t, h)
  BY <1>7, <1>8 DEF OnTop
<1>11. Sound(t) /\ Quiet(below, t) /\ t \in Seq(Frames)
  BY <1>7, <1>9, <1>10, PushIsSound, PushIsQuiet DEF Sound, t
<1>12. Sound(Append(t, h)) /\ Quiet(t, Append(t, h))
  BY <1>8, <1>10, <1>11, PushIsSound, PushIsQuiet
<1>13. t[n] = g /\ n \in DOMAIN t
  <2>1. Append(below, g)[Len(below) + 1] = g /\ Len(below) + 1 \in DOMAIN Append(below, g)
    BY <1>7, <1>9, PushLeaves
  <2>2. Len(below) + 1 = n
    BY <1>3, <1>9
  <2> QED
    BY <2>1, <2>2 DEF t
<1>14. Sound(stack') /\ Quiet(below, stack') /\ Quiet(t, stack') /\ stack' \in Seq(Frames)
  <2>1. Quiet(t, t)
    BY DEF Quiet, SameLoops, NoNewStart, SameBodies
  <2>2. Quiet(below, Append(t, h))
    BY <1>11, <1>12, QuietTwice
  <2> QED
    BY <1>1, <1>11, <1>12, <2>1, <2>2 DEF Sound
<1>15. LoopInv' /\ StartInv'
  <2>1. SameLoops(stack, stack') /\ NoNewStart(stack, stack')
    BY <1>9, <1>14, Zenon DEF Quiet, SameLoops, NoNewStart
  <2> QED
    BY <1>1, <2>1, LoopsKept, StartKept DEF Inv
<1>16. ASSUME NEW m, \E l \in DOMAIN Tail(r) : Tail(r)[l] \in Ups[m]
       PROVE  \E i \in DOMAIN stack' : Releases(stack', i, m)
  <2>1. g.events # <<>>
    BY <1>7, <1>16
  <2>2. n \in DOMAIN stack' /\ stack'[n] = g
    BY <1>7, <1>13, <1>14, <2>1 DEF Quiet, SameBodies
  <2> QED
    BY <1>7, <1>16, <2>2 DEF Releases
<1>17. ASSUME NEW m, NEW i \in DOMAIN stack, Releases(stack, i, m), e \notin Ups[m]
       PROVE  \E j \in DOMAIN stack' : Releases(stack', j, m)
  <2>1. CASE i = n
    <3>1. PICK k \in DOMAIN r : r[k] \in Ups[m]
      BY <1>2, <1>17, <2>1 DEF Releases, r
    <3>2. k # 1
      BY <1>17, <3>1 DEF e
    <3> QED
      BY <1>1, <1>5, <1>16, <3>1, <3>2, ComesUpLater
  <2>2. CASE i # n
    <3>1. i \in 1 .. n - 1
      BY <1>3, <2>2
    <3>2. DOMAIN below = 1 .. n - 1
      BY <1>9, Lengths, Zenon
    <3>3. i \in DOMAIN below /\ below[i] = stack[i]
      BY <1>9, <3>1, <3>2
    <3>4. stack[i].at = "body" /\ stack[i].events # <<>>
      BY <1>17 DEF Releases
    <3>5. i \in DOMAIN stack' /\ stack'[i] = stack[i]
      BY <1>14, <3>3, <3>4 DEF Quiet, SameBodies
    <3> QED
      BY <1>17, <3>5 DEF Releases
  <2> QED
    BY <2>1, <2>2
<1>18. \A m \in DOMAIN Downs : m \in DOMAIN Ups
  BY DEF Downs, Ups
<1>19. HeldInv'
  <2> SUFFICES ASSUME NEW m \in held', ~(m = "mouse" /\ mouse_pressed')
               PROVE  \E i \in DOMAIN stack' : Releases(stack', i, m)
    BY DEF HeldInv
  <2>1. CASE m \in DOMAIN Downs /\ e \in Downs[m]
    <3>1. e # "mouse down"
      <4>1. e = "mouse down" => m = "mouse"
        BY <1>18, <2>1, Buttons
      <4> QED
        BY <1>1, <4>1
    <3> QED
      BY <1>1, <1>5, <1>16, <1>18, <2>1, <3>1, ComesUpLater DEF e
  <2>2. CASE m \in held /\ e \notin Ups[m]
    <3>1. ~(m = "mouse" /\ mouse_pressed)
      <4>1. m = "mouse" => e # "mouse up"
        BY <2>2, Buttons
      <4> QED
        BY <1>1, <4>1
    <3>2. PICK i \in DOMAIN stack : Releases(stack, i, m)
      BY <2>2, <3>1 DEF Inv, HeldInv
    <3> QED
      BY <1>17, <2>2, <3>2
  <2>3. m \in held => m \in DOMAIN Ups
    BY DEF Inv, TypeOK
  <2> QED
    BY <1>1, <2>1, <2>2, <2>3
<1>20. TypeOK'
  <2>1. held' \subseteq DOMAIN Ups
    BY <1>1, <1>18 DEF Inv, TypeOK
  <2>2. mouse_pressed' \in BOOLEAN
    BY <1>1
  <2> QED
    BY <1>1, <1>14, <2>1, <2>2 DEF Inv, TypeOK
<1> QED
  BY <1>14, <1>15, <1>19, <1>20 DEF Inv

------------------------------------------------------------------------------
(* Together.                                                               *)
LEMMA InitInv ==
  Init => Inv
<1> SUFFICES ASSUME Init PROVE Inv
  OBVIOUS
<1>1. /\ stack = <<>> /\ queue = <<>> /\ late = {} /\ held = {} /\ mouse_pressed = FALSE
      /\ DOMAIN stack = {} /\ DOMAIN queue = {}
  BY DEF Init
<1>2. TypeOK
  <2>1. stack \in Seq(Frames) /\ queue \in Seq(Tasks) /\ late \subseteq Nat /\ held \subseteq DOMAIN Ups
    BY <1>1
  <2>2. made \in [calls : Nat, pages : Nat, loads : Nat] /\ pages \in Nat /\ loads \in Nat
    BY DEF Init
  <2>3. in_document_start \in [Views -> BOOLEAN] /\ mouse_pressed \in BOOLEAN
    BY DEF Init
  <2> QED
    BY <2>1, <2>2, <2>3 DEF TypeOK
<1>3. LoopInv
  BY <1>1 DEF LoopInv, LateInv, QueueInv, OrderInv, EveryLoopWillQuit, On
<1>4. Sound(stack)
  BY <1>1 DEF Sound
<1>5. StartInv /\ HeldInv
  BY <1>1 DEF StartInv, HeldInv
<1> QED
  BY <1>2, <1>3, <1>4, <1>5 DEF Inv

LEMMA NothingChanges ==
  ASSUME Inv, UNCHANGED vars
  PROVE  Inv'
<1>1. UNCHANGED <<stack, queue, late, pages, loads, in_document_start, mouse_pressed, held, made>>
  BY DEF vars
<1>2. Sound(stack') /\ Quiet(stack, stack')
  BY <1>1 DEF Inv, Quiet, SameLoops, NoNewStart, SameBodies
<1>3. LoopInv' /\ Sound(stack)' /\ StartInv' /\ HeldInv'
  BY <1>1, <1>2, Kept
<1>4. TypeOK'
  BY <1>1 DEF Inv, TypeOK
<1> QED
  BY <1>3, <1>4 DEF Inv

LEMMA NextInv ==
  ASSUME OneView, Inv, [Next]_vars
  PROVE  Inv'
<1>1. CASE HostSteps
  BY <1>1, ReturnInv, HostReturnsInv, RunInFrameTaskInv, SendDirectlyInv, PumpInv, CommitHtmlInv,
     HostCallsInInv DEF HostSteps
<1>2. CASE PageSteps
  BY <1>2, WindowObjectReadyInv, NobodyListensInv, StartEndsInv, DispatchInv, BodyEndsInv,
     TaskEndsInv DEF PageSteps
<1>3. CASE LoopSteps
  BY <1>3, RunBodyInv, RunQuitInv, RunPageTaskInv, RunLoadTaskInv, LoopReturnsInv,
     PumpReturnsInv DEF LoopSteps
<1>4. CASE \E id \in late : QuitFallsDue(id)
  BY <1>4, QuitFallsDueInv
<1>5. CASE TaskIsReady
  BY <1>5, TaskIsReadyInv
<1>6. CASE UNCHANGED vars
  BY <1>6, NothingChanges
<1> QED
  BY <1>1, <1>2, <1>3, <1>4, <1>5, <1>6 DEF Next

LEMMA InvIsEnough ==
  ASSUME Inv
  PROVE  TypeOK /\ CallsAreSound
<1>1. BodiesHaveTheirCaller
  BY DEF Inv, LoopInv, QueueInv, IsLoop, BodiesHaveTheirCaller, On
<1>2. NothingLoadsMidCommit
  <2> SUFFICES ASSUME NEW i \in On({"start"}), NEW j \in On({"load"}) PROVE j < i
    BY DEF NothingLoadsMidCommit
  <2>1. stack \in Seq(Frames)
    BY DEF Inv, Sound
  <2>2. Len(stack) \in Nat /\ DOMAIN stack = 1 .. Len(stack)
    BY <2>1, Lengths, Zenon
  <2>3. i \in DOMAIN stack /\ j \in DOMAIN stack /\ stack[i].at = "start" /\ stack[j].at = "load"
    BY DEF On
  <2>4. ~Below(stack, j, {"start"})
    BY <2>3 DEF Inv, Sound, Fits
  <2>5. ~(i \in 1 .. j - 1)
    BY <2>3, <2>4 DEF Below
  <2>6. i # j
    BY <2>3
  <2> QED
    BY ONLY <2>2, <2>3, <2>5, <2>6
<1>3. NothingStaysHeld
  <2> SUFFICES ASSUME stack = <<>>, NEW m \in held
               PROVE  m = "mouse" /\ mouse_pressed
    BY DEF NothingStaysHeld
  <2>1. DOMAIN stack = {}
    OBVIOUS
  <2> QED
    BY <2>1 DEF Inv, HeldInv
<1> QED
  BY <1>1, <1>2, <1>3 DEF Inv, LoopInv, CallsAreSound

(* However calls nest, and whatever of the page and the loader runs in     *)
(* their loops: a body and its quits wait only for a loop that is still    *)
(* there, each loop has a quit to come, nothing loads above the callback   *)
(* of a document's start, and what the host's input pressed is up when all *)
(* is done.  RunInFrameTask, RunDocumentStartScript and the widget's input.*)
THEOREM CallsReturn ==
  ASSUME OneView
  PROVE  Spec => [](TypeOK /\ CallsAreSound)
<1>1. Init => Inv
  BY InitInv
<1>2. Inv /\ [Next]_vars => Inv'
  BY NextInv
<1>3. Inv => TypeOK /\ CallsAreSound
  BY InvIsEnough
<1> QED
  BY <1>1, <1>2, <1>3, PTL DEF Spec

------------------------------------------------------------------------------
(* Painting.                                                               *)

(* Rectangles.                                                             *)
LessThan == {xy \in Nat \X Nat : xy[1] < xy[2]}

LEMMA NatIsWellFounded == IsWellFoundedOn(LessThan, Nat)
  BY ONLY NatLessThanWellFounded, Zenon DEF OpToRel, LessThan

LEMMA MinOfNat ==
  ASSUME NEW S \in SUBSET Nat, S # {}
  PROVE  Min(S) \in S /\ \A y \in S : Min(S) <= y
<1>1. PICK x \in S : \A y \in S : <<y, x>> \notin LessThan
  BY NatIsWellFounded, WFMin
<1>2. ASSUME NEW y \in S PROVE x <= y
  <2>1. x \in Nat /\ y \in Nat /\ <<y, x>> \notin LessThan
    BY <1>1
  <2>2. y < x => <<y, x>> \in LessThan
    BY <2>1 DEF LessThan
  <2> QED
    BY <2>1, <2>2
<1> QED
  BY <1>2 DEF Min

LEMMA MaxOfInterval ==
  ASSUME NEW n \in Nat, NEW S \in SUBSET (1 .. n), S # {}
  PROVE  Max(S) \in S /\ \A y \in S : y <= Max(S)
<1> DEFINE T == {n - x : x \in S}
<1>1. T \in SUBSET Nat
  OBVIOUS
<1>2. T # {}
  OBVIOUS
<1>3. PICK t \in T : \A y \in T : t <= y
  BY <1>1, <1>2, MinOfNat
<1>4. PICK x \in S : t = n - x
  OBVIOUS
<1>5. ASSUME NEW y \in S PROVE y <= x
  <2>1. n - y \in T
    OBVIOUS
  <2> QED
    BY <1>3, <1>4, <2>1
<1> QED
  BY <1>5 DEF Max

(* The hull of some pixels is pixels, and has them all.                    *)
LEMMA HullOfPixels ==
  ASSUME NEW S \in SUBSET Pixels
  PROVE  S \subseteq Hull(S) /\ Hull(S) \subseteq Pixels /\ (S = {} => Hull(S) = {})
<1>1. CASE S = {}
  BY <1>1 DEF Hull
<1>2. CASE S # {}
  <2>1. Width \in Nat /\ S \in SUBSET (1 .. Width) /\ S \in SUBSET Nat
    BY PaintingAssumption DEF Pixels
  <2>2. Min(S) \in S /\ \A y \in S : Min(S) <= y
    BY <1>2, <2>1, MinOfNat
  <2>3. Max(S) \in S /\ \A y \in S : y <= Max(S)
    BY <1>2, <2>1, MaxOfInterval
  <2>4. Hull(S) = Min(S) .. Max(S)
    BY <1>2 DEF Hull
  <2>5. Min(S) \in 1 .. Width /\ Max(S) \in 1 .. Width
    BY <2>1, <2>2, <2>3
  <2>6. ASSUME NEW x \in S PROVE x \in Min(S) .. Max(S)
    BY <2>1, <2>2, <2>3, <2>5
  <2>7. Min(S) .. Max(S) \subseteq 1 .. Width
    BY <2>1, <2>5
  <2> QED
    BY <1>2, <2>4, <2>6, <2>7 DEF Pixels
<1> QED
  BY <1>1, <1>2

LEMMA CalmCounts ==
  ASSUME NEW n \in 0 .. 3
  PROVE  Min({n + 1, 3}) = IF n = 3 THEN 3 ELSE n + 1
<1>1. {n + 1, 3} \in SUBSET Nat /\ {n + 1, 3} # {}
  OBVIOUS
<1>2. Min({n + 1, 3}) \in {n + 1, 3} /\ \A y \in {n + 1, 3} : Min({n + 1, 3}) <= y
  BY <1>1, MinOfNat
<1> QED
  BY <1>2

------------------------------------------------------------------------------
(* The invariant.                                                          *)

(* The picture of the host, and the baseline with its artifact.            *)
PictureKept ==
  /\ copy \in [Pixels -> {None} \cup Values \X {0, 1}]
  /\ artifact \notin freed
  /\ baseline # None =>
       /\ baseline \in [of : Nat, picture : [Pixels -> Values]]
       /\ baseline.of <= artifact

(* Where nothing is damaged the host shows the baseline.                   *)
HostShowsBaseline ==
  ~composited /\ baseline # None =>
    \A p \in View : p \in pending \/ copy[p] = <<baseline.picture[p], raster>>

(* A request for a frame stands until the host shows the page, through a   *)
(* paint that has taken it and may fail.                                   *)
RequestStands ==
  /\ ~needs_frame /\ (painting = "no" \/ ~was_dirty) =>
       ~raf /\ \A p \in View : copy[p] # None /\ copy[p][1] = page[p]
  /\ painting = "end" /\ raf => needs_frame

(* What the paints since the last change have brought.                     *)
SettledPicture == baseline # None /\ baseline.of = artifact /\ baseline.picture = page

ComesToRest ==
  ~composited =>
    /\ calm >= 1 =>
         /\ ~stale
         /\ pending = {} \/ View \subseteq pending
         /\ (pending = {} /\ baseline = None) \/ SettledPicture
    /\ calm >= 2 => pending = {} /\ SettledPicture
    /\ calm = 3 /\ ~force_repaint => last_paint_damage = {}

PaintingInv ==
  /\ PaintingTypeOK /\ PictureKept /\ BaselineIsAlive
  /\ HostShowsBaseline /\ HostIsCurrent /\ RequestStands /\ ComesToRest
------------------------------------------------------------------------------
(* A paint cycle.                                                          *)

LEMMA CycleKeeps ==
  ASSUME PaintingTypeOK, PictureKept, BaselineIsAlive, UpdateAllLifecyclePhases
  PROVE  /\ artifact' \in Nat /\ freed' \subseteq 0 .. artifact' /\ artifact' \notin freed'
         /\ baseline' # None =>
              /\ baseline' \in [of : Nat, picture : [Pixels -> Values]]
              /\ baseline'.of <= artifact' /\ baseline'.of \notin freed'
<1>0. /\ artifact \in Nat /\ freed \subseteq 0 .. artifact /\ artifact \notin freed
      /\ page \in [Pixels -> Values]
  BY DEF PaintingTypeOK, PictureKept
<1>1. baseline # None =>
        /\ baseline \in [of : Nat, picture : [Pixels -> Values]]
        /\ baseline.of <= artifact /\ baseline.of \notin freed
  BY DEF PictureKept, BaselineIsAlive
<1>2. CASE composited
  <2>1. artifact' = artifact /\ freed' = freed /\ baseline' = baseline
    BY <1>2 DEF UpdateAllLifecyclePhases
  <2> QED
    BY <1>0, <1>1, <2>1
<1>3. CASE ~composited
  <2>1. \/ artifact' = artifact /\ freed' = freed
        \/ artifact' = artifact + 1 /\ freed' = freed \cup {artifact}
    BY <1>3 DEF UpdateAllLifecyclePhases
  <2>2. baseline' = BaselineAfter(artifact')
    BY <1>3 DEF UpdateAllLifecyclePhases
  <2>3. artifact' \in Nat /\ freed' \subseteq 0 .. artifact' /\ artifact' \notin freed'
    <3>1. CASE artifact' = artifact /\ freed' = freed
      BY <1>0, <3>1
    <3>2. CASE artifact' = artifact + 1 /\ freed' = freed \cup {artifact}
      BY <1>0, <3>2
    <3> QED
      BY <2>1, <3>1, <3>2
  <2>4. CASE baseline' = Anchor(artifact')
    BY <1>0, <2>3, <2>4 DEF Anchor
  <2>5. CASE baseline # None /\ baseline.of = artifact' /\ baseline' = baseline
    BY <1>1, <2>3, <2>5
  <2>6. CASE baseline' = None
    BY <2>3, <2>6
  <2> QED
    BY <2>2, <2>4, <2>5, <2>6 DEF BaselineAfter
<1> QED
  BY <1>2, <1>3

LEMMA ViewIsPixels ==
  ASSUME width \in Pixels
  PROVE  View \subseteq Pixels /\ View # {}
BY PaintingAssumption DEF View, Pixels

(* What the cycle of a view that draws itself leaves undamaged, the host   *)
(* shows as it is; and the baseline it leaves is the page.                 *)
LEMMA CycleDamage ==
  ASSUME PaintingTypeOK, PictureKept, HostShowsBaseline,
         ~MovesUnseen, ~composited, UpdateAllLifecyclePhases
  PROVE  /\ DamageAfter \subseteq Pixels /\ stale' = FALSE
         /\ baseline' # None => baseline'.of = artifact' /\ baseline'.picture = page
         /\ \A p \in View : p \in DamageAfter \/ copy[p] = <<page[p], raster>>
<1>0. /\ artifact \in Nat /\ pending \subseteq Pixels /\ View \subseteq Pixels
      /\ baseline # None => baseline.of \in Nat /\ baseline.of <= artifact
  BY ViewIsPixels DEF PaintingTypeOK, PictureKept
<1>1. stale' = FALSE /\ baseline' = BaselineAfter(artifact')
  BY DEF UpdateAllLifecyclePhases
<1>2. CASE Skips
  <2>1. DamageAfter = pending /\ View \subseteq pending
    BY <1>2 DEF DamageAfter, Skips
  <2>2. baseline' = None \/ (baseline # None /\ baseline.of = artifact' /\ baseline' = baseline)
    BY <1>1, <1>2 DEF BaselineAfter
  <2>3. baseline # None /\ baseline.picture # page => artifact' = artifact + 1
    BY <1>2 DEF UpdateAllLifecyclePhases
  <2>4. baseline # None /\ baseline.of = artifact' => baseline.picture = page
    BY <1>0, <2>3
  <2> QED
    BY <1>0, <1>1, <2>1, <2>2, <2>4
<1>3. CASE ~Skips
  <2>1. baseline' = Anchor(artifact')
    BY <1>1, <1>3 DEF BaselineAfter
  <2>2. baseline'.of = artifact' /\ baseline'.picture = page
    BY <2>1 DEF Anchor
  <2>3. DamageAfter = Hull(pending \cup Moved) /\ Moved \subseteq View
    BY <1>3 DEF DamageAfter, Moved
  <2>4. pending \cup Moved \subseteq DamageAfter /\ DamageAfter \subseteq Pixels
    BY <1>0, <2>3, HullOfPixels
  <2>5. ASSUME NEW p \in View, p \notin DamageAfter PROVE copy[p] = <<page[p], raster>>
    <3>1. p \notin pending /\ p \notin Moved
      BY <2>4, <2>5
    <3>2. baseline # None /\ baseline.picture[p] = page[p]
      BY <3>1 DEF Moved
    <3> QED
      BY <3>1, <3>2 DEF HostShowsBaseline
  <2> QED
    BY <1>1, <2>2, <2>4, <2>5
<1> QED
  BY <1>2, <1>3

(* When nothing has changed since a paint, a cycle paints nothing anew,    *)
(* and finds no damage but that of a baseline that was dropped.            *)
LEMMA CycleAtRest ==
  ASSUME PaintingTypeOK, PictureKept, ComesToRest,
         ~composited, calm >= 1, UpdateAllLifecyclePhases
  PROVE  /\ DamageAfter = {} \/ View \subseteq DamageAfter
         /\ pending = {} /\ SettledPicture => DamageAfter = {}
         /\ baseline' # None /\ baseline'.of = artifact' /\ baseline'.picture = page
<1>0. /\ artifact \in Nat /\ pending \subseteq Pixels /\ width \in Pixels
      /\ ~stale /\ (pending = {} \/ View \subseteq pending)
      /\ (pending = {} /\ baseline = None) \/ SettledPicture
  BY DEF PaintingTypeOK, ComesToRest
<1>1. View \subseteq Pixels /\ View # {}
  BY <1>0, ViewIsPixels
<1>2. artifact' = artifact /\ baseline' = BaselineAfter(artifact')
  BY <1>0 DEF UpdateAllLifecyclePhases, SettledPicture
<1>3. Anchor(artifact') # None
  <2>1. page \in [Pixels -> Values] /\ artifact' \in Nat
    BY <1>0, <1>2 DEF PaintingTypeOK
  <2> QED
    BY <2>1, PaintingAssumption DEF Anchor
<1>4. CASE Skips
  <2>1. View \subseteq pending /\ DamageAfter = pending /\ SettledPicture
    BY <1>0, <1>1, <1>4 DEF Skips, DamageAfter
  <2>2. baseline' = baseline
    BY <1>2, <1>4, <2>1 DEF BaselineAfter, SettledPicture
  <2> QED
    BY <1>1, <1>2, <2>1, <2>2 DEF SettledPicture
<1>5. CASE ~Skips
  <2>1. pending = {} /\ baseline' = Anchor(artifact') /\ DamageAfter = Hull(Moved)
    BY <1>0, <1>2, <1>5 DEF Skips, BaselineAfter, DamageAfter
  <2>2. CASE baseline = None
    <3>1. Moved = View /\ ~SettledPicture
      BY <2>2 DEF Moved, SettledPicture
    <3> QED
      BY <1>1, <1>3, <2>1, <3>1, HullOfPixels DEF Anchor
  <2>3. CASE SettledPicture
    <3>1. Moved = {}
      BY <2>3 DEF Moved, SettledPicture
    <3> QED
      BY <1>3, <2>1, <3>1, HullOfPixels DEF Anchor
  <2> QED
    BY <1>0, <2>2, <2>3
<1> QED
  BY <1>4, <1>5
------------------------------------------------------------------------------
(* The steps.                                                              *)

(* The two parts of PaintingTypeOK.                                                *)
Flags ==
  /\ stale \in BOOLEAN /\ raf \in BOOLEAN
  /\ {composited, force_repaint, needs_frame, was_dirty} \subseteq BOOLEAN
Places ==
  /\ page \in [Pixels -> Values]
  /\ artifact \in Nat /\ freed \subseteq 0 .. artifact /\ changes \in 0 .. MaxChanges
  /\ width \in Pixels /\ raster \in {0, 1} /\ painting \in {"no", "serve", "end"}
  /\ last_paint_damage \subseteq Pixels /\ pending \subseteq Pixels
  /\ calm \in 0 .. 3

LEMMA TypeParts == PaintingTypeOK <=> Flags /\ Places
BY DEF PaintingTypeOK, Flags, Places

LEMMA AddedDamage ==
  ASSUME pending \subseteq Pixels, NEW S \in SUBSET Pixels, AddDamage(S)
  PROVE  S \subseteq pending' /\ pending' \subseteq Pixels
BY HullOfPixels DEF AddDamage

LEMMA DamageIsPixels ==
  ASSUME pending \subseteq Pixels, width \in Pixels
  PROVE  DamageAfter \subseteq Pixels /\ LastDamage \subseteq Pixels
<1>1. View \subseteq Pixels
  BY ViewIsPixels
<1>2. Moved \subseteq View
  BY DEF Moved
<1>3. Hull(pending \cup Moved) \subseteq Pixels
  BY <1>1, <1>2, HullOfPixels
<1>4. DamageAfter \subseteq Pixels
  BY <1>3 DEF DamageAfter
<1> QED
  BY <1>1, <1>4 DEF LastDamage

LEMMA PageChangesStep ==
  ASSUME ~MovesUnseen, PaintingInv,
         NEW p \in Pixels, NEW v \in Values, NEW moves \in BOOLEAN, PageChanges(p, v, moves)
  PROVE  PaintingInv'
<1>1. PaintingTypeOK'
  <2>0. Flags /\ Places
    BY TypeParts DEF PaintingInv
  <2>1. Flags'
    BY <2>0, Zenon DEF Flags, PageChanges, Changes, viewVars, trackerVars
  <2>2. Places'
    BY <2>0, CalmCounts, PaintingAssumption DEF Places, PageChanges, Changes,
       viewVars, trackerVars
  <2> QED
    BY <2>1, <2>2 DEF PaintingTypeOK, Flags, Places
<1>2. PictureKept' /\ BaselineIsAlive' /\ HostShowsBaseline'
  BY DEF PaintingInv, PaintingTypeOK, PictureKept, PageChanges, Changes, viewVars, trackerVars,
     BaselineIsAlive, HostShowsBaseline, View
<1>3. HostIsCurrent' /\ RequestStands'
  BY DEF PaintingInv, PaintingTypeOK, HostIsCurrent, View, PageChanges, Changes, viewVars,
     trackerVars, RequestStands
<1>4. ComesToRest'
  BY DEF PaintingInv, PaintingTypeOK, ComesToRest, SettledPicture, View, PageChanges, Changes,
     viewVars, trackerVars
<1> QED
  BY <1>1, <1>2, <1>3, <1>4 DEF PaintingInv

LEMMA RequestAnimationFrameStep ==
  ASSUME ~MovesUnseen, PaintingInv,
         RequestAnimationFrame
  PROVE  PaintingInv'
<1>1. PaintingTypeOK'
  <2>0. Flags /\ Places
    BY TypeParts DEF PaintingInv
  <2>1. Flags'
    BY <2>0, Zenon DEF Flags, RequestAnimationFrame, Changes, viewVars, trackerVars
  <2>2. Places'
    BY <2>0, CalmCounts, PaintingAssumption DEF Places, RequestAnimationFrame, Changes,
       viewVars, trackerVars
  <2> QED
    BY <2>1, <2>2 DEF PaintingTypeOK, Flags, Places
<1>2. PictureKept' /\ BaselineIsAlive' /\ HostShowsBaseline'
  BY DEF PaintingInv, PaintingTypeOK, PictureKept, RequestAnimationFrame, Changes, viewVars,
     trackerVars, BaselineIsAlive, HostShowsBaseline, View
<1>3. HostIsCurrent' /\ RequestStands'
  BY DEF PaintingInv, PaintingTypeOK, HostIsCurrent, View, RequestAnimationFrame, Changes,
     viewVars, trackerVars, RequestStands
<1>4. ComesToRest'
  BY DEF PaintingInv, PaintingTypeOK, ComesToRest, SettledPicture, View, RequestAnimationFrame,
     Changes, viewVars, trackerVars
<1> QED
  BY <1>1, <1>2, <1>3, <1>4 DEF PaintingInv

LEMMA DriveStep ==
  ASSUME ~MovesUnseen, PaintingInv,
         Drive
  PROVE  PaintingInv'
<1>0. /\ PaintingTypeOK /\ PictureKept /\ BaselineIsAlive
      /\ DamageAfter \subseteq Pixels /\ LastDamage \subseteq Pixels
  BY DamageIsPixels DEF PaintingInv, PaintingTypeOK
<1>a. /\ artifact' \in Nat /\ freed' \subseteq 0 .. artifact' /\ artifact' \notin freed'
      /\ baseline' # None =>
           /\ baseline' \in [of : Nat, picture : [Pixels -> Values]]
           /\ baseline'.of <= artifact' /\ baseline'.of \notin freed'
  BY <1>0, CycleKeeps DEF Drive
<1>1. PaintingTypeOK'
  <2>0. Flags /\ Places
    BY TypeParts DEF PaintingInv
  <2>1. Flags'
    BY <2>0, Zenon DEF Flags, Drive, UpdateAllLifecyclePhases, viewVars, paintVars, hostVars
  <2>2. Places'
    BY <1>0, <1>a, <2>0, CalmCounts, PaintingAssumption DEF Places, Drive, viewVars,
       paintVars, hostVars
  <2> QED
    BY <2>1, <2>2 DEF PaintingTypeOK, Flags, Places
<1>2. PictureKept'
  BY <1>0, <1>a DEF PaintingInv, PaintingTypeOK, PictureKept, Drive, viewVars, paintVars, hostVars
<1>3. BaselineIsAlive'
  BY <1>0, <1>a DEF PaintingInv, PaintingTypeOK, BaselineIsAlive, Drive, viewVars, paintVars,
     hostVars
<1>4. HostShowsBaseline'
  <2>1. UNCHANGED <<composited, copy, raster, width>> /\ pending' = DamageAfter
    BY DEF Drive, viewVars, hostVars
  <2>2. ASSUME ~composited
        PROVE  /\ baseline' # None => baseline'.picture = page
               /\ \A p \in View : p \in DamageAfter \/ copy[p] = <<page[p], raster>>
    BY <2>2, CycleDamage DEF PaintingInv, Drive
  <2> QED
    BY <2>1, <2>2 DEF HostShowsBaseline, View
<1>5. HostIsCurrent'
  BY <1>0, <1>a DEF PaintingInv, PaintingTypeOK, HostIsCurrent, View, Drive, viewVars,
     paintVars, hostVars
<1>6. RequestStands'
  BY <1>0, <1>a DEF PaintingInv, PaintingTypeOK, RequestStands, View, Drive, viewVars,
     paintVars, hostVars
<1>7. ComesToRest'
  <2>1. UNCHANGED <<composited, page, width, calm, force_repaint, last_paint_damage>>
        /\ pending' = DamageAfter
    BY DEF Drive, viewVars, hostVars, paintVars
  <2>2. CASE composited \/ ~(calm >= 1)
    <3>1. calm \in 0 .. 3
      BY <1>0 DEF PaintingTypeOK
    <3> QED
      BY <2>1, <2>2, <3>1 DEF ComesToRest
  <2>3. CASE ~composited /\ calm >= 1
    <3>1. ~stale'
      BY <2>3 DEF Drive, UpdateAllLifecyclePhases
    <3>2. /\ DamageAfter = {} \/ View \subseteq DamageAfter
          /\ pending = {} /\ SettledPicture => DamageAfter = {}
          /\ SettledPicture'
      BY <1>0, <2>1, <2>3, CycleAtRest DEF PaintingInv, Drive, SettledPicture
    <3> QED
      BY <2>1, <2>3, <3>1, <3>2 DEF PaintingInv, ComesToRest, View
  <2> QED
    BY <2>2, <2>3
<1> QED
  BY <1>1, <1>2, <1>3, <1>4, <1>5, <1>6, <1>7 DEF PaintingInv

LEMMA CommitDocumentStep ==
  ASSUME ~MovesUnseen, PaintingInv,
         NEW v \in Values, CommitDocument(v)
  PROVE  PaintingInv'
<1>1. PaintingTypeOK'
  <2>0. Flags /\ Places
    BY TypeParts DEF PaintingInv
  <2>1. Flags'
    BY <2>0, Zenon DEF Flags, CommitDocument, Changes, viewVars, trackerVars
  <2>2. Places'
    BY <2>0, CalmCounts, PaintingAssumption DEF Places, CommitDocument, Changes,
       viewVars, trackerVars
  <2> QED
    BY <2>1, <2>2 DEF PaintingTypeOK, Flags, Places
<1>2. PictureKept' /\ BaselineIsAlive' /\ HostShowsBaseline'
  BY DEF PaintingInv, PaintingTypeOK, PictureKept, CommitDocument, Changes, viewVars, trackerVars,
     BaselineIsAlive, HostShowsBaseline, View
<1>3. HostIsCurrent' /\ RequestStands'
  BY DEF PaintingInv, PaintingTypeOK, HostIsCurrent, View, CommitDocument, Changes, viewVars,
     trackerVars, RequestStands
<1>4. ComesToRest'
  BY DEF PaintingInv, PaintingTypeOK, ComesToRest, SettledPicture, View, CommitDocument, Changes,
     viewVars, trackerVars
<1> QED
  BY <1>1, <1>2, <1>3, <1>4 DEF PaintingInv

LEMMA SetDirtyStep ==
  ASSUME ~MovesUnseen, PaintingInv,
         SetDirty
  PROVE  PaintingInv'
<1>0. View \subseteq pending' /\ pending' \subseteq Pixels
  <2>1. pending \subseteq Pixels /\ View \subseteq Pixels
    BY ViewIsPixels, PaintingAssumption DEF PaintingInv, PaintingTypeOK, Pixels
  <2> QED
    BY <2>1, AddedDamage DEF SetDirty
<1>1. PaintingTypeOK'
  <2>0. Flags /\ Places
    BY TypeParts DEF PaintingInv
  <2>1. Flags'
    BY <2>0, Zenon DEF Flags, SetDirty, Changes, viewVars
  <2>2. Places'
    BY <1>0, <2>0, CalmCounts, PaintingAssumption DEF Places, SetDirty, Changes, viewVars
  <2> QED
    BY <2>1, <2>2 DEF PaintingTypeOK, Flags, Places
<1>2. PictureKept'
  BY <1>0 DEF PaintingInv, PictureKept, Blank, SetDirty
<1>3. BaselineIsAlive'
  BY <1>0 DEF PaintingInv, PaintingTypeOK, BaselineIsAlive, SetDirty, Changes, viewVars
<1>4. HostShowsBaseline'
  BY <1>0 DEF PaintingInv, PaintingTypeOK, HostShowsBaseline, View, SetDirty, Changes, viewVars
<1>5. HostIsCurrent'
  BY <1>0 DEF PaintingInv, PaintingTypeOK, HostIsCurrent, View, SetDirty, Changes, viewVars
<1>6. RequestStands'
  BY <1>0 DEF PaintingInv, PaintingTypeOK, RequestStands, View, SetDirty, Changes, viewVars
<1>7. ComesToRest'
  BY <1>0 DEF PaintingInv, PaintingTypeOK, ComesToRest, SettledPicture, View, SetDirty, Changes, viewVars
<1> QED
  BY <1>1, <1>2, <1>3, <1>4, <1>5, <1>6, <1>7 DEF PaintingInv

LEMMA ResizeStep ==
  ASSUME ~MovesUnseen, PaintingInv,
         NEW n \in Pixels, Resize(n)
  PROVE  PaintingInv'
<1>0. 1 .. n \subseteq pending' /\ pending' \subseteq Pixels
  <2>1. pending \subseteq Pixels /\ 1 .. n \subseteq Pixels
    BY ViewIsPixels, PaintingAssumption DEF PaintingInv, PaintingTypeOK, Pixels
  <2> QED
    BY <2>1, AddedDamage DEF Resize
<1>1. PaintingTypeOK'
  <2>0. Flags /\ Places
    BY TypeParts DEF PaintingInv
  <2>1. Flags'
    BY <2>0, Zenon DEF Flags, Resize, Changes
  <2>2. Places'
    BY <1>0, <2>0, CalmCounts, PaintingAssumption DEF Places, Resize, Changes
  <2> QED
    BY <2>1, <2>2 DEF PaintingTypeOK, Flags, Places
<1>2. PictureKept'
  BY <1>0 DEF PaintingInv, PictureKept, Blank, Resize
<1>3. BaselineIsAlive'
  BY <1>0 DEF PaintingInv, PaintingTypeOK, BaselineIsAlive, Resize, Changes
<1>4. HostShowsBaseline'
  BY <1>0 DEF PaintingInv, PaintingTypeOK, HostShowsBaseline, View, Resize, Changes
<1>5. HostIsCurrent'
  BY <1>0 DEF PaintingInv, PaintingTypeOK, HostIsCurrent, View, Resize, Changes
<1>6. RequestStands'
  BY <1>0 DEF PaintingInv, PaintingTypeOK, RequestStands, View, Resize, Changes
<1>7. ComesToRest'
  BY <1>0 DEF PaintingInv, PaintingTypeOK, ComesToRest, SettledPicture, View, Resize, Changes
<1> QED
  BY <1>1, <1>2, <1>3, <1>4, <1>5, <1>6, <1>7 DEF PaintingInv

LEMMA SetRasterStep ==
  ASSUME ~MovesUnseen, PaintingInv,
         SetRaster
  PROVE  PaintingInv'
<1>0. View \subseteq pending' /\ pending' \subseteq Pixels
  <2>1. pending \subseteq Pixels /\ View \subseteq Pixels
    BY ViewIsPixels, PaintingAssumption DEF PaintingInv, PaintingTypeOK, Pixels
  <2> QED
    BY <2>1, AddedDamage DEF SetRaster
<1>1. PaintingTypeOK'
  <2>0. Flags /\ Places
    BY TypeParts DEF PaintingInv
  <2>1. Flags'
    BY <2>0, Zenon DEF Flags, SetRaster, Changes
  <2>2. Places'
    BY <1>0, <2>0, CalmCounts, PaintingAssumption DEF Places, SetRaster, Changes
  <2> QED
    BY <2>1, <2>2 DEF PaintingTypeOK, Flags, Places
<1>2. PictureKept'
  BY <1>0 DEF PaintingInv, PaintingTypeOK, PictureKept, SetRaster, Changes
<1>3. BaselineIsAlive'
  BY <1>0 DEF PaintingInv, PaintingTypeOK, BaselineIsAlive, SetRaster, Changes
<1>4. HostShowsBaseline'
  BY <1>0 DEF PaintingInv, PaintingTypeOK, HostShowsBaseline, View, SetRaster, Changes
<1>5. HostIsCurrent'
  BY <1>0 DEF PaintingInv, PaintingTypeOK, HostIsCurrent, View, SetRaster, Changes
<1>6. RequestStands'
  <2>1. UNCHANGED <<raf, page, width, painting, was_dirty, copy>> /\ painting = "no"
    BY DEF SetRaster
  <2>2. CASE needs_frame' = TRUE
    BY <2>1, <2>2 DEF RequestStands
  <2>3. CASE needs_frame' = needs_frame
    BY <2>1, <2>3 DEF PaintingInv, RequestStands, View
  <2> QED
    BY <2>2, <2>3 DEF SetRaster
<1>7. ComesToRest'
  BY <1>0 DEF PaintingInv, PaintingTypeOK, ComesToRest, SettledPicture, View, SetRaster, Changes
<1> QED
  BY <1>1, <1>2, <1>3, <1>4, <1>5, <1>6, <1>7 DEF PaintingInv

LEMMA SetForceRepaintStep ==
  ASSUME ~MovesUnseen, PaintingInv,
         NEW on \in BOOLEAN, SetForceRepaint(on)
  PROVE  PaintingInv'
<1>1. PaintingTypeOK'
  <2>0. Flags /\ Places
    BY TypeParts DEF PaintingInv
  <2>1. Flags'
    BY <2>0, Zenon DEF Flags, SetForceRepaint, Changes, paintVars, trackerVars
  <2>2. Places'
    BY <2>0, CalmCounts, PaintingAssumption DEF Places, SetForceRepaint, Changes,
       paintVars, trackerVars
  <2> QED
    BY <2>1, <2>2 DEF PaintingTypeOK, Flags, Places
<1>2. PictureKept' /\ BaselineIsAlive' /\ HostShowsBaseline'
  BY DEF PaintingInv, PaintingTypeOK, PictureKept, SetForceRepaint, Changes, paintVars, trackerVars,
     BaselineIsAlive, HostShowsBaseline, View
<1>3. HostIsCurrent' /\ RequestStands'
  BY DEF PaintingInv, PaintingTypeOK, HostIsCurrent, View, SetForceRepaint, Changes, paintVars,
     trackerVars, RequestStands
<1>4. ComesToRest'
  BY DEF PaintingInv, PaintingTypeOK, ComesToRest, SettledPicture, View, SetForceRepaint, Changes,
     paintVars, trackerVars
<1> QED
  BY <1>1, <1>2, <1>3, <1>4 DEF PaintingInv

LEMMA BeginPaintStep ==
  ASSUME ~MovesUnseen, PaintingInv,
         BeginPaint
  PROVE  PaintingInv'
<1>1. PaintingTypeOK'
  <2>0. Flags /\ Places
    BY TypeParts DEF PaintingInv
  <2>1. Flags'
    BY <2>0, Zenon DEF Flags, BeginPaint, blinkVars, viewVars, trackerVars, hostVars
  <2>2. Places'
    BY <2>0, CalmCounts, PaintingAssumption DEF Places, BeginPaint, blinkVars,
       viewVars, trackerVars, hostVars
  <2> QED
    BY <2>1, <2>2 DEF PaintingTypeOK, Flags, Places
<1>2. PictureKept' /\ BaselineIsAlive' /\ HostShowsBaseline'
  BY DEF PaintingInv, PaintingTypeOK, PictureKept, BeginPaint, blinkVars, viewVars, trackerVars,
     hostVars, BaselineIsAlive, HostShowsBaseline, View
<1>3. HostIsCurrent' /\ RequestStands'
  BY DEF PaintingInv, PaintingTypeOK, HostIsCurrent, View, BeginPaint, blinkVars, viewVars,
     trackerVars, hostVars, RequestStands
<1>4. ComesToRest'
  BY DEF PaintingInv, PaintingTypeOK, ComesToRest, SettledPicture, View, BeginPaint, blinkVars,
     viewVars, trackerVars, hostVars
<1> QED
  BY <1>1, <1>2, <1>3, <1>4 DEF PaintingInv

LEMMA ServiceAnimationsStep ==
  ASSUME ~MovesUnseen, PaintingInv,
         ServiceAnimations
  PROVE  PaintingInv'
<1>1. PaintingTypeOK'
  <2>0. Flags /\ Places
    BY TypeParts DEF PaintingInv
  <2>1. Flags'
    BY <2>0, Zenon DEF Flags, ServiceAnimations, Changes, viewVars, trackerVars
  <2>2. Places'
    BY <2>0, CalmCounts, PaintingAssumption DEF Places, ServiceAnimations, Changes,
       viewVars, trackerVars
  <2> QED
    BY <2>1, <2>2 DEF PaintingTypeOK, Flags, Places
<1>2. PictureKept' /\ BaselineIsAlive' /\ HostShowsBaseline'
  BY DEF PaintingInv, PaintingTypeOK, PictureKept, ServiceAnimations, Changes, viewVars, trackerVars,
     BaselineIsAlive, HostShowsBaseline, View
<1>3. HostIsCurrent' /\ RequestStands'
  BY DEF PaintingInv, PaintingTypeOK, HostIsCurrent, View, ServiceAnimations, Changes, viewVars,
     trackerVars, RequestStands
<1>4. ComesToRest'
  BY DEF PaintingInv, PaintingTypeOK, ComesToRest, SettledPicture, View, ServiceAnimations, Changes,
     viewVars, trackerVars
<1> QED
  BY <1>1, <1>2, <1>3, <1>4 DEF PaintingInv

LEMMA PaintFailsStep ==
  ASSUME ~MovesUnseen, PaintingInv,
         PaintFails
  PROVE  PaintingInv'
<1>1. PaintingTypeOK'
  <2>0. Flags /\ Places
    BY TypeParts DEF PaintingInv
  <2>1. Flags'
    BY <2>0, Zenon DEF Flags, PaintFails, Changes, viewVars, trackerVars
  <2>2. Places'
    BY <2>0, CalmCounts, PaintingAssumption DEF Places, PaintFails, Changes, viewVars,
       trackerVars
  <2> QED
    BY <2>1, <2>2 DEF PaintingTypeOK, Flags, Places
<1>2. PictureKept' /\ BaselineIsAlive' /\ HostShowsBaseline'
  BY DEF PaintingInv, PaintingTypeOK, PictureKept, PaintFails, Changes, viewVars, trackerVars,
     BaselineIsAlive, HostShowsBaseline, View
<1>3. HostIsCurrent' /\ RequestStands'
  BY DEF PaintingInv, PaintingTypeOK, HostIsCurrent, View, PaintFails, Changes, viewVars,
     trackerVars, RequestStands
<1>4. ComesToRest'
  BY DEF PaintingInv, PaintingTypeOK, ComesToRest, SettledPicture, View, PaintFails, Changes, viewVars,
     trackerVars
<1> QED
  BY <1>1, <1>2, <1>3, <1>4 DEF PaintingInv

LEMMA EndPaintStep ==
  ASSUME ~MovesUnseen, PaintingInv,
         EndPaint
  PROVE  PaintingInv'
<1>0. /\ PaintingTypeOK /\ PictureKept /\ BaselineIsAlive
      /\ DamageAfter \subseteq Pixels /\ LastDamage \subseteq Pixels
  BY DamageIsPixels DEF PaintingInv, PaintingTypeOK
<1>a. /\ artifact' \in Nat /\ freed' \subseteq 0 .. artifact' /\ artifact' \notin freed'
      /\ baseline' # None =>
           /\ baseline' \in [of : Nat, picture : [Pixels -> Values]]
           /\ baseline'.of <= artifact' /\ baseline'.of \notin freed'
  BY <1>0, CycleKeeps DEF EndPaint
<1>b. \A p \in View : copy'[p] = <<page[p], raster>>
  <2>1. \A p \in View : copy'[p] = IF p \in LastDamage THEN <<page[p], raster>> ELSE copy[p]
    BY ViewIsPixels DEF EndPaint, PaintingInv, PaintingTypeOK
  <2>2. CASE composited \/ force_repaint
    BY <2>1, <2>2 DEF LastDamage
  <2>3. CASE ~composited /\ ~force_repaint
    <3>1. \A p \in View : p \in DamageAfter \/ copy[p] = <<page[p], raster>>
      BY <2>3, CycleDamage DEF PaintingInv, EndPaint
    <3> QED
      BY <2>1, <2>3, <3>1 DEF LastDamage
  <2> QED
    BY <2>2, <2>3
<1>1. PaintingTypeOK'
  <2>0. Flags /\ Places
    BY TypeParts DEF PaintingInv
  <2>1. Flags'
    BY <2>0, Zenon DEF Flags, EndPaint, UpdateAllLifecyclePhases, viewVars
  <2>2. Places'
    <3>1. /\ UNCHANGED <<page, changes, width, raster>> /\ painting' = "no" /\ pending' = {}
          /\ last_paint_damage' = LastDamage /\ calm' = Min({calm + 1, 3})
      BY DEF EndPaint, viewVars
    <3>2. calm \in 0 .. 3
      BY <2>0 DEF Places
    <3>3. calm' \in 0 .. 3
      BY <3>1, <3>2, CalmCounts
    <3> QED
      BY <1>0, <1>a, <2>0, <3>1, <3>3 DEF Places
  <2> QED
    BY <2>1, <2>2 DEF PaintingTypeOK, Flags, Places
<1>2. PictureKept'
  BY <1>0, <1>a DEF PaintingInv, PaintingTypeOK, PictureKept, EndPaint, viewVars
<1>3. BaselineIsAlive'
  BY <1>0, <1>a DEF PaintingInv, PaintingTypeOK, BaselineIsAlive, EndPaint, viewVars
<1>4. HostShowsBaseline'
  <2>1. UNCHANGED <<composited, page, raster, width>>
    BY DEF EndPaint, viewVars
  <2>2. ~composited /\ baseline' # None => baseline'.picture = page
    BY CycleDamage DEF PaintingInv, EndPaint
  <2> QED
    BY <1>b, <2>1, <2>2 DEF HostShowsBaseline, View
<1>5. HostIsCurrent'
  BY <1>b DEF HostIsCurrent, View, EndPaint, viewVars
<1>6. RequestStands'
  <2>1. UNCHANGED <<page, raf, width, needs_frame>> /\ painting = "end" /\ painting' = "no"
    BY DEF EndPaint, viewVars
  <2>2. ~needs_frame => ~raf
    BY <2>1 DEF PaintingInv, RequestStands
  <2>3. \A p \in View : copy'[p] # None /\ copy'[p][1] = page[p]
    <3>1. page \in [Pixels -> Values] /\ raster \in {0, 1} /\ View \subseteq Pixels
      BY <1>0, ViewIsPixels DEF PaintingTypeOK
    <3> QED
      BY <1>b, <3>1, PaintingAssumption
  <2> QED
    BY <2>1, <2>2, <2>3 DEF RequestStands, View
<1>7. ComesToRest'
  <2>1. /\ UNCHANGED <<composited, page, width, force_repaint>> /\ pending' = {}
        /\ last_paint_damage' = LastDamage /\ calm' = Min({calm + 1, 3})
    BY DEF EndPaint, viewVars
  <2>2. calm \in 0 .. 3 /\ calm' = IF calm = 3 THEN 3 ELSE calm + 1
    BY <1>0, <2>1, CalmCounts DEF PaintingTypeOK
  <2>3. ASSUME ~composited PROVE ~stale' /\ (baseline' = None \/ SettledPicture')
    BY <2>1, <2>3, CycleDamage DEF PaintingInv, EndPaint, SettledPicture
  <2>4. ASSUME ~composited, calm >= 1
        PROVE  /\ pending = {} /\ SettledPicture => DamageAfter = {}
               /\ SettledPicture'
    BY <1>0, <2>1, <2>4, CycleAtRest DEF PaintingInv, EndPaint, SettledPicture
  <2>5. ~composited /\ calm >= 2 => pending = {} /\ SettledPicture
    BY DEF PaintingInv, ComesToRest
  <2>6. ~composited /\ ~force_repaint /\ calm >= 2 => LastDamage = {}
    BY <2>2, <2>4, <2>5 DEF LastDamage
  <2> QED
    BY <2>1, <2>2, <2>3, <2>4, <2>6 DEF ComesToRest
<1> QED
  BY <1>1, <1>2, <1>3, <1>4, <1>5, <1>6, <1>7 DEF PaintingInv

------------------------------------------------------------------------------
(* The theorems.                                                           *)

LEMMA PaintingInitInv == ASSUME PaintingInit PROVE PaintingInv
<1>1. Flags
  BY Zenon DEF PaintingInit, Flags
<1>2. Places
  BY PaintingAssumption DEF PaintingInit, Places, Pixels
<1>3. PictureKept /\ BaselineIsAlive /\ HostShowsBaseline
  BY DEF PaintingInit, PictureKept, Blank, BaselineIsAlive, HostShowsBaseline
<1>4. HostIsCurrent /\ RequestStands /\ ComesToRest
  BY DEF PaintingInit, HostIsCurrent, RequestStands, ComesToRest
<1> QED
  BY <1>1, <1>2, <1>3, <1>4 DEF PaintingInv, PaintingTypeOK, Flags, Places

LEMMA PaintingNextInv ==
  ASSUME ~MovesUnseen, PaintingInv, [PaintingNext]_paintingVars
  PROVE  PaintingInv'
<1>1. CASE Host
  BY <1>1, SetDirtyStep, ResizeStep, SetRasterStep, SetForceRepaintStep DEF Host
<1>2. CASE Blink
  BY <1>2, PageChangesStep, RequestAnimationFrameStep, DriveStep, CommitDocumentStep DEF
     Blink
<1>3. CASE Paint
  BY <1>3, BeginPaintStep, ServiceAnimationsStep, PaintFailsStep, EndPaintStep DEF Paint
<1>4. CASE UNCHANGED paintingVars
  <2>1. UNCHANGED <<blinkVars, viewVars, paintVars, trackerVars, hostVars>>
    BY <1>4 DEF paintingVars
  <2> QED
    BY <2>1 DEF PaintingInv, PaintingTypeOK, PictureKept, BaselineIsAlive, HostShowsBaseline,
       HostIsCurrent,
                RequestStands, ComesToRest, SettledPicture, View,
                blinkVars, viewVars, paintVars, trackerVars, hostVars
<1> QED
  BY <1>1, <1>2, <1>3, <1>4 DEF PaintingNext

(* The invariant has what is to be shown.                                  *)
LEMMA InvHasPictures == ASSUME PaintingInv PROVE PicturesAreTrue
<1>1. CleanIsCurrent
  BY DEF PaintingInv, CleanIsCurrent, RequestStands, IsDirty
<1>2. RestIsFree
  BY DEF PaintingInv, RestIsFree, ComesToRest
<1> QED
  BY <1>1, <1>2 DEF PicturesAreTrue, PaintingInv

(* The host that copies the damage alone shows what was painted, a clean   *)
(* view shows its page, no diff reads what is gone, and a page at rest     *)
(* costs nothing, as long as a page that moves under full damage is        *)
(* painted anew.                                                           *)
THEOREM Pictures ==
  ASSUME ~MovesUnseen
  PROVE  PaintingSpec => [](PaintingTypeOK /\ PicturesAreTrue)
<1>1. PaintingInit => PaintingInv
  BY PaintingInitInv
<1>2. PaintingInv /\ [PaintingNext]_paintingVars => PaintingInv'
  BY PaintingNextInv
<1>3. PaintingInv => PaintingTypeOK /\ PicturesAreTrue
  BY InvHasPictures DEF PaintingInv
<1> QED
  BY <1>1, <1>2, <1>3, PTL DEF PaintingSpec
==============================================================================
