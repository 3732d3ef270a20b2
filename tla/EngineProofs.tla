---------------------------- MODULE EngineProofs ----------------------------
(***************************************************************************)
(* Proofs about what the sync interrupt shares with the program.  The      *)
(* video engine's pulses and fades (VideoSync): for every standard and     *)
(* picture, any number of fader steps, and wherever the interrupt falls.   *)
(* The sound engine's track records (SoundTracks): for any patches *)
(* and any song, where the interrupt does not fall inside TriggerFx.  The  *)
(* UART's rings (UartRing): for rings of every size and any set of bytes,  *)
(* both are queues, wherever the interrupt falls in the program's calls.   *)
(***************************************************************************)
EXTENDS VideoSync, SoundTracks, UartRing, SequenceTheorems, TLAPS

-----------------------------------------------------------------------------
(***************************************************************************)
(* VideoSync: what the interrupt and the program keep.                     *)
(***************************************************************************)

(***************************************************************************)
(* The inductive invariant.                                                *)
(***************************************************************************)
\* The pulses of this field so far, from where the one counter is.
MadeSoFar ==
    IF phase = "hsync"
    THEN [pre |-> PreEq, eq |-> Eq, post |-> PostEq, lines |-> Lines - pulse]
    ELSE IF pulse = Half THEN Field
    ELSE [pre |-> IF pulse >= Eq + PostEq THEN Half - pulse ELSE PreEq,
          eq |-> IF pulse >= Eq + PostEq THEN 0
                 ELSE IF pulse >= PostEq THEN Eq + PostEq - pulse ELSE Eq,
          post |-> IF pulse >= PostEq THEN 0 ELSE PostEq - pulse,
          lines |-> 0]

\* The frame is entered at its first line and left behind its last.
SyncInv ==
    /\ phase \in {"vsync", "hsync"}
    /\ phase = "vsync" => pulse \in 1 .. Half
    /\ phase = "hsync" => pulse \in 1 .. Lines - First - 1 - Count \/ pulse \in Lines - First .. Lines
    /\ made = MadeSoFar

\* A fade that is being set up is where it begins, or where the work has moved it
\* from there by the fade it is started over: off the table only if that stopped it.
Placed(dir) ==
    /\ fadeStep \in {Begin(dir) - dir, Begin(dir), Begin(dir) + dir}
    /\ fadeStep = Begin(dir) - dir => ~fadeActive

StoringOK ==
    /\ main.dir \in {-1, 1} /\ Placed(main.dir)
    /\ ~main.met => work = "none"
    /\ ~main.met \/ work = "fade" => fadeStep = Begin(main.dir)
    /\ main.at # "dir" => fadeDir = main.dir

\* One that is waited for has its own direction, and leaves its own last step.
FadingOK ==
    /\ main.dir \in {-1, 1} /\ fadeDir = main.dir
    /\ ~fadeActive => screen = End(main.dir)

ActiveOK ==
    fadeActive => /\ fadeDir # 0
                  /\ fadeStep \in 1 .. FADER_STEPS \/ fadeStep + fadeDir \in 1 .. FADER_STEPS

Places == [at : {"game", "wait", "clear"}]
    \cup [at : {"fading"}, dir : {-1, 1}]
    \cup [at : {"dir", "speed", "active"}, dir : {-1, 1}, speed : Speeds,
          blocking : BOOLEAN, met : BOOLEAN]

FadeInv ==
    /\ fadeDir \in {-1, 0, 1} /\ fadeStep \in 0 .. FADER_STEPS + 1
    /\ fadeActive \in BOOLEAN /\ ActiveOK
    /\ main \in Places
    /\ Storing => StoringOK
    /\ main.at = "fading" => FadingOK

-----------------------------------------------------------------------------
(* The pulses.                                                             *)

(* A pulse of half a line is one more of its kind. *)
LEMMA VsyncPulseCounts ==
  ASSUME SyncInv, VsyncPulse
  PROVE  SyncInv'
<1> USE VideoAssumption DEF SyncInv, Half
<1>1. pulse \in 1 .. Half /\ phase = "vsync"
  BY DEF VsyncPulse
<1> DEFINE before == IF pulse = Half THEN NoPulse ELSE made
<1>2. before = [pre |-> IF pulse >= Eq + PostEq THEN Half - pulse ELSE PreEq,
                eq |-> IF pulse >= Eq + PostEq THEN 0
                       ELSE IF pulse >= PostEq THEN Eq + PostEq - pulse ELSE Eq,
                post |-> IF pulse >= PostEq THEN 0 ELSE PostEq - pulse,
                lines |-> 0]
  BY <1>1 DEF NoPulse, MadeSoFar
<1>3. made' = [before EXCEPT ![Kind(pulse - 1)] = @ + 1]
  BY DEF VsyncPulse
<1> HIDE DEF before
<1>4. made' = [pre |-> IF pulse - 1 >= Eq + PostEq THEN Half - (pulse - 1) ELSE PreEq,
               eq |-> IF pulse - 1 >= Eq + PostEq THEN 0
                      ELSE IF pulse - 1 >= PostEq THEN Eq + PostEq - (pulse - 1) ELSE Eq,
               post |-> IF pulse - 1 >= PostEq THEN 0 ELSE PostEq - (pulse - 1),
               lines |-> 0]
  <2>1. CASE pulse - 1 >= Eq + PostEq
    <3>1. Kind(pulse - 1) = "pre"
      BY <1>1, <2>1 DEF Kind
    <3>2. made' = [before EXCEPT !.pre = @ + 1]
      BY <1>3, <3>1
    <3>3. QED
      BY <1>1, <1>2, <2>1, <3>2
  <2>2. CASE pulse - 1 < Eq + PostEq /\ pulse - 1 >= PostEq
    <3>1. Kind(pulse - 1) = "eq"
      BY <1>1, <2>2 DEF Kind
    <3>2. made' = [before EXCEPT !.eq = @ + 1]
      BY <1>3, <3>1
    <3>3. QED
      BY <1>1, <1>2, <2>2, <3>2
  <2>3. CASE pulse - 1 < PostEq
    <3>1. Kind(pulse - 1) = "post"
      BY <1>1, <2>3 DEF Kind
    <3>2. made' = [before EXCEPT !.post = @ + 1]
      BY <1>3, <3>1
    <3>3. before = [pre |-> PreEq, eq |-> Eq, post |-> PostEq - pulse, lines |-> 0]
      <4>1. CASE pulse < PostEq
        BY <1>1, <1>2, <4>1
      <4>2. CASE pulse = PostEq
        BY <1>1, <1>2, <4>2
      <4>3. QED
        BY <1>1, <2>3, <4>1, <4>2
    <3>4. made' = [pre |-> PreEq, eq |-> Eq, post |-> PostEq - pulse + 1, lines |-> 0]
      BY <3>2, <3>3
    <3>5. QED
      BY <1>1, <2>3, <3>4
  <2>4. QED
    BY <1>1, <2>1, <2>2, <2>3
<1>5. CASE pulse = 1
  BY <1>1, <1>4, <1>5 DEF VsyncPulse, MadeSoFar
<1>6. CASE pulse # 1
  BY <1>1, <1>4, <1>6 DEF VsyncPulse, MadeSoFar
<1>7. QED
  BY <1>5, <1>6

(* A line, the frame's lines at once, and the last, after which a field is whole. *)
LEMMA LinesCount ==
  ASSUME SyncInv, Line \/ Render \/ LastLine
  PROVE  SyncInv'
<1> USE VideoAssumption DEF SyncInv, InWindow
<1>1. /\ phase = "hsync"
      /\ made = [pre |-> PreEq, eq |-> Eq, post |-> PostEq, lines |-> Lines - pulse]
  BY DEF Line, Render, LastLine, MadeSoFar
<1>2. CASE Line
  <2>1. /\ pulse \in Int /\ pulse' = pulse - 1 /\ phase' = "hsync"
        /\ pulse' \in 1 .. Lines - First - 1 - Count \/ pulse' \in Lines - First .. Lines
    BY <1>1, <1>2 DEF Line
  <2>2. made' = [pre |-> PreEq, eq |-> Eq, post |-> PostEq, lines |-> Lines - pulse + 1]
    BY <1>1, <1>2 DEF Line
  <2>3. QED
    BY <2>1, <2>2 DEF MadeSoFar
<1>3. CASE Render
  <2>1. pulse = Lines - First
    BY <1>1, <1>3 DEF Render
  <2>2. pulse' = Lines - First - 1 - Count /\ phase' = "hsync"
    BY <1>1, <1>3, <2>1 DEF Render
  <2>3. made' = [pre |-> PreEq, eq |-> Eq, post |-> PostEq, lines |-> Lines - pulse + 1 + Count]
    BY <1>1, <1>3, <2>1 DEF Render
  <2>4. QED
    BY <2>1, <2>2, <2>3 DEF MadeSoFar
<1>4. CASE LastLine
  <2>1. pulse = 1 /\ pulse' = Half /\ phase' = "vsync" /\ Half \in Nat \ {0}
    BY <1>1, <1>4 DEF LastLine, Half
  <2>2. made' = Field
    BY <1>1, <1>4, <2>1 DEF LastLine, Field
  <2>3. QED
    BY <2>1, <2>2 DEF MadeSoFar
<1>5. QED
  BY <1>2, <1>3, <1>4

(* Nothing but a pulse moves the pulses. *)
LEMMA SyncFrame ==
  ASSUME VideoNext
  PROVE  Pulse \/ UNCHANGED syncVars
BY DEF VideoNext, Work, WorkStep, ProcessFading, ChooseBank, MixBlock, MixRest, Mix,
       GoOn, FrameSeen, ClearVsyncFlag, FadeDir, DoFade, FadeActive, Faded,
       Call, WaitVsync, FadeAtOnce, StartFade, MainStep

(* For every standard and picture: a field has its pulses, each kind as often *)
(* as it should be.                                                           *)
THEOREM FieldsAreWhole == VideoSpec => []FieldIsWhole
<1>1. VideoInit => SyncInv
  BY VideoAssumption DEF VideoInit, SyncInv, MadeSoFar, Half
<1>2. SyncInv /\ [VideoNext]_videoVars => SyncInv'
  <2>1. SyncInv /\ UNCHANGED syncVars => SyncInv'
    BY DEF SyncInv, syncVars, MadeSoFar
  <2>2. QED
    BY <2>1, SyncFrame, VsyncPulseCounts, LinesCount DEF Pulse, videoVars
<1>3. SyncInv => FieldIsWhole
  BY VideoAssumption DEF SyncInv, MadeSoFar, FieldIsWhole, Half
<1>4. QED
  BY <1>1, <1>2, <1>3, PTL DEF VideoSpec

-----------------------------------------------------------------------------
(* The fader.                                                              *)

(* The table has more than one step. *)
LEMMA Steps == FADER_STEPS \in Nat /\ FADER_STEPS > 1
BY VideoAssumption

(* Where a fade begins and ends. *)
LEMMA Ends ==
  ASSUME NEW dir \in {-1, 1}
  PROVE  /\ Begin(dir) \in 1 .. FADER_STEPS /\ End(dir) \in 1 .. FADER_STEPS
         /\ Begin(dir) + dir \in 1 .. FADER_STEPS
         /\ Begin(dir) - dir \in {0, FADER_STEPS + 1}
         /\ \A x \in 1 .. FADER_STEPS : x + dir \in {0, FADER_STEPS + 1} => x = End(dir)
         /\ Begin(dir) + dir # Begin(dir) - dir
         /\ FADER_STEPS \in Nat
BY Steps DEF Begin, End

(* One step from the table, or back to it. *)
LEMMA OneStep ==
  ASSUME NEW s \in 0 .. FADER_STEPS + 1, NEW d \in {-1, 1}
  PROVE  /\ s \in 1 .. FADER_STEPS \/ s + d \in 1 .. FADER_STEPS =>
              s + d \in 0 .. FADER_STEPS + 1
         /\ s + d \in {0, FADER_STEPS + 1} =>
              s \in 1 .. FADER_STEPS \/ s + d \notin 1 .. FADER_STEPS
         /\ s + d \in 0 .. FADER_STEPS + 1 =>
              s + d \in {0, FADER_STEPS + 1} \/ s + d \in 1 .. FADER_STEPS
         /\ \A x \in {0, FADER_STEPS + 1} : x \notin 1 .. FADER_STEPS
         /\ \A dir \in {-1, 1} : s = Begin(dir) => s + d \in {s - dir, s + dir}
BY Steps DEF Begin

(* A step of a fade: one that runs goes on in the table, or stops at its end. *)
LEMMA ProcessFadingStays ==
  ASSUME FadeInv, ProcessFading
  PROVE  FadeInv'
<1> DEFINE steps == fadeActive /\ currFadeFrame = 0
<1>1. main' = main /\ fadeDir' = fadeDir /\ work = "fade" /\ work' = "bank"
  BY DEF ProcessFading, WorkStep
<1>2. CASE ~steps
  <2>1. fadeStep' = fadeStep /\ (fadeActive' <=> fadeActive) /\ fadeActive' \in BOOLEAN
        /\ screen' = screen
    BY <1>2 DEF ProcessFading
  <2>2. Storing => StoringOK'
    BY <1>1, <2>1 DEF FadeInv, StoringOK, Placed, Begin
  <2>3. main.at = "fading" => FadingOK'
    BY <1>1, <2>1 DEF FadeInv, FadingOK, End, Begin
  <2>4. QED
    BY <1>1, <2>1, <2>2, <2>3 DEF FadeInv, ActiveOK, Storing
<1>3. CASE steps
  <2>1. /\ fadeStep' = fadeStep + fadeDir /\ screen' = fadeStep /\ fadeDir \in {-1, 1}
        /\ fadeStep \in 0 .. FADER_STEPS + 1
        /\ fadeStep \in 1 .. FADER_STEPS \/ fadeStep + fadeDir \in 1 .. FADER_STEPS
    BY <1>3 DEF ProcessFading, FadeInv, ActiveOK
  <2>2. (fadeActive' <=> fadeStep' \notin {0, FADER_STEPS + 1}) /\ fadeActive' \in BOOLEAN
    BY <1>3 DEF ProcessFading, FadeStops
  <2>3. fadeStep' \in 0 .. FADER_STEPS + 1 /\ (fadeActive' => fadeStep' \in 1 .. FADER_STEPS)
    BY <2>1, <2>2, OneStep
  <2>4. ASSUME Storing PROVE StoringOK'
    <3>1. /\ main.dir \in {-1, 1} /\ main.met /\ fadeStep = Begin(main.dir)
          /\ main.at # "dir" => fadeDir = main.dir
      BY <1>1, <2>4 DEF FadeInv, StoringOK
    <3>2. fadeStep' \in {Begin(main.dir) - main.dir, Begin(main.dir) + main.dir}
      BY <2>1, <3>1, OneStep
    <3>3. fadeStep' = Begin(main.dir) - main.dir => ~fadeActive'
      BY <2>2, <3>1, Ends
    <3>4. QED
      BY <1>1, <3>1, <3>2, <3>3 DEF StoringOK, Placed, Begin
  <2>5. ASSUME main.at = "fading" PROVE FadingOK'
    <3>1. main.dir \in {-1, 1} /\ fadeDir = main.dir
      BY <2>5 DEF FadeInv, FadingOK
    <3>2. ~fadeActive' => fadeStep \in 1 .. FADER_STEPS /\ fadeStep + main.dir \in {0, FADER_STEPS + 1}
      BY <2>1, <2>2, <2>3, <3>1, OneStep
    <3>3. ~fadeActive' => screen' = End(main.dir)
      BY <2>1, <3>1, <3>2, Ends
    <3>4. QED
      BY <1>1, <3>1, <3>3 DEF FadingOK, End, Begin
  <2>6. QED
    BY <1>1, <2>1, <2>2, <2>3, <2>4, <2>5 DEF FadeInv, ActiveOK, Storing
<1>4. QED
  BY <1>2, <1>3

(* The work begins between two of the stores, and only once. *)
LEMMA LastLineMeets ==
  ASSUME FadeInv, LastLine
  PROVE  FadeInv'
<1>1. UNCHANGED fadeVars /\ work' = "fade"
  BY DEF LastLine
<1>2. CASE ~Storing
  <2>1. main' = main
    BY <1>2 DEF LastLine
  <2>2. QED
    BY <1>1, <1>2, <2>1 DEF FadeInv, ActiveOK, Storing, FadingOK, fadeVars, End, Begin
<1>3. CASE Storing
  <2>1. main' = [main EXCEPT !.met = TRUE] /\ ~main.met
        /\ main \in [at : {"dir", "speed", "active"}, dir : {-1, 1}, speed : Speeds,
                     blocking : BOOLEAN, met : BOOLEAN]
    BY <1>3 DEF LastLine, FadeInv, Places, Storing
  <2>2. /\ main' \in Places /\ main'.met /\ main'.dir = main.dir /\ main'.at = main.at
    BY <2>1 DEF Places
  <2>3. StoringOK'
    BY <1>1, <1>3, <2>1, <2>2 DEF FadeInv, StoringOK, Placed, fadeVars, Begin
  <2>4. main'.at # "fading"
    BY <1>3, <2>2 DEF Storing
  <2>5. QED
    BY <1>1, <2>2, <2>3, <2>4 DEF FadeInv, ActiveOK, fadeVars
<1>4. QED
  BY <1>2, <1>3

(* The steps of FadeIn, FadeOut and doFade. *)
LEMMA FadeCallKeeps ==
  ASSUME FadeInv, GoOn \/ Call
  PROVE  FadeInv'
<1>1. ASSUME main'.at \in {"game", "wait", "clear"}, main' \in Places,
             UNCHANGED <<fadeStep, fadeDir, fadeActive>>
      PROVE  FadeInv'
  BY <1>1 DEF FadeInv, ActiveOK, Storing
<1>2. CASE FrameSeen \/ ClearVsyncFlag \/ Faded \/ WaitVsync
  BY <1>1, <1>2 DEF FrameSeen, ClearVsyncFlag, Faded, WaitVsync, MainStep, At, fadeVars, Places
<1>3. ASSUME NEW dir \in {1, -1}, FadeAtOnce(dir) PROVE FadeInv'
  BY <1>1, <1>3 DEF FadeAtOnce, MainStep, FadeInv
<1>4. ASSUME NEW dir \in {1, -1}, NEW speed \in Speeds, NEW blocking \in BOOLEAN,
             StartFade(dir, speed, blocking)
      PROVE  FadeInv'
  <2>1. /\ main' = [at |-> "dir", dir |-> dir, speed |-> speed,
                    blocking |-> blocking, met |-> FALSE]
        /\ fadeStep' = Begin(dir) /\ work' = "none"
        /\ UNCHANGED <<fadeDir, fadeActive>>
    BY <1>4 DEF StartFade, MainStep
  <2>2. Begin(dir) \in 1 .. FADER_STEPS /\ Begin(dir) # Begin(dir) - dir /\ FADER_STEPS \in Nat
    BY Ends
  <2>3. StoringOK'
    BY <2>1, <2>2 DEF StoringOK, Placed, Begin
  <2>4. main' \in Places /\ main'.at = "dir"
    BY <2>1 DEF Places
  <2>5. QED
    BY <2>1, <2>2, <2>3, <2>4 DEF FadeInv, ActiveOK
<1>5. ASSUME NEW from \in {"dir", "speed"}, NEW to \in {"speed", "active"},
             MainStep(from, [main EXCEPT !.at = to]),
             UNCHANGED <<fadeStep, fadeActive>>, fadeDir' = main.dir
      PROVE  FadeInv'
  <2>1. /\ main' = [main EXCEPT !.at = to] /\ main.at = from /\ work' = work
        /\ main \in [at : {"dir", "speed", "active"}, dir : {-1, 1}, speed : Speeds,
                     blocking : BOOLEAN, met : BOOLEAN]
    BY <1>5 DEF MainStep, FadeInv, Places
  <2>2. /\ main' \in Places /\ main'.at = to /\ main'.dir = main.dir /\ main'.met = main.met
    BY <2>1 DEF Places
  <2>3. StoringOK /\ main.dir \in {-1, 1}
    BY <1>5, <2>1 DEF FadeInv, Storing, StoringOK
  <2>4. StoringOK'
    BY <1>5, <2>1, <2>2, <2>3 DEF StoringOK, Placed, Begin
  <2>5. ActiveOK'
    BY <1>5, <2>3, Ends DEF ActiveOK, StoringOK, Placed
  <2>6. QED
    BY <1>5, <2>2, <2>3, <2>4, <2>5 DEF FadeInv
<1>6. CASE FadeDir
  BY <1>5, <1>6 DEF FadeDir
<1>7. CASE DoFade
  <2>1. main.at = "speed" /\ fadeDir = main.dir
    BY <1>7 DEF DoFade, MainStep, FadeInv, Storing, StoringOK
  <2>2. QED
    BY <1>5, <1>7, <2>1 DEF DoFade
<1>8. CASE FadeActive
  <2>1. /\ main.at = "active" /\ fadeActive' = TRUE /\ UNCHANGED <<fadeStep, fadeDir>>
        /\ main' = IF main.blocking THEN [at |-> "fading", dir |-> main.dir] ELSE [at |-> "game"]
    BY <1>8 DEF FadeActive, MainStep, At
  <2>2. main.dir \in {-1, 1} /\ fadeDir = main.dir /\ Placed(main.dir)
    BY <2>1 DEF FadeInv, Storing, StoringOK
  <2>3. ActiveOK'
    BY <2>1, <2>2, Ends DEF ActiveOK, Placed
  <2>4. main' \in Places /\ ~Storing' /\ (main'.at = "fading" => main'.dir = main.dir)
    BY <2>1, <2>2 DEF Places, Storing
  <2>5. main'.at = "fading" => FadingOK'
    BY <2>1, <2>2, <2>4 DEF FadingOK
  <2>6. QED
    BY <2>1, <2>3, <2>4, <2>5 DEF FadeInv
<1>9. QED
  BY <1>2, <1>3, <1>4, <1>6, <1>7, <1>8 DEF GoOn, Call

(* Everything else leaves the fader and the program alone, and begins no work. *)
LEMMA FadeFrame ==
  ASSUME [VideoNext]_videoVars
  PROVE  \/ ProcessFading \/ LastLine \/ GoOn \/ Call
         \/ UNCHANGED <<fadeVars, main>> /\ (work' = work \/ (work # "none" /\ work' # "fade"))
<1>1. ASSUME Older, work' = work PROVE UNCHANGED <<fadeVars, main>>
  BY <1>1 DEF Older
<1>5. CASE VsyncPulse \/ Line \/ Render
  BY <1>1, <1>5 DEF VsyncPulse, Line, Render
<1>2. CASE ChooseBank \/ MixBlock \/ MixRest
  BY <1>2 DEF ChooseBank, MixBlock, MixRest, Mix, WorkStep
<1>3. CASE UNCHANGED videoVars
  BY <1>3 DEF videoVars
<1>4. QED
  BY <1>2, <1>3, <1>5 DEF VideoNext, Pulse, Work

(* For every number of fader steps and every speed, wherever the interrupt falls *)
(* in the stores that start a fade, and whatever fade it is started over: one    *)
(* that runs is in the table or comes back to it with its next step, and one     *)
(* that is waited for ends with the picture that was asked for.                  *)
THEOREM FadesEndAsAsked == VideoSpec => []FadeEndsAsAsked
<1>1. VideoInit => FadeInv
  <2>1. VideoInit => main = [at |-> "game"] /\ fadeDir = 0 /\ fadeStep = 0 /\ fadeActive = FALSE
    BY DEF VideoInit
  <2>2. main = [at |-> "game"] => main \in Places /\ main.at = "game"
    BY DEF Places
  <2>3. 0 \in {-1, 0, 1} /\ 0 \in 0 .. FADER_STEPS + 1
    BY Steps
  <2>4. QED
    BY <2>1, <2>2, <2>3, Zenon DEF FadeInv, ActiveOK, Storing
<1>2. FadeInv /\ [VideoNext]_videoVars => FadeInv'
  <2>1. SUFFICES ASSUME FadeInv, [VideoNext]_videoVars PROVE FadeInv'
    OBVIOUS
  <2>2. CASE UNCHANGED <<fadeVars, main>> /\ (work' = work \/ (work # "none" /\ work' # "fade"))
    <3>1. Storing' => StoringOK'
      BY <2>1, <2>2 DEF FadeInv, Storing, StoringOK, Placed, Begin, fadeVars
    <3>2. main'.at = "fading" => FadingOK'
      BY <2>1, <2>2 DEF FadeInv, FadingOK, End, Begin, fadeVars
    <3>3. QED
      BY <2>1, <2>2, <3>1, <3>2 DEF FadeInv, ActiveOK, fadeVars
  <2>3. QED
    BY <2>1, <2>2, FadeFrame, ProcessFadingStays, LastLineMeets, FadeCallKeeps
<1>3. FadeInv => FadeEndsAsAsked
  BY DEF FadeInv, ActiveOK, FadingOK, FadeEndsAsAsked
<1>4. QED
  BY <1>1, <1>2, <1>3, PTL DEF VideoSpec

-----------------------------------------------------------------------------
(***************************************************************************)
(* The mixing banks.  What has been played of the bank that plays, and     *)
(* mixed of the other: the work never outlasts the field, and a field      *)
(* plays a bank.                                                           *)
(***************************************************************************)
\* The samples of this field so far: one with every second pulse, then one a line.
SoFar == IF phase = "vsync" THEN (Half - pulse + 1) \div 2
         ELSE (Half \div 2) + (Lines - pulse)

\* The bank that plays is the one that was chosen for the last field's work,
\* until the work of this one chooses again.
Base == IF (mixBank = 0) <=> work \in {"fade", "bank"} THEN MIX_BANK_SIZE ELSE 0
Other == MIX_BANK_SIZE - Base

\* How far the work has mixed the other bank.
MixedSoFar == IF work = "none" THEN MIX_BANK_SIZE ELSE IF work = "rest" THEN Block ELSE 0

WorkSteps == {"none", "fade", "bank", "mix", "rest"}

\* The pulses since the field's last line, the frame's lines being one with its
\* first: the work began then, so it is over before the next one (MaxWork).
Elapsed == IF phase = "vsync" THEN Half - pulse
           ELSE Half + (Lines - pulse) - (IF pulse < Lines - First THEN Count ELSE 0)

AgeInv == age \in Int /\ (work # "none" => age = Elapsed)

SoundInv ==
    /\ mixBank \in {0, 1} /\ work \in WorkSteps
    /\ mixPos = Base + SoFar
    /\ \A s \in fresh : s \in Nat /\ s < 2 * MIX_BANK_SIZE
    /\ \A j \in 0 .. MIX_BANK_SIZE - 1 : /\ Base + j \in fresh <=> j >= SoFar
                                         /\ Other + j \in fresh <=> j < MixedSoFar

(* A bank is as long as a field's samples. *)
LEMMA BankSize ==
  /\ MIX_BANK_SIZE \in Nat /\ MIX_BANK_SIZE > 0 /\ MIX_BANK_SIZE = (Half \div 2) + Lines
  /\ Half \in Nat /\ Half > 0 /\ Half % 2 = 0 /\ Half \div 2 \in Nat /\ 2 * (Half \div 2) = Half
  /\ Lines \in Nat /\ First \in Nat /\ Count \in Nat /\ First + Count + 1 < Lines
  /\ Block \in Nat /\ Block < MIX_BANK_SIZE
<1>1. Half \in Nat /\ Half > 0 /\ Half % 2 = 0
  BY VideoAssumption DEF Half
<1>2. Half \div 2 \in Nat /\ 2 * (Half \div 2) = Half
  BY <1>1
<1>3. Lines \in Nat /\ First \in Nat /\ Count \in Nat /\ First + Count + 1 < Lines
  BY VideoAssumption
<1>4. MIX_BANK_SIZE \in Nat /\ MIX_BANK_SIZE > 0 /\ MIX_BANK_SIZE = (Half \div 2) + Lines
  BY <1>2, <1>3 DEF MIX_BANK_SIZE
<1>5. Block \in Nat /\ Block < MIX_BANK_SIZE
  BY <1>4, VideoAssumption
<1>6. QED
  BY <1>1, <1>2, <1>3, <1>4, <1>5

(* A field's samples do not reach beyond its bank before its last line. *)
LEMMA FieldFits ==
  ASSUME NEW ph \in {"vsync", "hsync"}, NEW p \in Int, p >= 1,
         ph = "vsync" => p <= Half, ph = "hsync" => p <= Lines,
         NEW played,
         played = IF ph = "vsync" THEN (Half - p + 1) \div 2 ELSE (Half \div 2) + (Lines - p)
  PROVE  played \in Nat /\ played < MIX_BANK_SIZE
<1>1. CASE ph = "vsync"
  <2>1. p <= Half
    BY <1>1
  <2> DEFINE x == Half - p + 1
  <2>2. x \in Nat /\ x <= Half
    BY <2>1, BankSize
  <2>3. played = x \div 2
    BY <1>1
  <2> HIDE DEF x
  <2>4. x \div 2 \in Nat /\ 2 * (x \div 2) <= x
    BY <2>2
  <2>5. x \div 2 <= Half \div 2
    BY <2>2, <2>4, BankSize
  <2>6. QED
    <3>1. Lines > 0
      BY BankSize
    <3>2. QED
      BY <2>3, <2>4, <2>5, <3>1, BankSize
<1>2. CASE ph = "hsync"
  <2>1. p <= Lines /\ played = (Half \div 2) + (Lines - p)
    BY <1>2
  <2>2. QED
    BY <2>1, BankSize
<1>3. QED
  BY <1>1, <1>2

(* In every state of the pulses. *)
LEMMA SoFarIs ==
  /\ SyncInv => SoFar \in Nat /\ SoFar < MIX_BANK_SIZE
  /\ SyncInv' => SoFar' \in Nat /\ SoFar' < MIX_BANK_SIZE
<1>1. ASSUME SyncInv PROVE SoFar \in Nat /\ SoFar < MIX_BANK_SIZE
  <2>1. /\ phase \in {"vsync", "hsync"} /\ pulse \in Int /\ pulse >= 1
        /\ phase = "vsync" => pulse <= Half
        /\ phase = "hsync" => pulse <= Lines
    BY <1>1, BankSize DEF SyncInv
  <2>2. SoFar = IF phase = "vsync" THEN (Half - pulse + 1) \div 2 ELSE (Half \div 2) + (Lines - pulse)
    BY DEF SoFar
  <2>3. QED
    BY <2>1, <2>2, FieldFits
<1>2. ASSUME SyncInv' PROVE SoFar' \in Nat /\ SoFar' < MIX_BANK_SIZE
  <2>1. /\ phase' \in {"vsync", "hsync"} /\ pulse' \in Int /\ pulse' >= 1
        /\ phase' = "vsync" => pulse' <= Half
        /\ phase' = "hsync" => pulse' <= Lines
    BY <1>2, BankSize DEF SyncInv
  <2>2. SoFar' = IF phase' = "vsync" THEN (Half - pulse' + 1) \div 2
                 ELSE (Half \div 2) + (Lines - pulse')
    BY DEF SoFar
  <2>3. QED
    BY <2>1, <2>2, FieldFits
<1>3. QED
  BY <1>1, <1>2

(* The two banks are the ring. *)
LEMMA BanksAre ==
  ASSUME mixBank \in {0, 1}
  PROVE  /\ Base \in {0, MIX_BANK_SIZE} /\ Other \in {0, MIX_BANK_SIZE} /\ Base + Other = MIX_BANK_SIZE
         /\ Base \in Nat /\ Other \in Nat /\ Base # Other
         /\ \/ Base = 0 /\ Other = MIX_BANK_SIZE
            \/ Base = MIX_BANK_SIZE /\ Other = 0
BY BankSize DEF Base, Other

(* Remainders of what is not far beyond. *)
LEMMA RingPlace ==
  ASSUME NEW x \in Nat
  PROVE  /\ x < 2 * MIX_BANK_SIZE => x % (2 * MIX_BANK_SIZE) = x
         /\ x = 2 * MIX_BANK_SIZE => x % (2 * MIX_BANK_SIZE) = 0
<1> DEFINE r == 2 * MIX_BANK_SIZE
<1>1. r \in Nat /\ r > 0
  BY BankSize
<1> HIDE DEF r
<1>2. /\ x < r => x % r = x
      /\ x = r => x % r = 0
  BY <1>1
<1>3. QED
  BY <1>2 DEF r

(* Samples play, and the field does not end. *)
LEMMA PlayGoesOn ==
  ASSUME SyncInv, SoundInv, NEW n \in Nat, Play(n), work' = work,
         SoFar' = SoFar + n, SoFar + n < MIX_BANK_SIZE
  PROVE  SoundInv'
<1>1. /\ SoFar \in Nat /\ SoFar < MIX_BANK_SIZE /\ mixBank \in {0, 1} /\ mixBank' = mixBank
      /\ mixPos = Base + SoFar
  BY SoFarIs DEF SoundInv, Play
<1>2. /\ Base' = Base /\ Other' = Other /\ MixedSoFar' = MixedSoFar /\ Base \in Nat /\ Other \in Nat
      /\ Base \in {0, MIX_BANK_SIZE} /\ Base + Other = MIX_BANK_SIZE
  BY <1>1, BanksAre DEF Base, Other, MixedSoFar
<1>3. \A i \in 0 .. n - 1 : (mixPos + i) % (2 * MIX_BANK_SIZE) = Base + (SoFar + i)
  <2>1. ASSUME NEW i \in 0 .. n - 1
        PROVE  (mixPos + i) % (2 * MIX_BANK_SIZE) = Base + (SoFar + i)
    <3>1. mixPos + i = Base + (SoFar + i) /\ mixPos + i \in Nat /\ mixPos + i < 2 * MIX_BANK_SIZE
      BY <1>1, <1>2, BankSize
    <3>2. QED
      BY <3>1, RingPlace
  <2>2. QED
    BY <2>1
<1>4. mixPos' = Base + (SoFar + n)
  <2>1. mixPos + n = Base + (SoFar + n) /\ mixPos + n \in Nat /\ mixPos + n < 2 * MIX_BANK_SIZE
    BY <1>1, <1>2, BankSize
  <2>2. (mixPos + n) % (2 * MIX_BANK_SIZE) = mixPos + n
    BY <2>1, RingPlace
  <2>3. QED
    BY <2>1, <2>2 DEF Play
<1>5. \A s : s \in fresh' <=> s \in fresh /\ ~(\E i \in 0 .. n - 1 : s = Base + (SoFar + i))
  BY <1>3 DEF Play
<1>6. ASSUME NEW j \in 0 .. MIX_BANK_SIZE - 1
      PROVE  /\ Base + j \in fresh' <=> j >= SoFar + n
             /\ Other + j \in fresh' <=> j < MixedSoFar
  <2>1. /\ Base + j \in fresh <=> j >= SoFar
        /\ Other + j \in fresh <=> j < MixedSoFar
    BY DEF SoundInv
  <2>2. (\E i \in 0 .. n - 1 : Base + j = Base + (SoFar + i)) <=> j >= SoFar /\ j < SoFar + n
    <3>1. ASSUME j >= SoFar, j < SoFar + n
          PROVE  \E i \in 0 .. n - 1 : Base + j = Base + (SoFar + i)
      <4>1. j - SoFar \in 0 .. n - 1 /\ Base + j = Base + (SoFar + (j - SoFar))
        BY <1>1, <1>2, <3>1, BankSize
      <4>2. QED
        BY <4>1
    <3>2. ASSUME NEW i \in 0 .. n - 1, Base + j = Base + (SoFar + i)
          PROVE  j >= SoFar /\ j < SoFar + n
      BY <1>1, <1>2, <3>2, BankSize
    <3>3. QED
      BY <3>1, <3>2
  <2>3. ~(\E i \in 0 .. n - 1 : Other + j = Base + (SoFar + i))
    <3>1. SUFFICES ASSUME NEW i \in 0 .. n - 1, Other + j = Base + (SoFar + i)
                   PROVE  FALSE
      OBVIOUS
    <3>2. SoFar + i \in 0 .. MIX_BANK_SIZE - 1 /\ j \in 0 .. MIX_BANK_SIZE - 1
      BY <1>1, BankSize
    <3>3. \/ Base = 0 /\ Other = MIX_BANK_SIZE
          \/ Base = MIX_BANK_SIZE /\ Other = 0
      BY <1>1, BanksAre
    <3>4. CASE Base = 0 /\ Other = MIX_BANK_SIZE
      BY ONLY <3>1, <3>2, <3>4, BankSize
    <3>5. CASE Base = MIX_BANK_SIZE /\ Other = 0
      BY ONLY <3>1, <3>2, <3>5, BankSize
    <3>6. QED
      BY <3>3, <3>4, <3>5
  <2>4. j >= SoFar + n <=> j >= SoFar /\ ~(j >= SoFar /\ j < SoFar + n)
    BY <1>1, BankSize
  <2>5. QED
    BY <1>5, <2>1, <2>2, <2>3, <2>4
<1>7. \A s \in fresh' : s \in Nat /\ s < 2 * MIX_BANK_SIZE
  BY <1>5 DEF SoundInv
<1>8. QED
  BY <1>1, <1>2, <1>4, <1>6, <1>7 DEF SoundInv

(* The last line finds the work done. *)
LEMMA WorkIsOver ==
  ASSUME SyncInv, AgeInv, LastLine
  PROVE  work = "none"
<1>1. SUFFICES ASSUME work # "none" PROVE FALSE
  OBVIOUS
<1>2. phase = "hsync" /\ pulse = 1 /\ age < MaxWork /\ age = Elapsed
  BY <1>1 DEF LastLine, Young, AgeInv
<1>3. Elapsed = Half + (Lines - 1) - Count
  BY <1>2, BankSize DEF Elapsed
<1>4. MaxWork \in Nat /\ MaxWork < Half + Lines - Count
  BY VideoAssumption
<1>5. QED
  BY <1>2, <1>3, <1>4, BankSize

(* Every pulse makes the work older by one. *)
LEMMA AgeGoesOn ==
  ASSUME SyncInv, AgeInv, [VideoNext]_videoVars
  PROVE  AgeInv'
<1>1. CASE VsyncPulse
  <2>1. /\ phase = "vsync" /\ pulse \in 1 .. Half /\ work' = work
        /\ age' = IF work = "none" THEN 0 ELSE age + 1
        /\ IF pulse = 1 THEN phase' = "hsync" /\ pulse' = Lines
                        ELSE pulse' = pulse - 1 /\ phase' = phase
    BY <1>1 DEF VsyncPulse, Older, SyncInv
  <2>2. Elapsed = Half - pulse /\ Elapsed' = Half - pulse + 1
    BY <2>1, BankSize DEF Elapsed
  <2>3. QED
    BY <2>1, <2>2, BankSize DEF AgeInv
<1>2. CASE Line \/ Render
  <2>1. /\ phase = "hsync" /\ phase' = "hsync" /\ work' = work
        /\ age' = IF work = "none" THEN 0 ELSE age + 1
        /\ pulse' = IF Line THEN pulse - 1 ELSE pulse - 1 - Count
        /\ pulse \in 1 .. Lines - First - 1 - Count \/ pulse \in Lines - First .. Lines
        /\ Line => ~InWindow(pulse - 1)
        /\ ~Line => InWindow(pulse - 1)
    BY <1>2 DEF Line, Render, Older, SyncInv
  <2>2. Elapsed' = Elapsed + 1 /\ Elapsed \in Int
    BY <2>1, BankSize DEF Elapsed, InWindow
  <2>3. QED
    BY <2>1, <2>2 DEF AgeInv
<1>3. CASE LastLine
  <2>1. phase' = "vsync" /\ pulse' = Half /\ age' = 0
    BY <1>3 DEF LastLine
  <2>2. QED
    BY <2>1, BankSize DEF AgeInv, Elapsed
<1>4. CASE Work
  <2>1. UNCHANGED <<phase, pulse, age>> /\ work # "none"
    BY <1>4 DEF Work, WorkStep, ProcessFading, ChooseBank, MixBlock, MixRest, Mix, syncVars
  <2>2. QED
    BY <2>1 DEF AgeInv, Elapsed
<1>5. CASE GoOn \/ Call \/ UNCHANGED videoVars
  <2>1. UNCHANGED <<phase, pulse, age, work>>
    BY <1>5 DEF GoOn, FrameSeen, ClearVsyncFlag, FadeDir, DoFade, FadeActive, Faded,
                Call, WaitVsync, FadeAtOnce, StartFade, MainStep, videoVars, syncVars
  <2>2. QED
    BY <2>1 DEF AgeInv, Elapsed
<1>6. QED
  BY <1>1, <1>2, <1>3, <1>4, <1>5 DEF VideoNext, Pulse

(* The field ends: the bank that plays has been played, the other is mixed. *)
LEMMA PlayEnds ==
  ASSUME SyncInv, SoundInv, AgeInv, LastLine
  PROVE  SoundInv'
<1>1. /\ phase = "hsync" /\ pulse = 1 /\ work = "none" /\ work' = "fade" /\ mixBank' = mixBank
      /\ phase' = "vsync" /\ pulse' = Half
      /\ mixPos' = (mixPos + 1) % (2 * MIX_BANK_SIZE)
      /\ fresh' = fresh \ {(mixPos + i) % (2 * MIX_BANK_SIZE) : i \in 0 .. 1 - 1}
  BY WorkIsOver DEF LastLine, Play
<1>2. SoFar = MIX_BANK_SIZE - 1 /\ SoFar' = 0
  <2>1. SoFar = (Half \div 2) + (Lines - 1)
    BY <1>1 DEF SoFar
  <2>2. SoFar' = (Half - Half + 1) \div 2
    BY <1>1 DEF SoFar
  <2>3. Half - Half + 1 = 1
    BY BankSize
  <2>4. QED
    BY <2>1, <2>2, <2>3, BankSize
<1>3. /\ Base \in Nat /\ Other \in Nat /\ Base + Other = MIX_BANK_SIZE
      /\ \/ Base = 0 /\ Other = MIX_BANK_SIZE
         \/ Base = MIX_BANK_SIZE /\ Other = 0
      /\ mixPos = Base + SoFar /\ mixBank \in {0, 1}
  BY BanksAre, BankSize DEF SoundInv
<1>4. Base' = Other /\ Other' = Base
  <2>1. Base = IF mixBank = 0 THEN 0 ELSE MIX_BANK_SIZE
    BY <1>1, <1>3 DEF Base
  <2>2. Base' = IF mixBank = 0 THEN MIX_BANK_SIZE ELSE 0
    BY <1>1, <1>3 DEF Base
  <2>3. Other' = MIX_BANK_SIZE - Base'
    BY DEF Other
  <2>4. QED
    BY <1>3, <2>1, <2>2, <2>3, BankSize
<1>5. mixPos' = Base' + SoFar'
  <2>1. mixPos + 1 = Base + MIX_BANK_SIZE /\ mixPos + 1 \in Nat
    BY <1>2, <1>3, BankSize
  <2>2. mixPos' = Other
    <3>1. CASE Base = 0
      BY <1>1, <1>3, <2>1, <3>1, RingPlace, BankSize
    <3>2. CASE Base = MIX_BANK_SIZE
      <4>1. mixPos + 1 = 2 * MIX_BANK_SIZE /\ Other = 0
        BY <1>3, <2>1, <3>2, BankSize
      <4>2. QED
        BY <1>1, <2>1, <4>1, RingPlace
    <3>3. QED
      BY <1>3, <3>1, <3>2
  <2>3. QED
    BY <1>2, <1>3, <1>4, <2>2
<1>6. \A s : s \in fresh' <=> s \in fresh /\ s # mixPos
  <2>1. mixPos \in Nat /\ mixPos < 2 * MIX_BANK_SIZE
    BY <1>2, <1>3, BankSize
  <2>2. (mixPos + 0) % (2 * MIX_BANK_SIZE) = mixPos
    <3>1. mixPos + 0 = mixPos
      BY <2>1
    <3>2. QED
      BY <2>1, <3>1, RingPlace
  <2>3. 0 .. 1 - 1 = {0}
    OBVIOUS
  <2>4. {(mixPos + i) % (2 * MIX_BANK_SIZE) : i \in 0 .. 1 - 1} = {mixPos}
    BY <2>2, <2>3
  <2>5. QED
    BY <1>1, <2>4
<1>7. ASSUME NEW j \in 0 .. MIX_BANK_SIZE - 1
      PROVE  Other + j \in fresh' /\ Base + j \notin fresh'
  <2>1. /\ Base + j \in fresh <=> j >= SoFar
        /\ Other + j \in fresh <=> j < MixedSoFar
    BY DEF SoundInv
  <2>2. MixedSoFar = MIX_BANK_SIZE /\ j \in Nat /\ j < MIX_BANK_SIZE
    BY <1>1, BankSize DEF MixedSoFar
  <2>3. Other + j \in fresh
    BY <2>1, <2>2
  <2>4. Other + j # mixPos
    BY <1>2, <1>3, <2>2, BankSize
  <2>5. Base + j \in fresh => Base + j = mixPos
    BY <1>2, <1>3, <2>1, <2>2, BankSize
  <2>6. QED
    BY <1>6, <2>3, <2>4, <2>5
<1>8. MixedSoFar' = 0
  BY <1>1 DEF MixedSoFar
<1>9. \A j \in 0 .. MIX_BANK_SIZE - 1 : /\ Base' + j \in fresh' <=> j >= SoFar'
                                        /\ Other' + j \in fresh' <=> j < MixedSoFar'
  <2>1. ASSUME NEW j \in 0 .. MIX_BANK_SIZE - 1
        PROVE  /\ Base' + j \in fresh' <=> j >= SoFar'
               /\ Other' + j \in fresh' <=> j < MixedSoFar'
    <3>1. j >= 0 /\ ~(j < 0)
      BY BankSize
    <3>2. Base' + j \in fresh' /\ Other' + j \notin fresh'
      BY <1>4, <1>7
    <3>3. QED
      BY <1>2, <1>8, <3>1, <3>2
  <2>2. QED
    BY <2>1
<1>10. QED
  BY <1>1, <1>3, <1>5, <1>6, <1>9 DEF SoundInv, WorkSteps

(* A pulse, a line and the frame play what they take of the field.         *)
LEMMA PulsePlays ==
  ASSUME SyncInv, SoundInv, VsyncPulse \/ Line \/ Render
  PROVE  SoundInv'
<1>1. SyncInv' /\ SoFar \in Nat /\ SoFar' \in Nat /\ SoFar' < MIX_BANK_SIZE
  <2>1. SyncInv'
    BY VsyncPulseCounts, LinesCount
  <2>2. SoFar' \in Nat /\ SoFar' < MIX_BANK_SIZE
    BY <2>1, SoFarIs
  <2>3. QED
    BY <2>1, <2>2, SoFarIs
<1>2. CASE VsyncPulse
  <2>1. /\ phase = "vsync" /\ pulse \in Int /\ pulse >= 1 /\ pulse <= Half /\ work' = work
        /\ SoFar = (Half - pulse + 1) \div 2
    BY <1>2, BankSize DEF VsyncPulse, SyncInv, SoFar
  <2>2. SoFar' = (Half - pulse + 2) \div 2
    <3>1. CASE pulse = 1
      <4>1. SoFar' = (Half \div 2) + (Lines - Lines)
        BY <1>2, <3>1 DEF VsyncPulse, SoFar
      <4>2. (Half - pulse + 2) \div 2 = Half \div 2
        BY <3>1, BankSize
      <4>3. QED
        BY <4>1, <4>2, BankSize
    <3>2. CASE pulse # 1
      <4>1. SoFar' = (Half - (pulse - 1) + 1) \div 2
        BY <1>2, <3>2 DEF VsyncPulse, SoFar
      <4>2. Half - (pulse - 1) + 1 = Half - pulse + 2
        BY <2>1, BankSize
      <4>3. QED
        BY <4>1, <4>2
    <3>3. QED
      BY <3>1, <3>2
  <2>3. CASE (pulse - 1) % 2 = 1
    <3>1. Play(1)
      BY <1>2, <2>3 DEF VsyncPulse
    <3>2. SoFar' = SoFar + 1
      BY <2>1, <2>2, <2>3, BankSize
    <3>3. QED
      BY <1>1, <2>1, <3>1, <3>2, PlayGoesOn
  <2>4. CASE (pulse - 1) % 2 # 1
    <3>1. UNCHANGED soundVars
      BY <1>2, <2>4 DEF VsyncPulse
    <3>2. SoFar' = SoFar
      BY <2>1, <2>2, <2>4, BankSize
    <3>3. QED
      BY <2>1, <3>1, <3>2 DEF SoundInv, soundVars, Base, Other, MixedSoFar
  <2>5. QED
    BY <2>3, <2>4
<1>3. CASE Line
  <2>1. /\ phase = "hsync" /\ phase' = "hsync" /\ pulse' = pulse - 1 /\ Play(1) /\ work' = work
        /\ pulse \in Int
    BY <1>3, BankSize DEF Line, SyncInv
  <2>2. SoFar = (Half \div 2) + (Lines - pulse) /\ SoFar' = (Half \div 2) + (Lines - (pulse - 1))
    BY <2>1 DEF SoFar
  <2>3. SoFar' = SoFar + 1
    BY <2>1, <2>2, BankSize
  <2>4. QED
    BY <1>1, <2>1, <2>3, PlayGoesOn
<1>4. CASE Render
  <2>1. /\ phase = "hsync" /\ phase' = "hsync" /\ pulse' = pulse - 1 - Count /\ Play(1 + Count)
        /\ work' = work /\ pulse \in Int
    BY <1>4, BankSize DEF Render, SyncInv
  <2>2. SoFar = (Half \div 2) + (Lines - pulse)
        /\ SoFar' = (Half \div 2) + (Lines - (pulse - 1 - Count))
    BY <2>1 DEF SoFar
  <2>3. SoFar' = SoFar + (1 + Count) /\ 1 + Count \in Nat
    BY <2>1, <2>2, BankSize
  <2>4. QED
    BY <1>1, <2>1, <2>3, PlayGoesOn
<1>5. QED
  BY <1>2, <1>3, <1>4

(* The work fades, chooses the bank that has been played, and mixes it. *)
LEMMA WorkMixes ==
  ASSUME SyncInv, SoundInv, Work
  PROVE  SoundInv'
<1>1. SoFar' = SoFar /\ SoFar \in Nat /\ SoFar < MIX_BANK_SIZE /\ mixBank \in {0, 1}
  <2>1. UNCHANGED syncVars
    BY DEF Work, WorkStep, ProcessFading, ChooseBank, MixBlock, MixRest, Mix
  <2>2. QED
    BY <2>1, SoFarIs DEF syncVars, SoFar, SoundInv
<1>2. CASE ProcessFading
  <2>1. work = "fade" /\ work' = "bank" /\ UNCHANGED soundVars
    BY <1>2 DEF ProcessFading, WorkStep
  <2>2. Base' = Base /\ Other' = Other /\ MixedSoFar' = MixedSoFar
    BY <2>1 DEF Base, Other, MixedSoFar, soundVars
  <2>3. QED
    BY <1>1, <2>1, <2>2 DEF SoundInv, soundVars, WorkSteps
<1>3. CASE ChooseBank
  <2>1. /\ work = "bank" /\ work' = "mix" /\ mixBank' = 1 - mixBank /\ mixPos' = mixPos
        /\ fresh' = fresh
    BY <1>3 DEF ChooseBank, WorkStep
  <2>2. mixBank' \in {0, 1} /\ (mixBank' = 0 <=> mixBank # 0)
    BY <1>1, <2>1
  <2>3. Base' = Base /\ Other' = Other /\ MixedSoFar' = MixedSoFar
    BY <2>1, <2>2 DEF Base, Other, MixedSoFar
  <2>4. QED
    BY <1>1, <2>1, <2>2, <2>3 DEF SoundInv, WorkSteps
<1>4. ASSUME NEW from, NEW to, NEW i \in Nat, NEW n \in Nat, Mix(from, to, i, n),
             from \in {"mix", "rest"}, to \in {"rest", "none"}, i + n <= MIX_BANK_SIZE,
             MixedSoFar = i, MixedSoFar' = i + n
      PROVE  SoundInv'
  <2>1. /\ work = from /\ work' = to /\ mixBank' = mixBank /\ mixPos' = mixPos
        /\ fresh' = fresh \cup Mixed(i, n)
    BY <1>4 DEF Mix, WorkStep
  <2>2. Base' = Base /\ Other' = Other
    BY <1>4, <2>1 DEF Base, Other
  <2>3. /\ Base \in Nat /\ Other \in Nat /\ Base + Other = MIX_BANK_SIZE
        /\ \/ Base = 0 /\ Other = MIX_BANK_SIZE
           \/ Base = MIX_BANK_SIZE /\ Other = 0
    BY <1>1, BanksAre, BankSize
  <2>4. (1 - mixBank) * MIX_BANK_SIZE = Other
    BY <1>1, <1>4, <2>1, BankSize DEF Base, Other
  <2>5. \A s : s \in fresh' <=> s \in fresh \/ \E j \in i .. i + n - 1 : s = Other + j
    BY <2>1, <2>4 DEF Mixed
  <2>6. ASSUME NEW j \in 0 .. MIX_BANK_SIZE - 1
        PROVE  /\ Base + j \in fresh' <=> j >= SoFar
               /\ Other + j \in fresh' <=> j < i + n
    <3>1. /\ Base + j \in fresh <=> j >= SoFar
          /\ Other + j \in fresh <=> j < i
      BY <1>4 DEF SoundInv
    <3>2. ~(\E x \in i .. i + n - 1 : Base + j = Other + x)
      BY <1>4, <2>3, BankSize
    <3>3. (\E x \in i .. i + n - 1 : Other + j = Other + x) <=> j >= i /\ j < i + n
      <4>1. ASSUME j >= i, j < i + n PROVE \E x \in i .. i + n - 1 : Other + j = Other + x
        <5>1. j \in i .. i + n - 1
          BY <1>4, <4>1, BankSize
        <5>2. QED
          BY <5>1
      <4>2. ASSUME NEW x \in i .. i + n - 1, Other + j = Other + x PROVE j >= i /\ j < i + n
        BY <1>4, <2>3, <4>2, BankSize
      <4>3. QED
        BY <4>1, <4>2
    <3>4. j < i + n <=> j < i \/ (j >= i /\ j < i + n)
      BY <1>4, BankSize
    <3>5. QED
      BY <2>5, <3>1, <3>2, <3>3, <3>4
  <2>7. \A s \in fresh' : s \in Nat /\ s < 2 * MIX_BANK_SIZE
    <3>1. ASSUME NEW j \in i .. i + n - 1
          PROVE  Other + j \in Nat /\ Other + j < 2 * MIX_BANK_SIZE
      BY <1>4, <2>3, BankSize
    <3>2. QED
      BY <2>5, <3>1 DEF SoundInv
  <2>8. QED
    BY <1>1, <1>4, <2>1, <2>2, <2>6, <2>7 DEF SoundInv, WorkSteps
<1>5. CASE MixBlock
  <2>1. /\ Mix("mix", "rest", 0, Block) /\ work = "mix" /\ work' = "rest" /\ Block \in Nat
        /\ 0 + Block <= MIX_BANK_SIZE /\ 0 + Block = Block
    BY <1>5, BankSize DEF MixBlock, Mix, WorkStep
  <2>2. MixedSoFar = 0 /\ MixedSoFar' = Block
    BY <2>1 DEF MixedSoFar
  <2>3. QED
    BY <1>4, <2>1, <2>2
<1>6. CASE MixRest
  <2>1. /\ Mix("rest", "none", Block, MIX_BANK_SIZE - Block) /\ work = "rest" /\ work' = "none"
        /\ Block \in Nat /\ MIX_BANK_SIZE - Block \in Nat
        /\ Block + (MIX_BANK_SIZE - Block) = MIX_BANK_SIZE /\ MIX_BANK_SIZE <= MIX_BANK_SIZE
    BY <1>6, BankSize DEF MixRest, Mix, WorkStep
  <2>2. MixedSoFar = Block /\ MixedSoFar' = MIX_BANK_SIZE
    BY <2>1 DEF MixedSoFar
  <2>3. QED
    BY <1>4, <2>1, <2>2
<1>7. QED
  BY <1>2, <1>3, <1>5, <1>6 DEF Work

(* What plays is mixed, and what is mixed has been played. *)
LEMMA SoundInvGives ==
  ASSUME SyncInv, SoundInv
  PROVE  SoundKeepsAhead
<1>1. /\ SoFar \in Nat /\ SoFar < MIX_BANK_SIZE /\ mixBank \in {0, 1} /\ mixPos = Base + SoFar
  BY SoFarIs DEF SoundInv
<1>2. mixPos \in fresh
  <2>1. SoFar \in 0 .. MIX_BANK_SIZE - 1 /\ SoFar >= SoFar
    BY <1>1, BankSize
  <2>2. QED
    BY <1>1, <2>1 DEF SoundInv
<1>3. ASSUME work \in {"mix", "rest"}, NEW i \in Nat, NEW n \in Nat, i + n <= MIX_BANK_SIZE,
             MixedSoFar = i
      PROVE  Mixed(i, n) \cap fresh = {}
  <2>1. (1 - mixBank) * MIX_BANK_SIZE = Other
    BY <1>1, <1>3, BankSize DEF Base, Other
  <2>2. ASSUME NEW j \in i .. i + n - 1
        PROVE  Other + j \notin fresh
    <3>1. j \in 0 .. MIX_BANK_SIZE - 1 /\ ~(j < i)
      BY <1>3, BankSize
    <3>2. QED
      BY <1>3, <3>1 DEF SoundInv
  <2>3. QED
    BY <2>1, <2>2 DEF Mixed
<1>4. work = "mix" => Mixed(0, Block) \cap fresh = {}
  <2>1. SUFFICES ASSUME work = "mix" PROVE Mixed(0, Block) \cap fresh = {}
    OBVIOUS
  <2>2. MixedSoFar = 0 /\ Block \in Nat /\ 0 + Block <= MIX_BANK_SIZE /\ 0 \in Nat
    BY <2>1, BankSize DEF MixedSoFar
  <2>3. QED
    BY <1>3, <2>1, <2>2
<1>5. work = "rest" => Mixed(Block, MIX_BANK_SIZE - Block) \cap fresh = {}
  <2>1. SUFFICES ASSUME work = "rest" PROVE Mixed(Block, MIX_BANK_SIZE - Block) \cap fresh = {}
    OBVIOUS
  <2>2. /\ MixedSoFar = Block /\ Block \in Nat /\ MIX_BANK_SIZE - Block \in Nat
        /\ Block + (MIX_BANK_SIZE - Block) <= MIX_BANK_SIZE
    BY <2>1, BankSize DEF MixedSoFar
  <2>3. QED
    BY <1>3, <2>1, <2>2
<1>6. QED
  BY <1>2, <1>4, <1>5 DEF SoundKeepsAhead

(* The program leaves the pulses, the work and the samples alone. *)
LEMMA ProgramPlays ==
  ASSUME SoundInv, UNCHANGED <<syncVars, soundVars, work>>
  PROVE  SoundInv'
BY DEF SoundInv, SoFar, Base, Other, MixedSoFar, syncVars, soundVars

(* For every standard and size of the mixer's first block: a sample is played *)
(* after it was mixed for this turn, and none is mixed over that is still to  *)
(* be played, wherever the field's pulses fall in the vsync work, as long as  *)
(* the work lasts less than a field.                                          *)
THEOREM SoundStaysAhead == VideoSpec => []SoundKeepsAhead
<1>1. VideoInit => SyncInv /\ SoundInv /\ AgeInv
  <2>1. SUFFICES ASSUME VideoInit PROVE SyncInv /\ SoundInv /\ AgeInv
    OBVIOUS
  <2>2. SyncInv
    BY <2>1, VideoAssumption DEF VideoInit, SyncInv, MadeSoFar, Half
  <2>3. /\ work = "none" /\ mixBank = 0 /\ mixPos = 0 /\ phase = "vsync" /\ pulse = Half
        /\ fresh = 0 .. 2 * MIX_BANK_SIZE - 1
    BY <2>1 DEF VideoInit
  <2>4. Base = 0 /\ Other = MIX_BANK_SIZE /\ MixedSoFar = MIX_BANK_SIZE
    BY <2>3, BankSize DEF Base, Other, MixedSoFar
  <2>5. SoFar = 0
    <3>1. SoFar = (Half - Half + 1) \div 2
      BY <2>3 DEF SoFar
    <3>2. Half - Half + 1 = 1
      BY BankSize
    <3>3. QED
      BY <3>1, <3>2
  <2>6. AgeInv
    BY <2>1 DEF VideoInit, AgeInv
  <2>7. QED
    BY <2>2, <2>3, <2>4, <2>5, <2>6, BankSize DEF SoundInv, WorkSteps
<1>2. (SyncInv /\ SoundInv /\ AgeInv) /\ [VideoNext]_videoVars
        => (SyncInv /\ SoundInv /\ AgeInv)'
  <2>1. SUFFICES ASSUME SyncInv, SoundInv, AgeInv, [VideoNext]_videoVars
               PROVE  SyncInv' /\ SoundInv' /\ AgeInv'
    OBVIOUS
  <2>2. SyncInv'
    <3>1. UNCHANGED syncVars => SyncInv'
      BY <2>1 DEF SyncInv, syncVars, MadeSoFar
    <3>2. QED
      BY <2>1, <3>1, SyncFrame, VsyncPulseCounts, LinesCount DEF Pulse, videoVars
  <2>7. AgeInv'
    BY <2>1, AgeGoesOn
  <2>3. CASE Pulse
    BY <2>1, <2>2, <2>3, <2>7, PulsePlays, PlayEnds DEF Pulse
  <2>4. CASE Work
    BY <2>1, <2>2, <2>4, <2>7, WorkMixes
  <2>5. CASE GoOn \/ Call \/ UNCHANGED videoVars
    <3>1. UNCHANGED <<syncVars, soundVars, work>>
      BY <2>5 DEF GoOn, FrameSeen, ClearVsyncFlag, FadeDir, DoFade, FadeActive, Faded,
                  Call, WaitVsync, FadeAtOnce, StartFade, MainStep, videoVars
    <3>2. QED
      BY <2>1, <2>2, <2>7, <3>1, ProgramPlays
  <2>6. QED
    BY <2>1, <2>2, <2>3, <2>4, <2>5 DEF VideoNext
<1>3. SyncInv /\ SoundInv /\ AgeInv => SoundKeepsAhead
  BY SoundInvGives
<1>4. QED
  BY <1>1, <1>2, <1>3, PTL DEF VideoSpec

-----------------------------------------------------------------------------
(***************************************************************************)
(* SoundTracks: effects and song keep to their own halves of the track     *)
(* records.  What TriggerFx relies on from one of its stores to the next   *)
(* (FxRelies) is what an interrupt in between could take away.             *)
(***************************************************************************)

TrackFields == {"playing", "priority", "hold", "patchNo", "fxPatchNo", "note", "loopCount",
                "time", "stream", "curr", "next"}
CallFields == {"at", "patch", "channel", "flags", "hit"}

Shapes ==
    /\ DOMAIN tracks = Channels /\ DOMAIN owner = Channels /\ DOMAIN instrument = Channels
    /\ \A c \in Channels : /\ DOMAIN tracks[c] = TrackFields
                           /\ DOMAIN tracks[c].stream = {"patch", "at"}
    /\ fxCall.at # None => DOMAIN fxCall = CallFields

\* The track plays the effect.
PlaysFx(t, patch) == /\ t.fxPatchNo = patch
                     /\ Stream[patch] # <<>> => t.stream.patch = patch

OwnersPlay == \A c \in Channels : owner[c] # None =>
    tracks[c].playing /\ tracks[c].priority /\ PlaysFx(tracks[c], owner[c])

\* What TriggerFx has done to its track stays.
FxRelies ==
    LET c == fxCall.channel
    IN  /\ fxCall.at \in {None, "claim", "common", "patch", "load", "store"}
        /\ fxCall.at \in {"common", "patch", "load", "store"} /\ c \in Channels =>
             /\ owner[c] = None /\ tracks[c].priority
             /\ fxCall.at = "patch" => fxCall.flags = "fx"
             /\ fxCall.at \in {"load", "store"} => PlaysFx(tracks[c], fxCall.patch)
             /\ fxCall.at = "store" => fxCall.flags = TRUE

\* ProcessMusic and TriggerFx are never both on the way.
Apart == fxCall.at # None => music.at = None

TracksInv == Shapes /\ OwnersPlay /\ FxRelies /\ Apart /\ SongKeepsInstrument

-----------------------------------------------------------------------------
(* TriggerFx.                                                              *)

(* A call begins, and claims a channel, which belongs to no effect then. *)
LEMMA FxBegins ==
  ASSUME TracksInv, NEW p, NEW retrig, TriggerFx(p, retrig) \/ FxClaim
  PROVE  TracksInv'
<1> USE DEF TracksInv, Shapes, OwnersPlay, FxRelies, Apart, SongKeepsInstrument, PlaysFx,
            TrackFields, CallFields, None
<1>1. CASE TriggerFx(p, retrig)
  BY <1>1 DEF TriggerFx
<1>2. CASE FxClaim
  <2>1. /\ fxCall.at = "claim" /\ music.at = None
        /\ fxCall' = [fxCall EXCEPT !.at = "common", !.flags = None]
    BY <1>2 DEF FxClaim, FxStep
  <2>2. /\ DOMAIN fxCall' = CallFields /\ fxCall'.at = "common"
        /\ fxCall'.channel = fxCall.channel
    BY <2>1
  <2>3. \A c \in Channels :
          /\ DOMAIN tracks'[c] = TrackFields
          /\ DOMAIN tracks'[c].stream = {"patch", "at"}
          /\ tracks'[c].patchNo = tracks[c].patchNo
          /\ c # fxCall.channel => tracks'[c] = tracks[c] /\ owner'[c] = owner[c]
          /\ c = fxCall.channel => tracks'[c].priority /\ owner'[c] = None
    BY <1>2 DEF FxClaim, FxStep, NoStream
  <2>4. QED
    BY <1>2, <2>1, <2>2, <2>3 DEF FxClaim, FxStep
<1>3. QED
  BY <1>1, <1>2

(* TriggerCommon's patch for an effect goes to the effect's half of the track. *)
LEMMA FxPatchIsPlayed ==
  ASSUME NEW t, NEW patch,
         DOMAIN t = TrackFields, DOMAIN t.stream = {"patch", "at"}
  PROVE  LET w == WithPatch(t, patch, TRUE)
         IN  /\ DOMAIN w = TrackFields
             /\ DOMAIN w.stream = {"patch", "at"}
             /\ PlaysFx(w, patch)
             /\ w.patchNo = t.patchNo /\ w.priority = t.priority
<1> USE DEF TrackFields, PlaysFx, WithPatch, NoStream
<1>1. CASE Stream[patch] = <<>>
  BY <1>1
<1>2. CASE Stream[patch] # <<>>
  <2>1. WithPatch(t, patch, TRUE) =
          [t EXCEPT !.fxPatchNo = patch, !.stream = [patch |-> patch, at |-> 1],
                    !.curr = 0, !.next = Stream[patch][1][1]]
    BY <1>2
  <2>2. QED
    BY <1>2, <2>1
<1>3. QED
  BY <1>1, <1>2

(* The steps from the claim to the end of the call: the flags are those the  *)
(* claim stored, so the patch is an effect's.                                *)
LEMMA FxGoes ==
  ASSUME TracksInv, FxCommon \/ FxPatch \/ FxLoad \/ FxStore
  PROVE  TracksInv'
<1> USE DEF TracksInv, Shapes, OwnersPlay, FxRelies, Apart, SongKeepsInstrument, PlaysFx,
            TrackFields, CallFields, None
<1>1. CASE FxCommon
  <2>1. /\ DOMAIN fxCall' = CallFields /\ fxCall'.at = "patch"
        /\ fxCall'.channel = fxCall.channel /\ fxCall'.patch = fxCall.patch
        /\ fxCall.channel \in Channels => fxCall'.flags = "fx"
        /\ music' = music /\ music.at = None
    BY <1>1 DEF FxCommon, FxStep
  <2>2. \A c \in Channels :
          /\ DOMAIN tracks'[c] = TrackFields
          /\ tracks'[c].stream = tracks[c].stream
          /\ tracks'[c].patchNo = tracks[c].patchNo
          /\ tracks'[c].fxPatchNo = tracks[c].fxPatchNo
          /\ tracks'[c].playing = tracks[c].playing
          /\ tracks'[c].priority = tracks[c].priority
    BY <1>1 DEF FxCommon, Reset
  <2>3. QED
    BY <1>1, <2>1, <2>2 DEF FxCommon, FxStep
<1>2. CASE FxPatch
  <2>1. /\ DOMAIN fxCall' = CallFields /\ fxCall'.at = "load"
        /\ fxCall'.channel = fxCall.channel /\ fxCall'.patch = fxCall.patch
        /\ music' = music /\ music.at = None
    BY <1>2 DEF FxPatch, FxStep
  <2>2. \A c \in Channels :
          /\ c # fxCall.channel => tracks'[c] = tracks[c]
          /\ c = fxCall.channel =>
               tracks'[c] = WithPatch(tracks[c], fxCall.patch, TRUE)
    BY <1>2 DEF FxPatch, FxStep
  <2>3. \A c \in Channels : c = fxCall.channel =>
          /\ DOMAIN tracks'[c] = TrackFields
          /\ DOMAIN tracks'[c].stream = {"patch", "at"}
          /\ PlaysFx(tracks'[c], fxCall.patch)
          /\ tracks'[c].patchNo = tracks[c].patchNo
          /\ tracks'[c].priority
    <3> TAKE c \in Channels
    <3> HAVE c = fxCall.channel
    <3>1. /\ DOMAIN tracks[c] = TrackFields
          /\ DOMAIN tracks[c].stream = {"patch", "at"}
          /\ tracks[c].priority
      BY <1>2 DEF FxPatch, FxStep
    <3>2. tracks'[c] = WithPatch(tracks[c], fxCall.patch, TRUE)
      BY <2>2
    <3> HIDE DEF PlaysFx, TrackFields, TracksInv
    <3>3. LET w == WithPatch(tracks[c], fxCall.patch, TRUE)
          IN  /\ DOMAIN w = TrackFields
              /\ DOMAIN w.stream = {"patch", "at"}
              /\ PlaysFx(w, fxCall.patch)
              /\ w.patchNo = tracks[c].patchNo /\ w.priority = tracks[c].priority
      BY <3>1, FxPatchIsPlayed
    <3>4. QED
      BY <3>1, <3>2, <3>3
  <2>4. QED
    BY <1>2, <2>1, <2>2, <2>3 DEF FxPatch, FxStep
<1>3. CASE FxLoad
  <2>1. /\ DOMAIN fxCall' = CallFields /\ fxCall'.at = "store"
        /\ fxCall'.channel = fxCall.channel /\ fxCall'.patch = fxCall.patch
        /\ fxCall.channel \in Channels => fxCall'.flags = TRUE
        /\ music' = music /\ music.at = None
    BY <1>3 DEF FxLoad, FxStep
  <2>2. QED
    BY <1>3, <2>1 DEF FxLoad, FxStep
<1>4. CASE FxStore
  <2>1. fxCall'.at = None
    BY <1>4 DEF FxStore, FxStep
  <2>2. \A c \in Channels :
          /\ DOMAIN tracks'[c] = TrackFields
          /\ tracks'[c].stream = tracks[c].stream
          /\ tracks'[c].patchNo = tracks[c].patchNo
          /\ tracks'[c].fxPatchNo = tracks[c].fxPatchNo
          /\ c # fxCall.channel => tracks'[c] = tracks[c] /\ owner'[c] = owner[c]
          /\ c = fxCall.channel =>
               tracks'[c].playing /\ tracks'[c].priority /\ owner'[c] = fxCall.patch
    BY <1>4 DEF FxStore, FxStep
  <2>3. QED
    BY <1>4, <2>1, <2>2 DEF FxStore, FxStep
<1>5. QED
  BY <1>1, <1>2, <1>3, <1>4

-----------------------------------------------------------------------------
(* ProcessMusic.                                                           *)

(* It changes one track a step; it is enough that this one keeps its shape *)
(* and its instrument, and goes on with its effect if it keeps its owner.  *)
KeepsTrack(c) ==
    /\ DOMAIN tracks'[c] = TrackFields
    /\ DOMAIN tracks'[c].stream = {"patch", "at"}
    /\ tracks'[c].patchNo = instrument'[c]
    /\ \/ owner'[c] = None
       \/ /\ owner'[c] = owner[c]
          /\ tracks'[c].playing /\ tracks'[c].priority /\ PlaysFx(tracks'[c], owner[c])

(* If every track keeps so, so does the invariant. *)
LEMMA TracksKept ==
  ASSUME TracksInv, fxCall.at = None, fxCall' = fxCall,
         DOMAIN tracks' = Channels, DOMAIN owner' = Channels, DOMAIN instrument' = Channels,
         \A c \in Channels : KeepsTrack(c)
  PROVE  TracksInv'
BY DEF TracksInv, Shapes, OwnersPlay, FxRelies, Apart, SongKeepsInstrument, PlaysFx, KeepsTrack, None

(* The interrupt comes between two calls, and the song's events follow. *)
LEMMA SongPlays ==
  ASSUME TracksInv, ~Preempted,
         NEW c \in Channels, NEW p,
         Vsync \/ SongDone \/ Program(c, p) \/ NoteOn(c, p) \/ NoteOff(c) \/ StartSong \/ StopSong
  PROVE  TracksInv'
<1> USE DEF TracksInv, Shapes, OwnersPlay, Apart, SongKeepsInstrument, PlaysFx, TrackFields, None
<1>1. CASE Vsync \/ SongDone \/ StopSong
  BY <1>1 DEF Vsync, SongDone, StopSong, FxRelies
<1>2. CASE StartSong
  <2>1. \A d \in Channels : KeepsTrack(d)
    BY <1>2 DEF StartSong, KeepsTrack
  <2>2. QED
    BY <1>2, <2>1, TracksKept DEF StartSong
<1>3. CASE Program(c, p)
  <2>1. \A d \in Channels : KeepsTrack(d)
    BY <1>3 DEF Program, SongStep, KeepsTrack
  <2>2. QED
    BY <1>3, <2>1, TracksKept DEF Program, SongStep
<1>4. CASE NoteOff(c)
  <2>1. \A d \in Channels : KeepsTrack(d)
    BY <1>4 DEF NoteOff, SongStep, KeepsTrack
  <2>2. QED
    BY <1>4, <2>1, TracksKept DEF NoteOff, SongStep
<1>5. CASE NoteOn(c, p)
  <2>1. CASE ~MayNote(c)
    <3>1. \A d \in Channels : KeepsTrack(d)
      BY <1>5, <2>1 DEF NoteOn, SongStep, KeepsTrack
    <3>2. QED
      BY <1>5, <2>1, <3>1, TracksKept DEF NoteOn, SongStep
  <2>2. CASE MayNote(c)
    <3> DEFINE t == Reset([tracks[c] EXCEPT !.priority = FALSE, !.stream = NoStream])
               patch == IF c = Noise THEN p ELSE t.patchNo
    <3>1. owner[c] = None
      BY <2>2 DEF MayNote
    <3>2. /\ DOMAIN t = TrackFields
          /\ DOMAIN t.stream = {"patch", "at"}
          /\ t.patchNo = tracks[c].patchNo
      BY DEF Reset, NoStream
    <3> HIDE DEF t
    <3>3. /\ DOMAIN WithPatch(t, patch, FALSE) = TrackFields
          /\ DOMAIN WithPatch(t, patch, FALSE).stream = {"patch", "at"}
          /\ WithPatch(t, patch, FALSE).patchNo = patch
      BY <3>2 DEF WithPatch, NoStream
    <3>4. /\ tracks' = [tracks EXCEPT ![c] = [WithPatch(t, patch, FALSE) EXCEPT !.playing = TRUE]]
          /\ instrument' = IF c = Noise THEN [instrument EXCEPT ![c] = patch] ELSE instrument
          /\ owner' = owner /\ fxCall' = fxCall /\ music.at = "song"
      BY <1>5, <2>2 DEF NoteOn, SongStep, t
    <3>5. \A d \in Channels : KeepsTrack(d)
      BY <3>1, <3>2, <3>3, <3>4 DEF KeepsTrack
    <3>6. QED
      BY <3>4, <3>5, TracksKept
  <2>3. QED
    BY <2>1, <2>2
<1>6. QED
  BY <1>1, <1>2, <1>3, <1>4, <1>5
\* The song's patch and the track's shape stay; the effect on it stays, too.
GoesOn(t, u) ==
    /\ DOMAIN u = TrackFields
    /\ DOMAIN u.stream = {"patch", "at"}
    /\ u.patchNo = t.patchNo

Plays(t, u) ==
    /\ u.playing = t.playing /\ u.priority = t.priority
    /\ u.fxPatchNo = t.fxPatchNo /\ u.stream.patch = t.stream.patch

(* A command moves within its stream, and only the cut stops the track. *)
LEMMA CommandGoesOn ==
  ASSUME NEW t, NEW cmd, NEW param,
         DOMAIN t = TrackFields, DOMAIN t.stream = {"patch", "at"}
  PROVE  /\ GoesOn(t, Command(t, cmd, param))
         /\ cmd # "cut" => Plays(t, Command(t, cmd, param))
<1> USE DEF TrackFields, GoesOn, Plays, Command
<1>1. CASE cmd = "cut"
  BY <1>1
<1>2. CASE cmd = "hold"
  BY <1>2
<1>3. CASE cmd = "note"
  BY <1>3
<1>4. CASE cmd = "loop start"
  BY <1>4
<1>5. CASE cmd = "loop end"
  BY <1>5
<1>6. CASE cmd \notin {"cut", "hold", "note", "loop start", "loop end"}
  BY <1>6
<1>7. QED
  BY <1>1, <1>2, <1>3, <1>4, <1>5, <1>6

(* To the next track: the time is all that changes. *)
LEMMA NextTrackKeeps ==
  ASSUME Shapes, NEW t, NextTrack(t),
         DOMAIN t = TrackFields, music.track \in Channels
  PROVE  /\ DOMAIN tracks' = Channels
         /\ \A c \in Channels : c # music.track => tracks'[c] = tracks[c]
         /\ DOMAIN tracks'[music.track] = TrackFields
         /\ tracks'[music.track].stream = t.stream
         /\ tracks'[music.track].patchNo = t.patchNo
         /\ Plays(t, tracks'[music.track])
BY DEF NextTrack, Shapes, TrackFields, Plays

(* A track's turn in the frame: it waits, runs a command, or ends. *)
LEMMA TrackPlays ==
  ASSUME TracksInv, Idle \/ Wait \/ RunCommand \/ PatchEnd
  PROVE  TracksInv'
<1> DEFINE m == music.track
<1> USE DEF None
<1>1. /\ fxCall.at = None /\ fxCall' = fxCall /\ Shapes
      /\ DOMAIN owner' = Channels /\ instrument' = instrument
      /\ \A c \in Channels : c # m => owner'[c] = owner[c]
  BY DEF TracksInv, Shapes, Apart, Idle, Wait, RunCommand, PatchEnd, Running
<1>2. ASSUME m \notin Channels
      PROVE  /\ DOMAIN tracks' = Channels
             /\ \A c \in Channels : tracks'[c] = tracks[c] /\ owner'[c] = owner[c]
  BY <1>1, <1>2 DEF Shapes, Idle, Wait, RunCommand, PatchEnd, NextTrack
<1>3. ASSUME m \in Channels
      PROVE  /\ DOMAIN tracks' = Channels
             /\ \A c \in Channels : c # m => tracks'[c] = tracks[c]
             /\ GoesOn(tracks[m], tracks'[m])
             /\ owner'[m] = None \/ (owner'[m] = owner[m] /\ Plays(tracks[m], tracks'[m]))
  <2>1. CASE Idle
    BY <1>1, <1>3, <2>1, NextTrackKeeps DEF Idle, Current, GoesOn, Shapes
  <2>2. CASE Wait
    <3> DEFINE t == [tracks[m] EXCEPT !.curr = @ + 1]
    <3>1. /\ DOMAIN t = TrackFields /\ t.stream = tracks[m].stream
          /\ GoesOn(tracks[m], t) /\ Plays(tracks[m], t)
      BY <1>1, <1>3 DEF Shapes, TrackFields, GoesOn, Plays
    <3>2. NextTrack(t) /\ owner' = owner
      BY <2>2 DEF Wait, Current
    <3> HIDE DEF t
    <3>3. QED
      BY <1>1, <1>3, <3>1, <3>2, NextTrackKeeps DEF GoesOn, Plays
  <2>3. CASE PatchEnd
    <3> DEFINE t == [tracks[m] EXCEPT !.priority = FALSE, !.stream = NoStream, !.curr = @ + 1]
    <3>1. DOMAIN t = TrackFields /\ GoesOn(tracks[m], t)
      BY <1>1, <1>3 DEF Shapes, TrackFields, GoesOn, NoStream
    <3>2. NextTrack(t) /\ owner'[m] = None
      BY <1>1, <1>3, <2>3 DEF PatchEnd, Current, Shapes
    <3> HIDE DEF t
    <3>3. QED
      BY <1>1, <1>3, <3>1, <3>2, NextTrackKeeps DEF GoesOn
  <2>4. CASE RunCommand
    <3> DEFINE s == [tracks[m] EXCEPT !.stream.at = @ + 1]
               t == Command(s, Entry[2], Entry[3])
    <3>1. DOMAIN s = TrackFields /\ GoesOn(tracks[m], s) /\ Plays(tracks[m], s)
      BY <1>1, <1>3 DEF Shapes, TrackFields, GoesOn, Plays
    <3>2. GoesOn(s, t) /\ (Entry[2] # "cut" => Plays(s, t))
      BY <3>1, CommandGoesOn DEF GoesOn
    <3>3. /\ tracks' = [tracks EXCEPT ![m] =
                          [t EXCEPT !.curr = 0, !.next = Stream[t.stream.patch][t.stream.at][1]]]
          /\ owner' = IF Entry[2] = "cut" THEN [owner EXCEPT ![m] = None] ELSE owner
      BY <2>4 DEF RunCommand, Current
    <3> HIDE DEF s, t
    <3>4. QED
      BY <1>1, <1>3, <3>1, <3>2, <3>3 DEF Shapes, GoesOn, Plays, TrackFields
  <2>5. QED
    BY <2>1, <2>2, <2>3, <2>4
<1>4. DOMAIN tracks' = Channels /\ \A c \in Channels : KeepsTrack(c)
  <2>1. CASE m \in Channels
    BY <1>1, <1>3, <2>1 DEF KeepsTrack, TracksInv, Shapes, OwnersPlay, SongKeepsInstrument,
                            GoesOn, Plays, PlaysFx
  <2>2. CASE m \notin Channels
    BY <1>1, <1>2, <2>2 DEF KeepsTrack, TracksInv, Shapes, OwnersPlay, SongKeepsInstrument
  <2>3. QED
    BY <2>1, <2>2
<1>5. QED
  BY <1>1, <1>4, TracksKept DEF Shapes

-----------------------------------------------------------------------------
(* Every step of the program and of the interrupt keeps the invariant.       *)
LEMMA TracksNextKeeps ==
  ASSUME TracksInv, ~Preempted, [TracksNext]_trackVars
  PROVE  TracksInv'
<1>1. CASE UNCHANGED trackVars
  BY <1>1 DEF trackVars, TracksInv, Shapes, OwnersPlay, FxRelies, Apart, SongKeepsInstrument,
              PlaysFx
<1>2. CASE \E p \in FxPatches, retrig \in BOOLEAN : TriggerFx(p, retrig)
  BY <1>2, FxBegins
<1>3. CASE FxGoesOn
  BY <1>3, FxBegins, FxGoes DEF FxGoesOn
<1>4. CASE Vsync \/ SongDone \/ StartSong \/ StopSong
  <2>1. Noise \in Channels
    BY DEF Channels
  <2>2. QED
    BY <1>4, <2>1, SongPlays
<1>5. CASE \E c \in Channels, p \in SongPatches : Program(c, p) \/ NoteOn(c, p)
  BY <1>5, SongPlays
<1>6. CASE \E c \in Channels : NoteOff(c)
  BY <1>6, SongPlays
<1>7. CASE Idle \/ Wait \/ RunCommand \/ PatchEnd
  BY <1>7, TrackPlays
<1>8. QED
  BY <1>1, <1>2, <1>3, <1>4, <1>5, <1>6, <1>7 DEF TracksNext, Interrupt

(* So it holds of every behaviour without an interrupt inside TriggerFx.     *)
LEMMA TracksInvHolds == ASSUME ~Preempted PROVE TracksSpec => []TracksInv
<1>1. InitMusicPlayer => TracksInv
  BY DEF InitMusicPlayer, TracksInv, Shapes, OwnersPlay, FxRelies, Apart, SongKeepsInstrument,
         TrackFields, NoStream, None
<1>2. TracksInv /\ [TracksNext]_trackVars => TracksInv'
  BY TracksNextKeeps
<1>3. QED
  BY <1>1, <1>2, PTL DEF TracksSpec

(* An effect the program started plays its patch to the end, or until        *)
(* another effect takes the channel or a song starts, for any patches.        *)
THEOREM EffectsPlayOut == ASSUME ~Preempted PROVE TracksSpec => []FxPlaysOut
<1>1. TracksInv => FxPlaysOut
  BY DEF TracksInv, OwnersPlay, PlaysFx, FxPlaysOut
<1>2. QED
  BY <1>1, TracksInvHolds, PTL

(* The song's instrument on a channel is the one it chose last, for any      *)
(* effects and any songs.                                                     *)
THEOREM SongsKeepInstruments == ASSUME ~Preempted PROVE TracksSpec => []SongKeepsInstrument
<1>1. TracksInv => SongKeepsInstrument
  BY DEF TracksInv
<1>2. QED
  BY <1>1, TracksInvHolds, PTL

-----------------------------------------------------------------------------
(***************************************************************************)
(* UartRing: both rings are queues.                                        *)
(***************************************************************************)
(* What a ring of n bytes holds after each kind of access. *)

(* A ring holds at most one byte less than its size, none if its ends meet. *)
LEMMA AheadRange ==
  ASSUME NEW n \in Nat \ {0, 1}, NEW head \in 0 .. n - 1, NEW tail \in 0 .. n - 1
  PROVE  /\ Ahead(head, tail, n) \in 0 .. n - 1
         /\ Ahead(head, tail, n) = 0 <=> head = tail
BY DEF Ahead

(* Its ends wrap to places of the ring. *)
LEMMA WrapRange ==
  ASSUME NEW n \in Nat \ {0, 1}, NEW i \in 0 .. 2 * n - 1
  PROVE  Wrap(i, n) \in 0 .. n - 1
BY DEF Wrap

(* The window is a sequence of the ring's bytes. *)
LEMMA WindowSeq ==
  ASSUME NEW n \in Nat \ {0, 1}, NEW head \in 0 .. n - 1, NEW tail \in 0 .. n - 1,
         NEW buf \in [0 .. n - 1 -> Bytes]
  PROVE  /\ Window(buf, head, tail, n) \in Seq(Bytes)
         /\ Len(Window(buf, head, tail, n)) = Ahead(head, tail, n)
         /\ \A i \in 1 .. Ahead(head, tail, n) :
              Window(buf, head, tail, n)[i] = buf[Wrap(tail + i - 1, n)]
<1>1. Ahead(head, tail, n) \in 0 .. n - 1
  BY AheadRange
<1>2. \A i \in 1 .. Ahead(head, tail, n) : Wrap(tail + i - 1, n) \in 0 .. n - 1
  BY <1>1, WrapRange
<1>3. Window(buf, head, tail, n) \in [1 .. Ahead(head, tail, n) -> Bytes]
  BY <1>2 DEF Window
<1>4. Window(buf, head, tail, n) \in Seq(Bytes)
  BY <1>1, <1>3, SeqDef
<1>5. Len(Window(buf, head, tail, n)) = Ahead(head, tail, n)
  BY <1>1, <1>3, <1>4, LenProperties
<1>6. QED
  BY <1>4, <1>5 DEF Window

(* A ring whose ends meet is empty. *)
LEMMA WindowEmpty ==
  ASSUME NEW n \in Nat \ {0, 1}, NEW head \in 0 .. n - 1, NEW buf \in [0 .. n - 1 -> Bytes]
  PROVE  Window(buf, head, head, n) = <<>>
<1>1. Ahead(head, head, n) = 0
  BY AheadRange
<1>2. Window(buf, head, head, n) \in Seq(Bytes) /\ Len(Window(buf, head, head, n)) = 0
  BY <1>1, WindowSeq
<1>3. QED
  BY <1>2, EmptySeq

(* Writing at the head changes nothing of what the ring holds. *)
LEMMA WindowStore ==
  ASSUME NEW n \in Nat \ {0, 1}, NEW head \in 0 .. n - 1, NEW tail \in 0 .. n - 1,
         NEW buf \in [0 .. n - 1 -> Bytes], NEW b \in Bytes
  PROVE  Window([buf EXCEPT ![head] = b], head, tail, n) = Window(buf, head, tail, n)
<1>1. Ahead(head, tail, n) \in 0 .. n - 1
  BY AheadRange
<1>2. ASSUME NEW i \in 1 .. Ahead(head, tail, n)
      PROVE  [buf EXCEPT ![head] = b][Wrap(tail + i - 1, n)] = buf[Wrap(tail + i - 1, n)]
  <2>1. Wrap(tail + i - 1, n) \in 0 .. n - 1
    BY <1>1, WrapRange
  <2>2. Wrap(tail + i - 1, n) # head
    BY <1>1 DEF Wrap, Ahead
  <2>3. QED
    BY <2>1, <2>2
<1>3. QED
  BY <1>2 DEF Window

(* Moving the head of a ring that is not full appends the byte there. *)
LEMMA WindowPut ==
  ASSUME NEW n \in Nat \ {0, 1}, NEW head \in 0 .. n - 1, NEW tail \in 0 .. n - 1,
         NEW buf \in [0 .. n - 1 -> Bytes],
         Ahead(head, tail, n) # n - 1
  PROVE  Window(buf, Wrap(head + 1, n), tail, n) = Append(Window(buf, head, tail, n), buf[head])
<1> DEFINE k == Ahead(head, tail, n)
           w == Window(buf, head, tail, n)
           u == Window(buf, Wrap(head + 1, n), tail, n)
<1>1. k \in 0 .. n - 2
  <2>1. Ahead(head, tail, n) \in 0 .. n - 1
    BY AheadRange
  <2>2. QED
    BY <2>1
<1>2. Wrap(head + 1, n) \in 0 .. n - 1
  BY WrapRange
<1>3. Ahead(Wrap(head + 1, n), tail, n) = k + 1
  BY <1>1 DEF Ahead, Wrap
<1>4. Wrap(tail + k, n) = head
  BY <1>1 DEF Ahead, Wrap
<1>5. /\ w \in Seq(Bytes) /\ Len(w) = k
      /\ \A i \in 1 .. k : w[i] = buf[Wrap(tail + i - 1, n)]
  BY WindowSeq
<1>6. /\ u \in Seq(Bytes) /\ Len(u) = k + 1
      /\ \A i \in 1 .. k + 1 : u[i] = buf[Wrap(tail + i - 1, n)]
  <2>1. /\ u \in Seq(Bytes) /\ Len(u) = Ahead(Wrap(head + 1, n), tail, n)
        /\ \A i \in 1 .. Ahead(Wrap(head + 1, n), tail, n) : u[i] = buf[Wrap(tail + i - 1, n)]
    BY <1>2, WindowSeq
  <2>2. QED
    BY <1>3, <2>1
<1>7. buf[head] \in Bytes
  OBVIOUS
<1> HIDE DEF w, u, k
<1>8. /\ Append(w, buf[head]) \in Seq(Bytes) /\ Len(Append(w, buf[head])) = k + 1
      /\ \A i \in 1 .. k : Append(w, buf[head])[i] = w[i]
      /\ Append(w, buf[head])[k + 1] = buf[head]
  BY <1>1, <1>5, <1>7
<1>9. ASSUME NEW i \in 1 .. k + 1 PROVE u[i] = Append(w, buf[head])[i]
  <2>1. CASE i \in 1 .. k
    BY <1>5, <1>6, <1>8, <2>1
  <2>2. CASE i = k + 1
    <3>1. tail + i - 1 = tail + k
      BY <1>1, <2>2
    <3>2. u[i] = buf[head]
      BY <1>4, <1>6, <3>1
    <3>3. QED
      BY <1>8, <2>2, <3>2
  <2>3. k \in Nat
    BY <1>1
  <2>4. i \in 1 .. k \/ i = k + 1
    BY ONLY <2>3, i \in 1 .. k + 1
  <2>5. QED
    BY <2>1, <2>2, <2>4
<1>10. u = Append(w, buf[head])
  BY <1>1, <1>6, <1>8, <1>9, SeqEqual
<1>11. QED
  BY <1>10 DEF u, w

(* Moving the tail of a ring that is not empty takes the byte there. *)
LEMMA WindowTake ==
  ASSUME NEW n \in Nat \ {0, 1}, NEW head \in 0 .. n - 1, NEW tail \in 0 .. n - 1,
         NEW buf \in [0 .. n - 1 -> Bytes],
         head # tail
  PROVE  /\ Window(buf, head, tail, n) # <<>>
         /\ Head(Window(buf, head, tail, n)) = buf[tail]
         /\ Window(buf, head, Wrap(tail + 1, n), n) = Tail(Window(buf, head, tail, n))
<1> DEFINE k == Ahead(head, tail, n)
           w == Window(buf, head, tail, n)
           u == Window(buf, head, Wrap(tail + 1, n), n)
<1>1. k \in 1 .. n - 1
  BY AheadRange
<1>2. Wrap(tail + 1, n) \in 0 .. n - 1
  BY WrapRange
<1>3. Ahead(head, Wrap(tail + 1, n), n) = k - 1
  BY <1>1 DEF Ahead, Wrap
<1>4. Wrap(tail, n) = tail
  BY DEF Wrap
<1>5. \A i \in 1 .. k - 1 : Wrap(Wrap(tail + 1, n) + i - 1, n) = Wrap(tail + i, n)
  BY <1>1 DEF Wrap
<1>6. /\ w \in Seq(Bytes) /\ Len(w) = k
      /\ \A i \in 1 .. k : w[i] = buf[Wrap(tail + i - 1, n)]
  BY WindowSeq
<1>7. /\ u \in Seq(Bytes) /\ Len(u) = k - 1
      /\ \A i \in 1 .. k - 1 : u[i] = buf[Wrap(Wrap(tail + 1, n) + i - 1, n)]
  <2>1. /\ u \in Seq(Bytes) /\ Len(u) = Ahead(head, Wrap(tail + 1, n), n)
        /\ \A i \in 1 .. Ahead(head, Wrap(tail + 1, n), n) :
             u[i] = buf[Wrap(Wrap(tail + 1, n) + i - 1, n)]
    BY <1>2, WindowSeq
  <2>2. QED
    BY <1>3, <2>1
<1> HIDE DEF w, u, k
<1>8. w # <<>>
  BY <1>1, <1>6, EmptySeq
<1>9. Head(w) = buf[tail]
  <2>1. Head(w) = w[1]
    BY <1>1, <1>6, <1>8
  <2>2. w[1] = buf[Wrap(tail + 1 - 1, n)]
    BY <1>1, <1>6
  <2>3. QED
    BY <1>4, <2>1, <2>2
<1>10. /\ Tail(w) \in Seq(Bytes) /\ Len(Tail(w)) = k - 1
       /\ \A i \in 1 .. k - 1 : Tail(w)[i] = w[i + 1]
  BY <1>1, <1>6, <1>8, HeadTailProperties
<1>11. ASSUME NEW i \in 1 .. k - 1 PROVE u[i] = Tail(w)[i]
  <2>1. i + 1 \in 1 .. k /\ tail + (i + 1) - 1 = tail + i
    BY <1>1
  <2>2. w[i + 1] = buf[Wrap(tail + i, n)]
    BY <1>6, <2>1
  <2>3. QED
    BY <1>5, <1>7, <1>10, <2>2
<1>12. u = Tail(w)
  BY <1>1, <1>7, <1>10, <1>11, SeqEqual
<1>13. QED
  BY <1>8, <1>9, <1>12 DEF u, w

-----------------------------------------------------------------------------
(* What the proofs of both refinements rest on: a ring that UartSendChar is  *)
(* about to move is not full, and one that is being reset has its tail set.  *)
SendRoom == uartCall = "send" => Ahead(txHead, txTail, TxSize) # TxSize - 1
ResetTail == uartCall = "reset" => rxTail = 0

UartInv == UartTypeOK /\ SendRoom /\ ResetTail

(* The sending ring is full when the head would meet the tail. *)
LEMMA Full ==
  ASSUME UartTypeOK
  PROVE  TxFull <=> Ahead(txHead, txTail, TxSize) = TxSize - 1
BY UartAssumption DEF UartTypeOK, TxFull, Ahead, Wrap

(* Taking a byte makes room. *)
LEMMA TakeRoom ==
  ASSUME UartTypeOK, txHead # txTail
  PROVE  Ahead(txHead, Wrap(txTail + 1, TxSize), TxSize) # TxSize - 1
BY UartAssumption DEF UartTypeOK, Ahead, Wrap

(* One byte too many makes the ends of a full ring meet. *)
LEMMA MeetsTail ==
  ASSUME NEW n \in Nat \ {0, 1}, NEW head \in 0 .. n - 1, NEW tail \in 0 .. n - 1,
         Ahead(head, tail, n) = n - 1
  PROVE  Wrap(head + 1, n) = tail
BY DEF Ahead, Wrap

(* The interrupt's half that sends keeps its types and makes room. *)
LEMMA TxGetInv ==
  ASSUME UartInv, TxGet
  PROVE  /\ txBuf' \in [0 .. TxSize - 1 -> Bytes] /\ txHead' \in 0 .. TxSize - 1
         /\ txTail' \in 0 .. TxSize - 1 /\ udr' \in Bytes /\ SendRoom'
<1>1. Wrap(txTail + 1, TxSize) \in 0 .. TxSize - 1
  BY UartAssumption, WrapRange DEF UartInv, UartTypeOK
<1>2. Ahead(txHead, Wrap(txTail + 1, TxSize), TxSize) # TxSize - 1
  BY TakeRoom DEF UartInv, TxGet
<1>3. QED
  BY <1>1, <1>2 DEF UartInv, UartTypeOK, TxGet, SendRoom

(* The interrupt's half that receives keeps its types. *)
LEMMA RxPutInv ==
  ASSUME UartInv, NEW b \in Bytes, RxPut(b)
  PROVE  /\ rxBuf' \in [0 .. RxSize - 1 -> Bytes] /\ rxHead' \in 0 .. RxSize - 1
         /\ rxTail' \in 0 .. RxSize - 1 /\ got' \in Bytes /\ overrun' \in BOOLEAN
         /\ uartCall' = uartCall /\ ResetTail'
<1>1. Wrap(rxHead + 1, RxSize) \in 0 .. RxSize - 1
  BY UartAssumption, WrapRange DEF UartInv, UartTypeOK
<1>2. QED
  BY <1>1 DEF UartInv, UartTypeOK, RxPut, ResetTail

(* The invariant is inductive. *)
LEMMA UartInductive ==
  ASSUME UartInv, [UartNext(Bytes, Bytes)]_uartVars
  PROVE  UartInv'
<1> USE UartAssumption
<1>1. CASE UNCHANGED uartVars
  BY <1>1 DEF UartInv, UartTypeOK, SendRoom, ResetTail, uartVars, rxVars, txVars
<1>2. ASSUME NEW b \in Bytes, NEW ready \in BOOLEAN, ScanlineIn(b, ready) PROVE UartInv'
  <2>1. RxPut(b)
    BY <1>2 DEF ScanlineIn
  <2>2. CASE TxGet
    BY <2>1, <2>2, RxPutInv, TxGetInv DEF UartInv, UartTypeOK
  <2>3. CASE UNCHANGED <<txVars, uartCall>>
    BY <2>1, <2>3, RxPutInv DEF UartInv, UartTypeOK, SendRoom, txVars
  <2>4. QED
    BY <1>2, <2>2, <2>3 DEF ScanlineIn
<1>3. CASE ScanlineOut
  <2>1. TxGet /\ UNCHANGED rxVars /\ uartCall' = uartCall
    BY <1>3 DEF ScanlineOut, TxGet
  <2>2. QED
    BY <2>1, TxGetInv DEF UartInv, UartTypeOK, ResetTail, rxVars
<1>4. CASE ReadChar
  BY <1>4 DEF ReadChar, UartInv, UartTypeOK, SendRoom, ResetTail, txVars
<1>5. CASE ReadCharTail
  <2>1. Wrap(rxTail + 1, RxSize) \in 0 .. RxSize - 1
    BY WrapRange DEF UartInv, UartTypeOK
  <2>2. QED
    BY <1>5, <2>1 DEF ReadCharTail, UartInv, UartTypeOK, SendRoom, ResetTail, txVars
<1>6. CASE InitRx
  BY <1>6 DEF InitRx, UartInv, UartTypeOK, SendRoom, ResetTail, txVars
<1>7. CASE InitRxHead
  BY <1>7 DEF InitRxHead, UartInv, UartTypeOK, SendRoom, ResetTail, txVars
<1>8. ASSUME NEW b \in Bytes, SendChar(b) PROVE UartInv'
  <2>1. Ahead(txHead, txTail, TxSize) # TxSize - 1
    BY <1>8, Full DEF SendChar, UartInv
  <2>2. QED
    BY <1>8, <2>1 DEF SendChar, UartInv, UartTypeOK, SendRoom, ResetTail, rxVars
<1>9. CASE SendCharHead
  <2>1. Wrap(txHead + 1, TxSize) \in 0 .. TxSize - 1
    BY WrapRange DEF UartInv, UartTypeOK
  <2>2. QED
    BY <1>9, <2>1 DEF SendCharHead, UartInv, UartTypeOK, SendRoom, ResetTail, rxVars
<1>10. QED
  BY <1>1, <1>2, <1>3, <1>4, <1>5, <1>6, <1>7, <1>8, <1>9 DEF UartNext

(* The rings' ends, bytes and call stay in their ranges. *)
THEOREM UartTypes == UartSpec => []UartInv
<1>1. ASSUME UartInit PROVE UartInv
  <2>1. 0 \in 0 .. RxSize - 1 /\ 0 \in 0 .. TxSize - 1
    BY UartAssumption
  <2>2. rxBuf \in [0 .. RxSize - 1 -> Bytes] /\ txBuf \in [0 .. TxSize - 1 -> Bytes]
    BY <1>1, UartAssumption DEF UartInit
  <2>3. UartTypeOK
    BY <1>1, <2>1, <2>2, UartAssumption DEF UartInit, UartTypeOK
  <2>4. QED
    BY <1>1, <2>3 DEF UartInit, UartInv, SendRoom, ResetTail
<1>2. UartInv /\ [UartNext(Bytes, Bytes)]_uartVars => UartInv'
  BY UartInductive
<1>3. QED
  BY <1>1, <1>2, PTL DEF UartSpec

-----------------------------------------------------------------------------
(* The sending ring is a queue. *)

(* Taking from the ring is taking from the queue. *)
LEMMA TxGetTakes ==
  ASSUME UartInv, TxGet
  PROVE  TxQ!Take
<1>1. /\ TxContents # <<>>
      /\ Head(TxContents) = txBuf[txTail]
      /\ Window(txBuf, txHead, Wrap(txTail + 1, TxSize), TxSize) = Tail(TxContents)
  BY UartAssumption, WindowTake DEF TxGet, UartInv, UartTypeOK, TxContents
<1>2. QED
  BY <1>1 DEF TxGet, TxQ!Take, TxContents

(* A step of the system is a step of the queue, or none. *)
LEMMA TxStep ==
  ASSUME UartInv, [UartNext(Bytes, Bytes)]_uartVars
  PROVE  [TxQ!Next]_<<TxContents, udr>>
<1> USE UartAssumption
<1>1. CASE UNCHANGED txVars
  BY <1>1 DEF txVars, TxContents
<1>2. CASE TxGet
  BY <1>2, TxGetTakes DEF TxQ!Next
<1>3. ASSUME NEW b \in Bytes, SendChar(b) PROVE UNCHANGED <<TxContents, udr>>
  <2>1. Window([txBuf EXCEPT ![txHead] = b], txHead, txTail, TxSize)
          = Window(txBuf, txHead, txTail, TxSize)
    BY WindowStore, ZenonT(40) DEF UartInv, UartTypeOK
  <2>2. QED
    BY <1>3, <2>1 DEF SendChar, TxContents
<1>4. CASE SendCharHead
  <2>1. Ahead(txHead, txTail, TxSize) # TxSize - 1
    BY <1>4 DEF SendCharHead, UartInv, SendRoom
  <2>2. Window(txBuf, Wrap(txHead + 1, TxSize), txTail, TxSize)
          = Append(TxContents, txBuf[txHead])
    BY <2>1, WindowPut DEF UartInv, UartTypeOK, TxContents
  <2>3. Len(TxContents) < TxSize - 1
    <3>1. Len(TxContents) = Ahead(txHead, txTail, TxSize)
      BY WindowSeq DEF UartInv, UartTypeOK, TxContents
    <3>2. Ahead(txHead, txTail, TxSize) \in 0 .. TxSize - 1
      BY AheadRange DEF UartInv, UartTypeOK
    <3>3. QED
      BY <2>1, <3>1, <3>2
  <2>4. txBuf[txHead] \in Bytes
    BY DEF UartInv, UartTypeOK
  <2>5. TxQ!Put(txBuf[txHead])
    BY <1>4, <2>2, <2>3 DEF SendCharHead, TxQ!Put, TxContents
  <2>6. QED
    BY <2>4, <2>5 DEF TxQ!Next
<1>5. QED
  BY <1>1, <1>2, <1>3, <1>4 DEF UartNext, uartVars, ScanlineIn, ScanlineOut, ReadChar,
     ReadCharTail, InitRx, InitRxHead

(* For every size and any bytes: what the interrupt sends is what UartSendChar *)
(* took, in order and none twice.                                              *)
THEOREM SendsInOrder == UartSpec => TxIsQueue
<1>1. UartInit => TxQ!Init
  <2>1. UartInit => TxContents = <<>>
    BY UartAssumption, WindowEmpty DEF UartInit, TxContents
  <2>2. QED
    BY <2>1 DEF TxQ!Init
<1>2. UartInv /\ [UartNext(Bytes, Bytes)]_uartVars => [TxQ!Next]_<<TxContents, udr>>
  BY TxStep
<1>3. QED
  BY <1>1, <1>2, UartTypes, PTL DEF UartSpec, TxIsQueue, TxQ!Spec

-----------------------------------------------------------------------------
(* The receiving ring is a queue that a byte too many empties. *)

(* The bytes that are not found yet begin in the ring. *)
LEMMA NextRange == ASSUME UartInv PROVE RxNext \in 0 .. RxSize - 1
<1>1. RxNext = rxTail \/ RxNext = Wrap(rxTail + 1, RxSize)
  BY DEF RxNext
<1>2. rxTail \in 0 .. RxSize - 1 /\ rxTail + 1 \in 0 .. 2 * RxSize - 1
  BY UartAssumption DEF UartInv, UartTypeOK
<1>3. QED
  BY <1>1, <1>2, WrapRange, UartAssumption

(* A byte that comes goes into the queue, if it is not being reset, or empties it. *)
LEMMA RxPutPuts ==
  ASSUME UartInv, NEW b \in Bytes, RxPut(b)
  PROVE  RxQ!Put(b) \/ RxQ!Overflow \/ UNCHANGED <<RxContents, got>>
<1> USE UartAssumption, NextRange
<1> DEFINE w == Window(rxBuf, rxHead, RxNext, RxSize)
           buf == [rxBuf EXCEPT ![rxHead] = b]
           next == Wrap(rxHead + 1, RxSize)
<1>1. /\ rxBuf \in [0 .. RxSize - 1 -> Bytes] /\ rxHead \in 0 .. RxSize - 1
      /\ buf \in [0 .. RxSize - 1 -> Bytes] /\ buf[rxHead] = b
  BY DEF UartInv, UartTypeOK
<1>2. Window(buf, rxHead, RxNext, RxSize) = w
  BY <1>1, WindowStore, ZenonT(40)
<1>3. /\ w \in Seq(Bytes) /\ Len(w) = Ahead(rxHead, RxNext, RxSize)
      /\ Ahead(rxHead, RxNext, RxSize) \in 0 .. RxSize - 1
  BY <1>1, WindowSeq, AheadRange
<1>4. rxBuf' = buf /\ rxHead' = next /\ RxNext' = RxNext /\ got' = got /\ uartCall' = uartCall
  BY DEF RxPut, RxNext
<1>5. CASE uartCall = "reset"
  BY <1>4, <1>5 DEF RxContents
<1>6. CASE uartCall # "reset"
  <2>1. RxContents = w /\ RxContents' = Window(buf, next, RxNext, RxSize)
    BY <1>4, <1>6 DEF RxContents
  <2>2. CASE Ahead(rxHead, RxNext, RxSize) # RxSize - 1
    <3>1. Window(buf, next, RxNext, RxSize) = Append(w, b)
      <4>1. Window(buf, next, RxNext, RxSize)
              = Append(Window(buf, rxHead, RxNext, RxSize), buf[rxHead])
        BY <1>1, <2>2, WindowPut
      <4>2. QED
        BY <1>1, <1>2, <4>1
    <3>2. Len(w) < RxSize - 1
      BY <1>3, <2>2
    <3>3. QED
      BY <1>4, <2>1, <3>1, <3>2 DEF RxQ!Put
  <2>3. CASE Ahead(rxHead, RxNext, RxSize) = RxSize - 1
    <3>1. next = RxNext
      BY <1>1, <2>3, MeetsTail
    <3>2. Window(buf, next, RxNext, RxSize) = <<>>
      BY <1>1, <3>1, WindowEmpty
    <3>3. Len(w) = RxSize - 1
      BY <1>3, <2>3
    <3>4. QED
      BY <1>4, <2>1, <3>2, <3>3 DEF RxQ!Overflow, RxQ!Clear
  <2>4. QED
    BY <2>2, <2>3
<1>7. QED
  BY <1>5, <1>6

(* What the ring holds depends on its own variables and on where the program *)
(* is in a call that reads or resets it.                                     *)
LEMMA RxFrame ==
  ASSUME UNCHANGED rxVars,
         uartCall' = uartCall \/ {uartCall, uartCall'} \subseteq {"none", "send"}
  PROVE  UNCHANGED <<RxContents, got>>
BY DEF rxVars, RxContents, RxNext

(* A step of the system is a step of the queue, or none. *)
LEMMA RxStep ==
  ASSUME UartInv, [UartNext(Bytes, Bytes)]_uartVars
  PROVE  [RxMay]_<<RxContents, got>>
<1> USE UartAssumption
<1>1. CASE UNCHANGED uartVars
  BY <1>1, RxFrame DEF uartVars
<1>2. ASSUME NEW b \in Bytes, NEW ready \in BOOLEAN, ScanlineIn(b, ready)
      PROVE  [RxMay]_<<RxContents, got>>
  <2>1. RxPut(b)
    BY <1>2 DEF ScanlineIn
  <2>2. QED
    BY <2>1, RxPutPuts DEF RxMay, RxQ!Next
<1>3. CASE ScanlineOut
  BY <1>3, RxFrame DEF ScanlineOut, TxGet
<1>4. CASE ReadChar
  <2>1. /\ Window(rxBuf, rxHead, rxTail, RxSize) # <<>>
        /\ Head(Window(rxBuf, rxHead, rxTail, RxSize)) = rxBuf[rxTail]
        /\ Window(rxBuf, rxHead, Wrap(rxTail + 1, RxSize), RxSize)
             = Tail(Window(rxBuf, rxHead, rxTail, RxSize))
    BY <1>4, WindowTake DEF ReadChar, UartInv, UartTypeOK
  <2>2. RxQ!Take
    BY <1>4, <2>1 DEF ReadChar, RxQ!Take, RxContents, RxNext
  <2>3. QED
    BY <2>2 DEF RxMay, RxQ!Next
<1>5. CASE ReadCharTail
  BY <1>5 DEF ReadCharTail, RxContents, RxNext
<1>6. CASE InitRx
  <2>1. RxContents' = <<>> /\ got' = got
    BY <1>6 DEF InitRx, RxContents
  <2>2. QED
    BY <1>6, <2>1 DEF RxMay, InitRx, RxQ!Clear
<1>7. CASE InitRxHead
  <2>1. rxTail = 0 /\ Window(rxBuf, 0, 0, RxSize) = <<>>
    BY <1>7, WindowEmpty DEF InitRxHead, UartInv, UartTypeOK, ResetTail
  <2>2. RxContents = <<>> /\ RxContents' = <<>> /\ got' = got
    BY <1>7, <2>1 DEF InitRxHead, RxContents, RxNext
  <2>3. QED
    BY <2>2
<1>8. ASSUME NEW b \in Bytes, SendChar(b) PROVE UNCHANGED <<RxContents, got>>
  BY <1>8, RxFrame DEF SendChar
<1>9. CASE SendCharHead
  BY <1>9, RxFrame DEF SendCharHead
<1>10. QED
  BY <1>1, <1>2, <1>3, <1>4, <1>5, <1>6, <1>7, <1>8, <1>9 DEF UartNext

(* For every size and any bytes: UartReadChar gives what came, in order and   *)
(* none twice, wherever the interrupt falls in it; a byte that comes too many *)
(* loses all that wait and InitUartRxBuffer all that came, and nothing else.  *)
THEOREM ReadsInOrder == UartSpec => RxIsQueue
<1>1. UartInit => RxQ!Init
  <2>1. UartInit => Window(rxBuf, rxHead, rxTail, RxSize) = <<>>
    BY UartAssumption, WindowEmpty DEF UartInit
  <2>2. UartInit => RxContents = <<>>
    BY <2>1 DEF UartInit, RxContents, RxNext
  <2>3. QED
    BY <2>2 DEF RxQ!Init
<1>2. UartInv /\ [UartNext(Bytes, Bytes)]_uartVars => [RxMay]_<<RxContents, got>>
  BY RxStep
<1>3. QED
  BY <1>1, <1>2, UartTypes, PTL DEF UartSpec, RxIsQueue
=============================================================================
