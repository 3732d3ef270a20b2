------------------------------ MODULE VideoSync ------------------------------
(***************************************************************************)
(* The heartbeat of the kernel (uzeboxVideoEngineCore.s): the timer        *)
(* interrupt makes every sync pulse of the picture, plays a sound sample   *)
(* on every line, draws the frame and, at the field's last line, does the  *)
(* vsync work with interrupts on, so that the pulses of the next field     *)
(* nest in it.  The work fades the screen, runs ProcessMusic and mixes one *)
(* field of samples (soundMixerVsync.s).  The program meanwhile waits for  *)
(* frames and starts fades.                                                *)
(*                                                                         *)
(* A pulse is one step and so is a line of the program's code that moves   *)
(* one byte the interrupt uses too.  The frame is one step: its lines run  *)
(* with interrupts off.  The work lasts less than a field (MaxWork), and   *)
(* the four stores that start a fade have the work between them at most    *)
(* once: a field is far longer than they are.                              *)
(***************************************************************************)
EXTENDS Integers, Sequences

CONSTANTS PreEq, Eq, PostEq,  \* SYNC_PRE_EQ_PULSES, SYNC_EQ_PULSES, SYNC_POST_EQ_PULSES
          Lines,              \* SYNC_HSYNC_PULSES
          First, Count,       \* first_render_line, render_lines_count
          Block,              \* how many samples the mixer's first block has (255)
          FADER_STEPS,
          Speeds,             \* the speeds fades are started with
          MaxWork             \* bound: how many pulses the vsync work lasts

Half == PreEq + Eq + PostEq
MIX_BANK_SIZE == Lines + Half \div 2

\* Pulses come in pairs, and a line of the field is left after the frame.
ASSUME VideoAssumption == /\ PreEq \in Nat /\ Eq \in Nat /\ PostEq \in Nat \ {0}
                          /\ PreEq % 2 = 0 /\ Eq % 2 = 0 /\ PostEq % 2 = 0
                          /\ Lines \in Nat /\ First \in Nat /\ Count \in Nat
                          /\ First + Count + 1 < Lines
                          /\ FADER_STEPS \in Nat \ {0, 1}
                          /\ MaxWork \in Nat /\ MaxWork < Half + Lines - Count
                          /\ Block \in 0 .. MIX_BANK_SIZE - 1

VARIABLES phase, pulse,       \* sync_phase, sync_pulse
          vsyncFlag,          \* sync_flags' SYNC_FLAG_VSYNC
          work, age,          \* the step of the vsync work, and its pulses so far
          mixPos, mixBank,
          fadeStep, fadeDir, fadeSpeed, currFadeFrame, fadeActive,
          screen,             \* DDRC, as the step of the fader's table it came from
          main,               \* where the program is
          made,               \* history: the pulses of this field by kind
          fresh               \* history: samples mixed and not yet played

syncVars == <<phase, pulse, made>>
soundVars == <<mixPos, mixBank, fresh>>
fadeVars == <<fadeStep, fadeDir, fadeSpeed, currFadeFrame, fadeActive,
              screen>>
videoVars == <<syncVars, soundVars, fadeVars, main, vsyncFlag, work, age>>

Field == [pre |-> PreEq, eq |-> Eq, post |-> PostEq, lines |-> Lines]
NoPulse == [pre |-> 0, eq |-> 0, post |-> 0, lines |-> 0]

VideoInit ==
    /\ phase = "vsync" /\ pulse = Half /\ made = Field
    /\ vsyncFlag = FALSE
    /\ work = "none" /\ age = 0
    /\ mixPos = 0 /\ mixBank = 0
    /\ fresh = 0 .. 2 * MIX_BANK_SIZE - 1
    /\ fadeStep = 0 /\ fadeDir = 0 /\ fadeSpeed = 0 /\ currFadeFrame = 0 /\ fadeActive = FALSE
    /\ screen = FADER_STEPS
    /\ main = [at |-> "game"]

(***************************************************************************)
(* The sync pulses.  Each may fall into the vsync work.                    *)
(***************************************************************************)
\* update_sound, "n" times: the samples go out in a ring of two banks.
Play(n) ==
    /\ mixPos' = (mixPos + n) % (2 * MIX_BANK_SIZE)
    /\ fresh' = fresh \ {(mixPos + i) % (2 * MIX_BANK_SIZE) : i \in 0 .. n - 1}
    /\ UNCHANGED mixBank

Young == work # "none" => age < MaxWork

Older == /\ Young
         /\ age' = IF work = "none" THEN 0 ELSE age + 1
         /\ UNCHANGED <<fadeVars, main>>

\* Mutant of Kind: the counts are compared one pulse late.
KindLate(left) == IF left > Eq + PostEq THEN "pre" ELSE IF left > PostEq THEN "eq" ELSE "post"

\* Which of the vsync's pulses it is with "left" pulses to go.
Kind(left) == IF left >= Eq + PostEq THEN "pre" ELSE IF left >= PostEq THEN "eq" ELSE "post"

\* Mutant of VsyncPulse: a sample with every pulse.
VsyncPulseLoud ==
    /\ phase = "vsync"
    /\ Older
    /\ made' = [(IF pulse = Half THEN NoPulse ELSE made) EXCEPT ![Kind(pulse - 1)] = @ + 1]
    /\ Play(1)
    /\ IF pulse = 1 THEN phase' = "hsync" /\ pulse' = Lines
                    ELSE pulse' = pulse - 1 /\ UNCHANGED phase
    /\ UNCHANGED <<vsyncFlag, work>>

\* A pulse of half a line; every second one plays a sample.
VsyncPulse ==
    /\ phase = "vsync"
    /\ Older
    /\ made' = [(IF pulse = Half THEN NoPulse ELSE made) EXCEPT ![Kind(pulse - 1)] = @ + 1]
    /\ IF (pulse - 1) % 2 = 1 THEN Play(1) ELSE UNCHANGED soundVars
    /\ IF pulse = 1 THEN phase' = "hsync" /\ pulse' = Lines
                    ELSE pulse' = pulse - 1 /\ UNCHANGED phase
    /\ UNCHANGED <<vsyncFlag, work>>

InWindow(left) == left < Lines - First /\ left >= Lines - First - Count

\* A line outside of the picture that is not the field's last.
Line ==
    /\ phase = "hsync" /\ pulse > 1 /\ ~InWindow(pulse - 1)
    /\ Older
    /\ pulse' = pulse - 1
    /\ made' = [made EXCEPT !.lines = @ + 1]
    /\ Play(1)
    /\ UNCHANGED <<phase, vsyncFlag, work>>

\* The frame: its first line's pulse, then the video mode counts its lines.
Render ==
    /\ phase = "hsync" /\ InWindow(pulse - 1)
    /\ Older
    /\ pulse' = pulse - 1 - Count
    /\ made' = [made EXCEPT !.lines = @ + 1 + Count]
    /\ Play(1 + Count)
    /\ vsyncFlag' = TRUE
    /\ UNCHANGED <<phase, work>>

\* The program is storing a fade's values.
Storing == main.at \in {"dir", "speed", "active"}

\* The last line: the vsync work begins, whatever was going on, and turns
\* interrupts on.
LastLine ==
    /\ phase = "hsync" /\ pulse = 1 /\ ~InWindow(0)
    /\ Young
    /\ Storing => ~main.met
    /\ main' = IF Storing THEN [main EXCEPT !.met = TRUE] ELSE main
    /\ phase' = "vsync" /\ pulse' = Half
    /\ made' = [made EXCEPT !.lines = @ + 1]
    /\ Play(1)
    /\ work' = "fade" /\ age' = 0
    /\ UNCHANGED <<vsyncFlag, fadeVars>>

(***************************************************************************)
(* The vsync work.                                                         *)
(***************************************************************************)
WorkStep(from, to) ==
    /\ work = from
    /\ work' = to
    /\ UNCHANGED <<syncVars, vsyncFlag, age>>

\* Mutant of FadeStops: only a fade in ends.
FadeStopsAtTop(step) == step = FADER_STEPS + 1

\* A fade's last step takes it out of the table.
FadeStops(step) == step \in {0, FADER_STEPS + 1}

\* Mutant of FadeCountdown: the frames of a step are not counted down.
FadeCountdownStays == IF currFadeFrame # 0 THEN currFadeFrame ELSE fadeSpeed

FadeCountdown == IF currFadeFrame # 0 THEN currFadeFrame - 1 ELSE fadeSpeed

ProcessFading ==
    /\ WorkStep("fade", "bank")
    /\ currFadeFrame' = IF fadeActive THEN FadeCountdown ELSE currFadeFrame
    /\ LET steps == fadeActive /\ currFadeFrame = 0
       IN  /\ screen' = IF steps THEN fadeStep ELSE screen
           /\ fadeStep' = IF steps THEN fadeStep + fadeDir ELSE fadeStep
           /\ fadeActive' = (fadeActive /\ ~(steps /\ FadeStops(fadeStep')))
    /\ UNCHANGED <<fadeDir, fadeSpeed, soundVars, main>>

\* process_music: the bank to mix into is chosen and the other is next.
ChooseBank ==
    /\ WorkStep("bank", "mix")
    /\ mixBank' = 1 - mixBank
    /\ UNCHANGED <<mixPos, fresh, fadeVars, main>>

\* The samples of the bank that is not "next", from the i-th on.
Mixed(i, n) == {(1 - mixBank) * MIX_BANK_SIZE + j : j \in i .. i + n - 1}

Mix(from, to, i, n) ==
    /\ WorkStep(from, to)
    /\ fresh' = fresh \cup Mixed(i, n)
    /\ UNCHANGED <<mixPos, mixBank, fadeVars, main>>

MixBlock == Mix("mix", "rest", 0, Block)

MixRest == Mix("rest", "none", Block, MIX_BANK_SIZE - Block)

Work == ProcessFading \/ ChooseBank \/ MixBlock \/ MixRest

(***************************************************************************)
(* The program; it runs while the interrupt is not in its work.            *)
(***************************************************************************)
MainStep(from, to) ==
    /\ work = "none" /\ main.at = from
    /\ main' = to
    /\ UNCHANGED <<syncVars, soundVars, work, age>>

At(place) == [at |-> place]

\* WaitVsync: GetVsyncFlag until it is set, then ClearVsyncFlag (its store).
WaitVsync ==
    /\ MainStep("game", At("wait"))
    /\ UNCHANGED <<vsyncFlag, fadeVars>>

FrameSeen ==
    /\ MainStep("wait", At("clear")) /\ vsyncFlag
    /\ UNCHANGED <<vsyncFlag, fadeVars>>

ClearVsyncFlag ==
    /\ MainStep("clear", At("game"))
    /\ vsyncFlag' = FALSE
    /\ UNCHANGED fadeVars

\* The step of the table a fade in that direction begins with, and ends with.
Begin(dir) == IF dir = 1 THEN 1 ELSE FADER_STEPS
End(dir) == Begin(-dir)

\* FadeIn and FadeOut at speed 0, which know nothing of a fade that is running.
FadeAtOnce(dir) ==
    /\ MainStep("game", main)
    /\ screen' = End(dir)
    /\ UNCHANGED <<vsyncFlag, fadeStep, fadeDir, fadeSpeed, currFadeFrame, fadeActive>>

\* FadeIn and FadeOut, whether a fade is running or not: fadeStep, fadeDir, doFade.
StartFade(dir, speed, blocking) ==
    /\ MainStep("game", [at |-> "dir", dir |-> dir, speed |-> speed,
                         blocking |-> blocking, met |-> FALSE])
    /\ fadeStep' = Begin(dir)
    /\ UNCHANGED <<vsyncFlag, fadeDir, fadeSpeed, currFadeFrame, fadeActive, screen>>

FadeDir ==
    /\ MainStep("dir", [main EXCEPT !.at = "speed"])
    /\ fadeDir' = main.dir
    /\ UNCHANGED <<vsyncFlag, fadeStep, fadeSpeed, currFadeFrame, fadeActive, screen>>

\* doFade, up to fadeActive.
DoFade ==
    /\ MainStep("speed", [main EXCEPT !.at = "active"])
    /\ fadeSpeed' = main.speed /\ currFadeFrame' = 0
    /\ UNCHANGED <<vsyncFlag, fadeStep, fadeDir, fadeActive, screen>>

FadeActive ==
    /\ MainStep("active", IF main.blocking THEN [at |-> "fading", dir |-> main.dir]
                                           ELSE At("game"))
    /\ fadeActive' = TRUE
    /\ UNCHANGED <<vsyncFlag, fadeStep, fadeDir, fadeSpeed, currFadeFrame, screen>>

\* A blocking fade returns when the interrupt is through with it.
Faded ==
    /\ MainStep("fading", At("game")) /\ ~fadeActive
    /\ UNCHANGED <<vsyncFlag, fadeVars>>

GoOn == FrameSeen \/ ClearVsyncFlag \/ FadeDir \/ DoFade \/ FadeActive \/ Faded

Call == \/ WaitVsync
        \/ \E dir \in {1, -1} : FadeAtOnce(dir)
        \/ \E dir \in {1, -1}, speed \in Speeds, blocking \in BOOLEAN :
              StartFade(dir, speed, blocking)

Pulse == VsyncPulse \/ Line \/ Render \/ LastLine

VideoNext == Pulse \/ Work \/ GoOn \/ Call

\* The timer and the work go on (the work outlasts no more than MaxWork pulses),
\* and the program between them.
VideoSpec == /\ VideoInit /\ [][VideoNext]_videoVars
             /\ WF_videoVars(Pulse \/ Work) /\ SF_videoVars(GoOn)

(***************************************************************************)
(* Properties.                                                             *)
(***************************************************************************)
\* However the pulses nest in the work: a sample is played only after it was
\* mixed for this turn, and the mixer never writes over one still to be played
\* (262 samples a field on both sides, and the banks change in step).
SoundKeepsAhead ==
    /\ mixPos \in fresh
    /\ work = "mix" => Mixed(0, Block) \cap fresh = {}
    /\ work = "rest" => Mixed(Block, MIX_BANK_SIZE - Block) \cap fresh = {}

\* A field has each kind of pulse as often as the standard wants, although one
\* counter runs through all of them, partly in the drawing of the frame.
FieldIsWhole == phase = "vsync" /\ pulse = Half => made = Field

\* A fade started while another one runs begins at its own end of the table,
\* wherever the interrupt falls in the four stores that start it: the old fade
\* moves it off the table by one step at most, which is turned back at once, and
\* a fade that is waited for ends with the picture that was asked for.
FadeEndsAsAsked ==
    /\ fadeActive /\ fadeStep \notin 1 .. FADER_STEPS =>
         fadeStep + fadeDir \in 1 .. FADER_STEPS
    /\ main.at = "fading" /\ ~fadeActive => screen = End(main.dir)

\* The program is never left waiting: a frame lost between ClearVsyncFlag's load
\* and store, or to a late program, only makes WaitVsync wait for the next one,
\* and a blocking fade returns whatever fade it was started over.
ProgramGoesOn == \A place \in {"wait", "fading"} : main.at = place ~> main.at = "game"
=============================================================================
