----------------------------- MODULE AutoBitRate -----------------------------
(***************************************************************************)
(* The automatic bitrate of the stream multiplexer                         *)
(* (preset/streammux/autobitrate_handler.go).  Each check asks the         *)
(* calculator for a bitrate, sets it in the encoder and switches to        *)
(* another output if the bitrate does not suit the resolution: at once if  *)
(* the calculator calls it critical, else only after the direction of the  *)
(* change has stayed the same for a while; meanwhile a downgrade reduces   *)
(* the frame rate.  A requested output becomes active with a later key     *)
(* frame, between any two steps of a check.                                *)
(*                                                                         *)
(* Outputs are numbered by their resolution and the bypass, the copying    *)
(* output, is better than all (SenderKey.Compare).  The calculator may     *)
(* answer anything until it is steady: then it asks for goal, and the      *)
(* input keeps its bitrate.  One tick passes from a check to the next.     *)
(***************************************************************************)
EXTENDS Integers

CONSTANTS
  Low, High,        \* the bitrates that suit a resolution
  Original,         \* the resolution of the persistent configuration
  Rates, InputRates,
  MinBitRate, MaxBitRate,
  Slowdown,         \* BitRateIncreaseSlowdown, in ticks; likewise
  DelayUp, DelayDown, Minute

Resolutions == DOMAIN Low
Copy == 1 + CHOOSE r \in Resolutions : \A q \in Resolutions : q <= r
Outputs == Resolutions \cup {Copy}

ASSUME BitRateAssumption ==
  /\ Original \in Resolutions /\ DOMAIN High = Resolutions
  /\ \A r \in Resolutions : Low[r] <= High[r]
  /\ {Slowdown, DelayUp, DelayDown, Minute} \subseteq Nat

\* The resolutions are a list in the configuration, so there is a best and a
\* worst of any of them.
ASSUME RatesAssumption ==
  /\ Rates \cup InputRates \subseteq Nat /\ {MinBitRate, MaxBitRate} \subseteq Nat /\ MinBitRate <= MaxBitRate
  /\ \A set \in SUBSET Resolutions \ {{}} :
       (\E r \in set : \A q \in set : q <= r) /\ (\E r \in set : \A q \in set : r <= q)

VARIABLES
  split,      \* MuxMode is DifferentOutputsSameTracksSplitAV, with sound
  active,     \* the active output: its resolution and its encoder's bitrate
  next,       \* the output that was requested
  inputRate,  \* CurrentVideoInputBitRate
  goal,       \* the steady bitrate, or 0
  check,      \* the check that runs: where it is and what it was asked
  change,     \* currentResolutionChangeRequest
  decreased,  \* ticks since lastBitRateDecreaseTS
  reduced,    \* the temporary FPS reduction is not 1
  raised,     \* history: ticks since the bitrate was last raised
  acted       \* history: the change of output the last step made unforced

bitrate == <<split, active, next, inputRate, goal, check, change, decreased, reduced, raised, acted>>

Cap == DelayUp + DelayDown + Slowdown
Older(age) == IF age < Cap THEN age + 1 ELSE age
NoChange == [dir |-> "none", age |-> 0, idle |-> 0]
NoCheck == [pc |-> "idle", rate |-> 0, old |-> 0, critical |-> FALSE]
NoNext == [res |-> 0, rate |-> 0]

Unclamped(rate) == rate
Clamped(rate) ==
  LET max == IF inputRate > 2 * MinBitRate /\ 3 * inputRate < 2 * MaxBitRate THEN (3 * inputRate) \div 2 ELSE MaxBitRate
  IN IF rate < MinBitRate THEN MinBitRate ELSE IF rate > max THEN max ELSE rate

Best(set) == CHOOSE r \in set : \A q \in set : q <= r
Worst(set) == CHOOSE r \in set : \A q \in set : r <= q
Suiting(rate) == {r \in Resolutions : Low[r] <= rate /\ rate <= High[r]}

\* The resolution that changeResolutionIfNeeded asks for.
Wanted(res, rate) ==
  LET suiting == Suiting(rate)
  IN CASE rate < Low[res] -> IF suiting = {} THEN Worst(Resolutions) ELSE Best(suiting)
       [] rate > High[res] -> IF suiting = {} THEN Best(Resolutions) ELSE Worst(suiting)
       [] OTHER -> res

----------------------------------------------------------------------------
(* setVideoOutput.                                                         *)

\* CurrentOutputProps keeps the persistent configuration, so unless the
\* encoder copies, a request for that configuration is "already set".  With
\* split the video's output has no audio codec to compare.
AlreadySet(res) == res = Original /\ ~split /\ active.res # Copy

Delay(dir) == IF dir = "up" THEN DelayUp ELSE DelayDown
Direction(res) == IF res > active.res THEN "up" ELSE "down"
Continues(wish, dir) == wish.dir = dir /\ wish.idle <= Minute
RestartedAnew(wish) == [wish EXCEPT !.idle = 0, !.age = 0]
Restarted(wish) == [wish EXCEPT !.idle = 0]

\* What becomes of a request for a change and whether it is carried out.
Decide(res, wish, critical) ==
  LET dir == Direction(res)
  IN IF res = active.res THEN [result |-> "error", wish |-> wish]
     ELSE IF critical THEN [result |-> "done", wish |-> NoChange]
     ELSE IF ~Continues(wish, dir) THEN [result |-> "later", wish |-> [dir |-> dir, age |-> 0, idle |-> 0]]
     ELSE IF wish.age < Delay(dir) THEN [result |-> "later", wish |-> Restarted(wish)]
     ELSE [result |-> "done", wish |-> NoChange]

Requested(res, rate, decision) ==
  IF decision.result # "done" \/ AlreadySet(res) THEN next
  ELSE [res |-> res, rate |-> IF res = Copy THEN 0 ELSE rate]

Acted(res, decision, critical) ==
  IF decision.result = "done" /\ ~AlreadySet(res) /\ ~critical THEN Direction(res) ELSE "none"

----------------------------------------------------------------------------
(* A check: trySetVideoBitrate.                                            *)

Aged == IF change.dir = "none" THEN change ELSE [change EXCEPT !.age = Older(@), !.idle = Older(@)]

\* The bug: a request outlives a contrary move.
KeepAlways(wish, rate, old) == wish

\* A move of the bitrate cancels a request for the contrary change.
AfterMove(wish, rate, old) ==
  IF (rate > old /\ wish.dir = "down") \/ (rate < old /\ wish.dir = "up") THEN NoChange ELSE wish

\* The part of AutoByPass: which output it asks for, if any.  Without split
\* it is off: the bypass would copy the sound too, and setVideoOutput cannot
\* ask an encoder that copies for its codec.
Bypass(rate) ==
  CASE split /\ active.res = Copy /\ rate < inputRate -> Original
    [] split /\ active.res # Copy /\ 5 * rate > 6 * inputRate -> Copy
    [] OTHER -> 0

Current == IF active.res = Copy THEN inputRate ELSE active.rate
HeldBack(rate) == rate > Current /\ Older(decreased) < Slowdown

\* The increase is slowed down after a decrease: nothing changes.
SkipIncrease(rate) ==
  /\ HeldBack(rate)
  /\ change' = Aged /\ decreased' = Older(decreased) /\ raised' = Older(raised)
  /\ acted' = "none"
  /\ UNCHANGED <<split, active, next, inputRate, goal, check, reduced>>

\* An error of AutoByPass, "not this time" among them, ends the check.
TrySetVideoBitrate(rate, critical) ==
  LET wish == AfterMove(Aged, rate, Current)
      target == Bypass(rate)
      decision == IF target = 0 THEN [result |-> "none", wish |-> wish] ELSE Decide(target, wish, critical)
  IN /\ ~HeldBack(rate)
     /\ decreased' = IF rate < Current THEN 0 ELSE Older(decreased)
     /\ raised' = IF rate > Current THEN 0 ELSE Older(raised)
     /\ change' = decision.wish
     /\ next' = Requested(target, (9 * inputRate) \div 10, decision)
     /\ acted' = Acted(target, decision, critical)
     /\ check' = IF decision.result \in {"error", "later"} \/ active.res = Copy THEN NoCheck
                 ELSE [pc |-> "change", rate |-> rate, old |-> Current, critical |-> critical]
     /\ UNCHANGED <<split, active, inputRate, goal, reduced>>

Check(rate, critical) ==
  /\ check.pc = "idle" /\ (goal # 0 => rate = goal)
  /\ SkipIncrease(rate) \/ TrySetVideoBitrate(rate, critical)

\* changeResolutionIfNeeded and the reduction of the frame rate.  An encoder
\* that copies has no resolution: an error.
ChangeResolution ==
  LET rate == Clamped(check.rate)
      target == Wanted(active.res, rate)
      decision == IF target = active.res THEN [result |-> "none", wish |-> change]
                  ELSE Decide(target, change, check.critical)
  IN /\ check.pc = "change"
     /\ \/ /\ active.res = Copy
           /\ check' = NoCheck /\ acted' = "none"
           /\ UNCHANGED <<next, change, reduced>>
        \/ /\ active.res # Copy
           /\ change' = decision.wish
           /\ next' = Requested(target, rate, decision)
           /\ acted' = Acted(target, decision, check.critical)
           /\ reduced' = IF decision.result = "later" /\ rate < Low[active.res] THEN TRUE
                         ELSE reduced /\ next'.res # 0
           /\ check' = [check EXCEPT !.pc = "quality"]
     /\ UNCHANGED <<split, active, inputRate, goal, decreased, raised>>

\* SetQuality of the encoder that is active by now.
SetQuality ==
  /\ check.pc = "quality"
  /\ active' = IF active.res # Copy /\ Clamped(check.rate) # check.old
               THEN [active EXCEPT !.rate = Clamped(check.rate)] ELSE active
  /\ check' = NoCheck /\ acted' = "none"
  /\ UNCHANGED <<split, next, inputRate, goal, change, decreased, reduced, raised>>

----------------------------------------------------------------------------

\* The switch is committed; onOutputSwitch looks at the video-only input.
OnOutputSwitch ==
  /\ next.res # 0
  /\ active' = next /\ next' = NoNext
  /\ reduced' = (reduced /\ ~split)
  /\ acted' = "none"
  /\ UNCHANGED <<split, inputRate, goal, check, change, decreased, raised>>

MeasureInput(rate) ==
  /\ goal = 0 /\ inputRate' = rate /\ inputRate # rate /\ acted' = "none"
  /\ UNCHANGED <<split, active, next, goal, check, change, decreased, reduced, raised>>

BecomeSteady(rate) ==
  /\ goal = 0 /\ goal' = rate /\ acted' = "none"
  /\ UNCHANGED <<split, active, next, inputRate, check, change, decreased, reduced, raised>>

BitRateInit ==
  /\ split \in BOOLEAN
  /\ active = [res |-> Original, rate |-> Low[Original]] /\ next = NoNext
  /\ inputRate \in InputRates /\ goal = 0
  /\ check = NoCheck /\ change = NoChange
  /\ decreased = Cap /\ raised = Cap /\ reduced = FALSE /\ acted = "none"

CheckStep == \E rate \in Rates, critical \in BOOLEAN : Check(rate, critical)

BitRateNext ==
  \/ CheckStep \/ ChangeResolution \/ SetQuality \/ OnOutputSwitch
  \/ \E rate \in InputRates : MeasureInput(rate)
  \/ \E rate \in Rates : BecomeSteady(rate)

\* What an encoder may be told: no bitrate at all, the first one, one within
\* the bounds, or, from the bypass, nearly that of the input.
BitRates == {0, Low[Original]} \cup MinBitRate..MaxBitRate \cup {(9 * rate) \div 10 : rate \in InputRates}

BitRateTypeOK ==
  /\ split \in BOOLEAN /\ reduced \in BOOLEAN
  /\ active \in [res : Outputs, rate : BitRates] /\ next \in [res : Outputs \cup {0}, rate : BitRates]
  /\ inputRate \in InputRates /\ goal \in Rates \cup {0}
  /\ check \in [pc : {"idle", "change", "quality"}, rate : Rates \cup {0}, old : BitRates \cup InputRates, critical : BOOLEAN]
  /\ change \in [dir : {"none", "up", "down"}, age : 0..Cap, idle : 0..Cap]
  /\ {decreased, raised} \subseteq 0..Cap /\ acted \in {"none", "up", "down"}

----------------------------------------------------------------------------
(* Properties.                                                             *)

\* Unless it is critical, no output is worse because of a bitrate that was
\* raised during the delay, nor better because of one that was lowered.
NoHaste ==
  /\ acted = "down" => raised >= DelayDown
  /\ acted = "up" => decreased >= DelayUp

\* A bitrate that stays and an input that stays lead to an output that suits
\* both, with that bitrate and its full frame rate.  Not so without split:
\* there the return to Original ends as "already set" and nothing is switched.
Suited ==
  /\ next = NoNext
  /\ \/ active.res = Copy
     \/ /\ Wanted(active.res, Clamped(goal)) = active.res
        /\ active.rate = Clamped(goal) /\ ~reduced
Settles == split /\ goal # 0 ~> []Suited
=============================================================================
