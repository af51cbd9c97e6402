----------------------------- MODULE Passthrough -----------------------------
(***************************************************************************)
(* The transcoder with passthrough (preset/transcoderwithpassthrough) and  *)
(* the switch that is a condition on packets (packet/condition/switch.go). *)
(* The first node pushes each packet to the transcoder and to the throttle *)
(* of the passthrough, each on the condition that two switches have its    *)
(* value; the same conditions stand behind both, unless the two share a    *)
(* connection.  The first switch is set by a request, the second by the    *)
(* commit of the first; a video key frame commits, wherever it is looked   *)
(* at.  Neither switch has a lock.                                         *)
(*                                                                         *)
(* A packet is its number.  The transcoder gives out what it was given, and*)
(* any of that may be a key frame.                                         *)
(***************************************************************************)
EXTENDS Integers, Sequences

CONSTANTS
  KeyFrames,                \* the packets that are video key frames
  MaxPackets, MaxConfigs    \* bounds

ASSUME PassthroughAssumption == MaxPackets \in Nat /\ KeyFrames \subseteq 1..MaxPackets

Ways == {"transcoder", "throttle"}
Fronts == [w \in Ways |-> <<"to", w>>]
\* Who evaluates the conditions of a way: the first node, and the way's last.
Evaluators == {"to", "from"} \X Ways
Values == {0, 1}
Required(e) == IF e[2] = "transcoder" THEN 0 ELSE 1
None == -1   \* math.MinInt32
Switches == {"pre", "post"}

VARIABLES
  sharedConnection,  \* PassthroughModeSameConnection
  patient,       \* a call waits until what the last one asked for has happened
  value,         \* CurrentValue and NextValue of the switches
  task,          \* per evaluator, how far Match is
  hurried,       \* history: a switch got a value while another was being committed
  onWay,         \* per way, the packets between its first node and its last
  config,        \* what SetTranscoderConfig was given last, and the call
  sent, configs  \* how many packets and calls there were

passthrough == <<sharedConnection, patient, value, task, hurried, onWay, config, sent, configs>>

mode == <<sharedConnection, patient>>

NewTask(packet, key) ==
  [at |-> "load", switch |-> "pre", current |-> 0, next |-> None, key |-> key, packet |-> packet]
NoTask == [NewTask(0, FALSE) EXCEPT !.at = "idle"]

\* The zero value of a switch has both at 0.
PassthroughInit ==
  /\ sharedConnection \in BOOLEAN /\ patient \in BOOLEAN
  /\ value = [s \in Switches |-> [current |-> 0, next |-> 0]]
  /\ task = [e \in Evaluators |-> NoTask]
  /\ hurried = FALSE
  /\ onWay = [w \in Ways |-> <<>>]
  /\ config = [wanted |-> 0, call |-> "none", was |-> 0]
  /\ sent = 0 /\ configs = 0

----------------------------------------------------------------------------
(* Packets.                                                                *)

\* The first node pushes to both at once, and waits for both.
Push ==
  /\ \A w \in Ways : task[Fronts[w]].at = "idle"
  /\ sent < MaxPackets /\ sent' = sent + 1
  /\ task' = [e \in Evaluators |-> IF e[1] = "to" THEN NewTask(sent + 1, sent + 1 \in KeyFrames) ELSE task[e]]
  /\ UNCHANGED <<mode, value, hurried, onWay, config, configs>>

\* The last node of a way pushes on, without conditions into a shared connection.
GiveOut(w, key) ==
  /\ onWay[w] # <<>> /\ task[<<"from", w>>].at = "idle"
  /\ w = "throttle" => key = (Head(onWay[w]) \in KeyFrames)
  /\ onWay' = [onWay EXCEPT ![w] = Tail(@)]
  /\ task' = IF sharedConnection THEN task ELSE [task EXCEPT ![<<"from", w>>] = NewTask(Head(onWay[w]), key)]
  /\ UNCHANGED <<mode, value, hurried, config, sent, configs>>

----------------------------------------------------------------------------
(* Match of the two conditions, one step per change of a switch.           *)

\* The old value decides.  The second switch is asked only if the first agrees.
Verdict(e, current) ==
  IF current # Required(e) THEN task' = [task EXCEPT ![e] = NoTask] /\ UNCHANGED onWay
  ELSE IF task[e].switch = "pre"
  THEN task' = [task EXCEPT ![e] = [@ EXCEPT !.at = "load", !.switch = "post"]] /\ UNCHANGED onWay
  ELSE /\ task' = [task EXCEPT ![e] = NoTask]
       /\ onWay' = IF e[1] = "to" THEN [onWay EXCEPT ![e[2]] = Append(@, task[e].packet)] ELSE onWay

\* The loads are one step here; BarrierSwitch has them apart.
LoadValues(e) ==
  LET s == task[e].switch  next == value[s].next
  IN /\ task[e].at = "load"
     /\ IF next \in {None, value[s].current} \/ ~task[e].key
        THEN Verdict(e, value[s].current)
        ELSE /\ task' = [task EXCEPT ![e] = [@ EXCEPT !.at = "store", !.current = value[s].current, !.next = next]]
             /\ UNCHANGED onWay
     /\ UNCHANGED <<mode, value, hurried, config, sent, configs>>

StoreCurrentValue(e) ==
  LET s == task[e].switch
  IN /\ task[e].at = "store"
     /\ value' = [value EXCEPT ![s].current = task[e].next]
     /\ task' = [task EXCEPT ![e].at = "swap"]
     /\ UNCHANGED <<mode, hurried, onWay, config, sent, configs>>

SwapNextValue(e) ==
  LET s == task[e].switch  won == value[s].next = task[e].next
  IN /\ task[e].at = "swap"
     /\ value' = IF won THEN [value EXCEPT ![s].next = None] ELSE value
     /\ IF won /\ s = "pre" THEN task' = [task EXCEPT ![e].at = "after"] /\ UNCHANGED onWay
                            ELSE Verdict(e, task[e].current)
     /\ UNCHANGED <<mode, hurried, config, sent, configs>>

Pending(s) == value[s].next \notin {None, value[s].current}
Committing(e) == task[e].at \in {"store", "swap", "after"}
\* A switch is given a value while another one is being committed.
Hurry(s, v) ==
  hurried' = (hurried \/ \E e \in Evaluators : Committing(e) /\ task[e].switch = s /\ task[e].next # v)

\* OnAfterSwitch of the first switch sets the second.
OnAfterSwitch(e) ==
  /\ task[e].at = "after"
  /\ value' = [value EXCEPT !["post"].next = task[e].next]
  /\ Hurry("post", task[e].next)
  /\ Verdict(e, task[e].current)
  /\ UNCHANGED <<mode, config, sent, configs>>

----------------------------------------------------------------------------
(* SetTranscoderConfig, with the preset's lock.                            *)

\* The bug: it is called before the switch is through.
MayCallAtOnce == config.call = "none" /\ configs < MaxConfigs
MayCall ==
  /\ config.call = "none" /\ configs < MaxConfigs
  /\ patient => (\A s \in Switches : ~Pending(s)) /\ (\A e \in Evaluators : ~Committing(e))

\* Setting up the encoder may fail; then the switch stays as it is.
Reconfigure ==
  /\ MayCall /\ configs' = configs + 1
  /\ \/ UNCHANGED <<value, config, hurried>>
     \/ /\ value' = [value EXCEPT !["pre"].next = 0] /\ Hurry("pre", 0)
        /\ config' = [config EXCEPT !.wanted = 0]
  /\ UNCHANGED <<mode, task, onWay, sent>>

ReconfigureCopy ==
  /\ MayCall /\ configs' = configs + 1
  /\ config' = [config EXCEPT !.call = "set", !.was = value["pre"].current]
  /\ UNCHANGED <<mode, value, task, hurried, onWay, sent>>

SetPassthrough ==
  /\ config.call = "set"
  /\ value' = [value EXCEPT !["pre"].next = 1] /\ Hurry("pre", 1)
  /\ config' = [config EXCEPT !.wanted = 1, !.call = IF config.was = 0 THEN "reset" ELSE "none"]
  /\ UNCHANGED <<mode, task, onWay, sent, configs>>

\* ResetSoft, at once: what the codecs hold is lost, though the switch still
\* waits for a key frame.
ResetTranscoder ==
  /\ config.call = "reset"
  /\ \E held \in 0..Len(onWay["transcoder"]) : onWay' = [onWay EXCEPT !["transcoder"] = SubSeq(@, held + 1, Len(@))]
  /\ config' = [config EXCEPT !.call = "none"]
  /\ UNCHANGED <<mode, value, task, hurried, sent, configs>>

PassthroughNext ==
  \/ Push \/ \E w \in Ways, key \in BOOLEAN : GiveOut(w, key)
  \/ \E e \in Evaluators : \/ LoadValues(e) \/ StoreCurrentValue(e)
                           \/ SwapNextValue(e) \/ OnAfterSwitch(e)
  \/ Reconfigure \/ ReconfigureCopy \/ SetPassthrough \/ ResetTranscoder

----------------------------------------------------------------------------
(* Properties.                                                             *)

PassthroughTypeOK ==
  /\ value \in [Switches -> [current : Values, next : Values \cup {None}]]
  /\ {sharedConnection, patient, hurried} \subseteq BOOLEAN /\ sent \in 0..MaxPackets
  /\ config \in [wanted : Values, call : {"none", "set", "reset"}, was : Values]
  /\ task \in [Evaluators -> [at : {"idle", "load", "store", "swap", "after"}, switch : Switches,
                              current : Values, next : Values \cup {None}, key : BOOLEAN, packet : 0..MaxPackets]]
  /\ onWay \in [Ways -> Seq(1..MaxPackets)]

Quiet == (\A e \in Evaluators : task[e].at = "idle") /\ config.call = "none"

\* Once nothing is pending both switches have the value that was asked for last,
\* so that packets go one way, whatever evaluators committed in which order;
\* unless a switch was asked for another value in the middle of a commit.
SwitchesAgree ==
  Quiet /\ ~hurried /\ ~Pending("pre") /\ ~Pending("post") =>
    value["pre"].current = config.wanted /\ value["post"].current = config.wanted

\* That happens only to somebody who asks again before the switch is through.
PatienceSuffices == patient => ~hurried

\* Each way keeps the order of the packets, and none is on one way twice.
InOrder(s) == \A i, j \in DOMAIN s : i < j => s[i] < s[j]
PassthroughSafe == SwitchesAgree /\ PatienceSuffices /\ \A w \in Ways : InOrder(onWay[w])
=============================================================================
