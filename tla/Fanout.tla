------------------------------- MODULE Fanout -------------------------------
(***************************************************************************)
(* One call that becomes a call of each of several kernels, in goroutines  *)
(* of their own: Tee.SendInputPacket, SendInputFrame, Generate and Close   *)
(* (kernel/tee.go) and Switch.Generate (kernel/switch.go).  The errors come*)
(* back through errCh, which holds one of each kernel.                     *)
(***************************************************************************)
EXTENDS FiniteSets

CONSTANTS Branches

\* The calls that are cancelled by the first failure, and those that put an
\* error into errCh only if a select does not choose a done context instead.
Cancelled == {"Tee.Generate"}
Selecting == {"Tee.Generate", "Tee.Close"}
FanoutCalls == {"Tee.Send", "Tee.Generate", "Tee.Close", "Switch.Generate"}

VARIABLES
  fanCall,      \* which call it is
  branch,       \* of each kernel: "run", "failed", "done"
  failedOnes,   \* kernels that have failed
  errCh,        \* kernels whose error is in it
  fanCtxDone,   \* the context of the goroutines is done
  callerGone,   \* that of the caller is
  fanReturned

fanout == <<fanCall, branch, failedOnes, errCh, fanCtxDone, callerGone, fanReturned>>

BranchReturns(k) ==
  /\ branch[k] = "run" /\ branch' = [branch EXCEPT ![k] = "done"]
  /\ UNCHANGED <<fanCall, failedOnes, errCh, fanCtxDone, callerGone, fanReturned>>

BranchFails(k) ==
  /\ branch[k] = "run" /\ branch' = [branch EXCEPT ![k] = "failed"]
  /\ failedOnes' = failedOnes \cup {k}
  /\ UNCHANGED <<fanCall, errCh, fanCtxDone, callerGone, fanReturned>>

CancelFirst(k) ==
  /\ branch[k] = "failed" /\ branch' = [branch EXCEPT ![k] = "done"]
  /\ errCh' \in {errCh \cup {k}, errCh}
  /\ fanCtxDone' = (fanCtxDone \/ fanCall \in Cancelled)
  /\ UNCHANGED <<fanCall, failedOnes, callerGone, fanReturned>>
ReportOnly(k) ==
  /\ branch[k] = "failed" /\ branch' = [branch EXCEPT ![k] = "done"]
  /\ errCh' = errCh \cup {k}
  /\ UNCHANGED <<fanCall, failedOnes, fanCtxDone, callerGone, fanReturned>>

\* The error is sent before the others are cancelled.
Report(k) ==
  /\ branch[k] = "failed" /\ branch' = [branch EXCEPT ![k] = "done"]
  /\ \/ errCh' = errCh \cup {k}
     \/ fanCall \in Selecting /\ fanCtxDone /\ UNCHANGED errCh
  /\ fanCtxDone' = (fanCtxDone \/ fanCall \in Cancelled)
  /\ UNCHANGED <<fanCall, failedOnes, callerGone, fanReturned>>

CallerGoes ==
  /\ ~callerGone /\ ~fanReturned /\ callerGone' = TRUE /\ fanCtxDone' = TRUE
  /\ UNCHANGED <<fanCall, branch, failedOnes, errCh, fanReturned>>

\* errCh is closed when all have ended.
FanoutReturns ==
  /\ ~fanReturned /\ \A k \in Branches : branch[k] = "done"
  /\ fanReturned' = TRUE
  /\ UNCHANGED <<fanCall, branch, failedOnes, errCh, fanCtxDone, callerGone>>

FanoutInit ==
  /\ fanCall \in FanoutCalls /\ branch = [k \in Branches |-> "run"]
  /\ failedOnes = {} /\ errCh = {} /\ fanCtxDone = FALSE /\ callerGone = FALSE /\ fanReturned = FALSE

BranchStep(k) == BranchReturns(k) \/ BranchFails(k) \/ Report(k)

FanoutNext == CallerGoes \/ FanoutReturns \/ \E k \in Branches : BranchStep(k)

\* A kernel ends its call once the context is done.
FanoutProgress ==
  \/ FanoutReturns
  \/ \E k \in Branches : Report(k) \/ (fanCtxDone /\ (BranchReturns(k) \/ BranchFails(k)))

FanoutTypeOK ==
  /\ fanCall \in FanoutCalls /\ branch \in [Branches -> {"run", "failed", "done"}]
  /\ errCh \subseteq failedOnes /\ failedOnes \subseteq Branches
  /\ {fanCtxDone, callerGone, fanReturned} \subseteq BOOLEAN

----------------------------------------------------------------------------
(* Properties.                                                             *)

\* A call in which a kernel has failed returns an error, unless the caller has
\* cancelled it; where nothing is cancelled it returns all the errors.
FailuresReported ==
  fanReturned /\ ~callerGone =>
    /\ failedOnes # {} => errCh # {}
    /\ fanCall \notin Cancelled => errCh = failedOnes

\* The failure of one kernel ends Tee.Generate: the others do not run on.
TeeMustEnd == fanCall = "Tee.Generate" /\ failedOnes # {}
TeeEnded == fanReturned
=============================================================================
