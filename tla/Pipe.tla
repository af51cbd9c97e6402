-------------------------------- MODULE Pipe --------------------------------
(***************************************************************************)
(* What a chain of kernels promises of the objects that enter at its       *)
(* front: each kind leaves in the order in which it entered, and nothing   *)
(* is lost before a kernel has failed or the context is done.              *)
(***************************************************************************)
EXTENDS Sequences, SequencesExt

CONSTANTS Kinds, Objects

VARIABLES
  queue,    \* per kind, the objects inside, the oldest first
  broken    \* a kernel has failed, or the context is done

Enter(k, o) == queue' = [queue EXCEPT ![k] = Append(@, o)] /\ UNCHANGED broken

Leave(k) == queue[k] # <<>> /\ queue' = [queue EXCEPT ![k] = Tail(@)] /\ UNCHANGED broken

\* What fails loses the object it has, and none takes another way round.
Lose ==
  /\ broken' = TRUE
  /\ \/ UNCHANGED queue
     \/ \E k \in Kinds : \E i \in 1..Len(queue[k]) : queue' = [queue EXCEPT ![k] = RemoveAt(@, i)]

\* The next call has new channels.
Renew == queue' = [k \in Kinds |-> <<>>] /\ broken' \in BOOLEAN

PipeNext ==
  \/ \E k \in Kinds : Leave(k) \/ \E o \in Objects : Enter(k, o)
  \/ Lose
  \/ broken /\ Renew

PipeSpec ==
  /\ queue = [k \in Kinds |-> <<>>] /\ broken = FALSE
  /\ [][PipeNext]_<<queue, broken>>
=============================================================================
