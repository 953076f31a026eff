----------------------------- MODULE CsiStream -----------------------------
(***************************************************************************)
(* What the ring, the driver and csi_bench together promise a capture that *)
(* keeps up: the frames published after its start, in order, each once and *)
(* each whole, forwarded one by one as they are taken.  No ring, no slots, *)
(* no indices that wrap.                                                   *)
(***************************************************************************)
EXTENDS Naturals

CONSTANT Readers

VARIABLES
  published,  \* frames published so far
  active,     \* readers that capture
  pos,        \* pos[r]: the frame r took last
  out         \* out[r]: the frame r forwarded last

streamVars == <<published, active, pos, out>>

Init ==
  /\ published = 0
  /\ active = {}
  /\ pos = [r \in Readers |-> 0]
  /\ out = [r \in Readers |-> 0]

Publish ==
  /\ published' = published + 1
  /\ UNCHANGED <<active, pos, out>>

(* A capture starts with the next frame.                                   *)
Begin(r) ==
  /\ r \notin active
  /\ active' = active \union {r}
  /\ pos' = [pos EXCEPT ![r] = published]
  /\ out' = [out EXCEPT ![r] = published]
  /\ UNCHANGED published

Take(r) ==
  /\ r \in active
  /\ out[r] = pos[r]
  /\ pos[r] < published
  /\ pos' = [pos EXCEPT ![r] = @ + 1]
  /\ UNCHANGED <<published, active, out>>

Forward(r) ==
  /\ r \in active
  /\ out' = [out EXCEPT ![r] = pos[r]]
  /\ UNCHANGED <<published, active, pos>>

(* Nothing is left of a capture that ended.                                *)
End(r) ==
  /\ r \in active
  /\ active' = active \ {r}
  /\ pos' = [pos EXCEPT ![r] = 0]
  /\ out' = [out EXCEPT ![r] = 0]
  /\ UNCHANGED published

Next ==
  \/ Publish
  \/ \E r \in Readers : Begin(r) \/ Take(r) \/ Forward(r) \/ End(r)

Spec == Init /\ [][Next]_streamVars
=============================================================================
