----------------------------- MODULE FramePool -----------------------------
(***************************************************************************)
(* What the frame allocator promises its clients, without a bitmap or a    *)
(* count: a pool of frame addresses is published once, a client takes any  *)
(* of them that no client holds, and is refused only when all are held.    *)
(***************************************************************************)
EXTENDS Naturals

CONSTANTS
  Frames,   \* the addresses of the frames of the machine
  Withheld  \* the frames that are never given to a client

VARIABLES
  pool,  \* the frames that may be handed out
  held,  \* the frames clients hold
  reply  \* the answer to the last request, 0 being a refusal

poolVars == <<pool, held, reply>>

PoolInit ==
  /\ pool = {}
  /\ held = {}
  /\ reply = 0

Publish ==
  /\ pool = {}
  /\ pool' \subseteq Frames \ (Withheld \cup {0})
  /\ UNCHANGED <<held, reply>>

Take ==
  /\ \E frame \in pool \ held :
       /\ held' = held \cup {frame}
       /\ reply' = frame
  /\ UNCHANGED pool

Refuse ==
  /\ pool \subseteq held
  /\ reply' = 0
  /\ UNCHANGED <<pool, held>>

Give ==
  /\ \E frame \in held : held' = held \ {frame}
  /\ UNCHANGED <<pool, reply>>

PoolNext == Publish \/ Take \/ Refuse \/ Give

PoolSpec == PoolInit /\ [][PoolNext]_poolVars
=============================================================================
