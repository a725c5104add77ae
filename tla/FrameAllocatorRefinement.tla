---------------------- MODULE FrameAllocatorRefinement ----------------------
(***************************************************************************)
(* The frame allocator implements the frame pool.                          *)
(***************************************************************************)
EXTENDS FrameAllocator

\* What a client may still be given or holds: nothing until Init is over, then
\* the frames with a clear bit and the frames handed out.
PoolOfAllocator ==
  IF pc = "ready"
  THEN {FrameSize * f : f \in (0 .. (max_frames - 1)) \ pmmap} \cup owned
  ELSE {}

Pool == INSTANCE FramePool WITH
  Frames   <- {FrameSize * f : f \in 0 .. (WordMod \div FrameSize)},
  Withheld <- {FrameSize * f : f \in KernelFrames},
  pool     <- PoolOfAllocator,
  held     <- owned,
  reply    <- result

\* The bitmap and its count implement the pool: the frames that can be handed
\* out are fixed by Init, each is held by at most one client, and nullptr is
\* returned only when none is left.  (Where frames that DeinitKernel reserves are
\* not available memory they are counted twice, and nullptr may come early.)
ImplementsPool == Pool!PoolSpec
=============================================================================
