---------------------------- MODULE Framebuffer ----------------------------
(***************************************************************************)
(* The memory-mapped framebuffer and handler.readImage, which copies it    *)
(* while other processes go on drawing: nothing locks the mapping.  A copy *)
(* during which somebody draws is torn and may show anything.              *)
(***************************************************************************)
CONSTANT Frames  \* what a screen can show, whole pictures and torn ones

VARIABLES
  screen,   \* the content of Device.mmap
  reading   \* a readImage is at work: "no", "clean" so far, or "torn"

FramebufferInit ==
  /\ screen \in Frames
  /\ reading = "no"

\* Another process draws.
Draw(f) ==
  /\ f # screen
  /\ screen' = f
  /\ reading' = IF reading = "no" THEN "no" ELSE "torn"

\* fb.Image finds a 16-bit mode and readImage starts to copy Device.mmap.
ReadBegin ==
  /\ reading = "no"
  /\ reading' = "clean"
  /\ UNCHANGED screen

\* The copy is complete and f is what it holds.
ReadEnd(f) ==
  /\ reading # "no"
  /\ reading = "clean" => f = screen
  /\ reading' = "no"
  /\ UNCHANGED screen

FramebufferTypeOK ==
  /\ screen \in Frames
  /\ reading \in {"no", "clean", "torn"}
=============================================================================
