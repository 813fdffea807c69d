------------------------------- MODULE GenMode -------------------------------
(***************************************************************************)
(* The generator mode of one thread (base/src/GenMode.cc): a set of mode    *)
(* flags that requests push and pop, and that linear blocks and the address *)
(* solver enable and disable.  A bit mask is the set of its flags.          *)
(*                                                                         *)
(* An object is a record: mode (mMode, the overlay included), overlay       *)
(* (mModeOverlay, the flags that Enable added) and stack (mModeStack, the   *)
(* modes without overlay that Pop goes back to).                            *)
(***************************************************************************)
EXTENDS Sequences, Integers

CONSTANT Flags                 \* EGenModeType

GenModeObject == [mode : SUBSET Flags, overlay : SUBSET Flags, stack : Seq(SUBSET Flags)]

GenMode(modeType) == [mode |-> modeType, overlay |-> {}, stack |-> << >>]

PushGenMode(g, m) ==
  [mode    |-> g.mode \cup m,
   overlay |-> g.overlay,
   stack   |-> Append(g.stack, g.mode \ g.overlay)]

\* PopGenMode FAILs "pop-gen-mode-check-failed" or "pop-empty-mode-stack".
PopFails(g, m) == ~ (m \subseteq g.mode) \/ g.stack = << >>

PopGenMode(g, m) ==
  [mode    |-> g.stack[Len(g.stack)] \cup g.overlay,
   overlay |-> g.overlay,
   stack   |-> SubSeq(g.stack, 1, Len(g.stack) - 1)]

\* EnableGenMode FAILs "mode-already-enabled" when the whole of m is enabled.
EnableFails(g, m) == m \subseteq g.overlay

\* A variant that puts the flags that a Push had set into the overlay too.
EnableGenMode_All(g, m) ==
  [mode    |-> g.mode \cup m,
   overlay |-> g.overlay \cup m,
   stack   |-> g.stack]

EnableGenMode(g, m) ==
  [mode    |-> g.mode \cup (m \ g.mode),
   overlay |-> g.overlay \cup (m \ g.mode),
   stack   |-> g.stack]

\* DisableGenMode FAILs "disable-gen-mode-check-failed".
DisableFails(g, m) == ~ (m \subseteq g.mode)

DisableGenMode(g, m) ==
  [mode    |-> g.mode \ (g.overlay \cap m),
   overlay |-> g.overlay \ (g.overlay \cap m),
   stack   |-> g.stack]

(***************************************************************************)
(* What pushes, pops, enables and disables keep: the overlay is part of the *)
(* mode, every mode on the stack is part of the current one without the     *)
(* overlay, and the stack grows upwards.                                    *)
(***************************************************************************)
Consistent(g) ==
  /\ g.overlay \subseteq g.mode
  /\ \A i \in 1 .. Len(g.stack) : g.stack[i] \subseteq g.mode \ g.overlay
  /\ \A i, j \in 1 .. Len(g.stack) : i <= j => g.stack[i] \subseteq g.stack[j]

==============================================================================
