---------------------------- MODULE GenModeProofs ----------------------------
(***************************************************************************)
(* Proofs about GenMode, for every set of flags: each operation keeps a     *)
(* mode consistent, and scopes undo themselves.                             *)
(***************************************************************************)
EXTENDS GenMode, TLAPS

\* The modes on the stack after a Pop are the ones that were below its top.
LEMMA BelowTop ==
  ASSUME NEW s \in Seq(SUBSET Flags), s # << >>
  PROVE  /\ Len(s) \in Nat /\ Len(s) >= 1
         /\ SubSeq(s, 1, Len(s) - 1) \in Seq(SUBSET Flags)
         /\ Len(SubSeq(s, 1, Len(s) - 1)) = Len(s) - 1
         /\ \A i \in 1 .. Len(s) - 1 : SubSeq(s, 1, Len(s) - 1)[i] = s[i]
<1>1. Len(s) \in Nat /\ Len(s) >= 1
  OBVIOUS
<1>2. 1 \in Int /\ Len(s) - 1 \in Int /\ \A i \in 1 .. Len(s) - 1 : s[i] \in SUBSET Flags
  BY <1>1
<1>3. \A i \in 1 .. Len(s) - 1 : SubSeq(s, 1, Len(s) - 1)[i] = s[i]
  BY <1>1
<1>4. Len(SubSeq(s, 1, Len(s) - 1)) = Len(s) - 1
  <2> DEFINE n == Len(s)  k == Len(SubSeq(s, 1, n - 1))
  <2>1. k = IF 1 <= n - 1 THEN (n - 1) - 1 + 1 ELSE 0
    BY <1>2
  <2>2. n \in Nat /\ n >= 1
    BY <1>1
  <2> HIDE DEF n, k
  <2>3. k = n - 1
    BY <2>1, <2>2
  <2> QED BY <2>3 DEF n, k
<1>5. SubSeq(s, 1, Len(s) - 1) \in Seq(SUBSET Flags)
  BY <1>1
<1> QED BY <1>1, <1>3, <1>4, <1>5

\* PushGenMode keeps a mode consistent, also when it pushes flags that are enabled.
THEOREM PushKeepsConsistent ==
  ASSUME NEW g \in GenModeObject, Consistent(g), NEW m \in SUBSET Flags
  PROVE  PushGenMode(g, m) \in GenModeObject /\ Consistent(PushGenMode(g, m))
<1> DEFINE p == PushGenMode(g, m)
<1>1. /\ g.stack \in Seq(SUBSET Flags) /\ g.mode \in SUBSET Flags /\ g.overlay \in SUBSET Flags
      /\ g.mode \ g.overlay \in SUBSET Flags
  BY DEF GenModeObject
<1>2. /\ p.mode = g.mode \cup m /\ p.overlay = g.overlay
      /\ p.stack = Append(g.stack, g.mode \ g.overlay)
  BY DEF PushGenMode
<1>3. /\ p.stack \in Seq(SUBSET Flags)
      /\ Len(p.stack) = Len(g.stack) + 1 /\ Len(g.stack) \in Nat
      /\ \A i \in 1 .. Len(g.stack) : p.stack[i] = g.stack[i]
      /\ p.stack[Len(p.stack)] = g.mode \ g.overlay
  BY <1>1, <1>2
<1>4. p \in GenModeObject
  BY <1>1, <1>2, <1>3 DEF GenModeObject, PushGenMode
<1>5. \A i \in 1 .. Len(p.stack) : i \in 1 .. Len(g.stack) \/ i = Len(p.stack)
  BY <1>3
<1>6. \A i \in 1 .. Len(p.stack) : p.stack[i] \subseteq g.mode \ g.overlay
  BY <1>3, <1>5 DEF Consistent
<1>7. \A i, j \in 1 .. Len(p.stack) : i <= j => p.stack[i] \subseteq p.stack[j]
  <2> SUFFICES ASSUME NEW i \in 1 .. Len(p.stack), NEW j \in 1 .. Len(p.stack), i <= j
               PROVE  p.stack[i] \subseteq p.stack[j]
    OBVIOUS
  <2>1. CASE j = Len(p.stack)
    BY <2>1, <1>3, <1>6
  <2>2. CASE j # Len(p.stack)
    <3>1. i \in 1 .. Len(g.stack) /\ j \in 1 .. Len(g.stack)
      BY <2>2, <1>3
    <3> QED BY <3>1, <1>3 DEF Consistent
  <2> QED BY <2>1, <2>2
<1>8. /\ p.overlay \subseteq p.mode
      /\ \A i \in 1 .. Len(p.stack) : p.stack[i] \subseteq p.mode \ p.overlay
  BY <1>2, <1>6 DEF Consistent
<1> QED BY <1>4, <1>7, <1>8 DEF Consistent

\* PopGenMode keeps a mode consistent; what is enabled stays enabled.
THEOREM PopKeepsConsistent ==
  ASSUME NEW g \in GenModeObject, Consistent(g), NEW m \in SUBSET Flags, ~ PopFails(g, m)
  PROVE  /\ PopGenMode(g, m) \in GenModeObject /\ Consistent(PopGenMode(g, m))
         /\ g.overlay \subseteq PopGenMode(g, m).mode
<1> DEFINE p == PopGenMode(g, m)  top == g.stack[Len(g.stack)]
<1>1. g.stack \in Seq(SUBSET Flags) /\ g.stack # << >> /\ g.overlay \in SUBSET Flags
  BY DEF GenModeObject, PopFails
<1>2. /\ Len(g.stack) \in Nat /\ Len(g.stack) >= 1 /\ top \in SUBSET Flags
      /\ p.stack \in Seq(SUBSET Flags) /\ Len(p.stack) = Len(g.stack) - 1
      /\ \A i \in 1 .. Len(p.stack) : p.stack[i] = g.stack[i]
  BY <1>1, BelowTop DEF PopGenMode
<1>3. p.mode = top \cup g.overlay /\ p.overlay = g.overlay
  BY DEF PopGenMode
<1>4. p \in GenModeObject
  BY <1>1, <1>2, <1>3 DEF GenModeObject, PopGenMode
<1>5. \A i \in 1 .. Len(p.stack) : i \in 1 .. Len(g.stack) /\ i <= Len(g.stack)
  BY <1>2
<1>6. \A i \in 1 .. Len(p.stack) : p.stack[i] \subseteq top
  <2>1. Len(g.stack) \in 1 .. Len(g.stack)
    BY <1>2
  <2> QED BY <2>1, <1>2, <1>5 DEF Consistent
<1>7. top \subseteq g.mode \ g.overlay
  BY <1>2 DEF Consistent
<1>8. \A i \in 1 .. Len(p.stack) : p.stack[i] \subseteq p.mode \ p.overlay
  BY <1>3, <1>6, <1>7
<1>9. \A i, j \in 1 .. Len(p.stack) : i <= j => p.stack[i] \subseteq p.stack[j]
  BY <1>2, <1>5 DEF Consistent
<1> QED BY <1>3, <1>4, <1>8, <1>9 DEF Consistent

\* EnableGenMode and DisableGenMode keep a mode consistent: the scopes on the stack never
\* see the overlay, so a Pop between an Enable and its Disable is harmless.
THEOREM OverlayKeepsConsistent ==
  ASSUME NEW g \in GenModeObject, Consistent(g), NEW m \in SUBSET Flags
  PROVE  /\ EnableGenMode(g, m) \in GenModeObject /\ Consistent(EnableGenMode(g, m))
         /\ DisableGenMode(g, m) \in GenModeObject /\ Consistent(DisableGenMode(g, m))
<1>1. EnableGenMode(g, m) \in GenModeObject /\ DisableGenMode(g, m) \in GenModeObject
  BY DEF GenModeObject, EnableGenMode, DisableGenMode
<1>2. Consistent(EnableGenMode(g, m))
  BY DEF GenModeObject, EnableGenMode, Consistent
<1>3. Consistent(DisableGenMode(g, m))
  BY DEF GenModeObject, DisableGenMode, Consistent
<1> QED BY <1>1, <1>2, <1>3

\* Reverting a scope gives back the mode object that the scope was entered with, whatever
\* is enabled and whatever the flags of the scope: PopGenMode undoes PushGenMode.
THEOREM PopUndoesPush ==
  ASSUME NEW g \in GenModeObject, Consistent(g), NEW m \in SUBSET Flags
  PROVE  /\ ~ PopFails(PushGenMode(g, m), m)
         /\ PopGenMode(PushGenMode(g, m), m) = g
<1> DEFINE p == PushGenMode(g, m)  low == g.mode \ g.overlay
<1>1. g.stack \in Seq(SUBSET Flags) /\ low \in SUBSET Flags
  BY DEF GenModeObject
<1>2. p.stack = Append(g.stack, low) /\ p.mode = g.mode \cup m /\ p.overlay = g.overlay
  BY DEF PushGenMode
<1>3. /\ p.stack # << >> /\ p.stack[Len(p.stack)] = low
      /\ SubSeq(p.stack, 1, Len(p.stack) - 1) = g.stack
  BY <1>1, <1>2
<1>4. low \cup g.overlay = g.mode
  BY DEF Consistent
<1>5. PopGenMode(p, m) = [mode |-> g.mode, overlay |-> g.overlay, stack |-> g.stack]
  BY <1>2, <1>3, <1>4 DEF PopGenMode
<1>6. g = [mode |-> g.mode, overlay |-> g.overlay, stack |-> g.stack]
  BY DEF GenModeObject
<1> QED BY <1>2, <1>3, <1>5, <1>6 DEF PopFails

\* A linear block that ends gives back the mode it began with, also when some of its flags
\* were set already by a speculative scope: DisableGenMode undoes EnableGenMode as long as
\* none of the flags was enabled before.
THEOREM DisableUndoesEnable ==
  ASSUME NEW g \in GenModeObject, Consistent(g), NEW m \in SUBSET Flags, m \cap g.overlay = {}
  PROVE  /\ ~ DisableFails(EnableGenMode(g, m), m)
         /\ DisableGenMode(EnableGenMode(g, m), m) = g
<1> DEFINE e == EnableGenMode(g, m)
<1>1. e.mode = g.mode \cup m /\ e.overlay = g.overlay \cup (m \ g.mode) /\ e.stack = g.stack
  BY DEF EnableGenMode
<1>2. /\ e.overlay \cap m = m \ g.mode
      /\ e.mode \ (m \ g.mode) = g.mode
      /\ e.overlay \ (m \ g.mode) = g.overlay
  BY <1>1 DEF Consistent
<1>3. DisableGenMode(e, m) = [mode |-> g.mode, overlay |-> g.overlay, stack |-> g.stack]
  BY <1>1, <1>2 DEF DisableGenMode
<1>4. g = [mode |-> g.mode, overlay |-> g.overlay, stack |-> g.stack]
  BY DEF GenModeObject
<1> QED BY <1>1, <1>3, <1>4 DEF DisableFails

=============================================================================
