--------------------------- MODULE SpeculativeBnt ---------------------------
(***************************************************************************)
(* How one generator thread turns requests into instructions, and how it    *)
(* speculates on the path that a branch does not take (BNT):                *)
(*                                                                         *)
(*   GenRequestQueue, Generator    rounds of requests, which nest because a *)
(*                                 request may call a script back           *)
(*   GenInstructionAgent           generate, step on the simulator (ISS)    *)
(*   GenStateAgent, GenMode        the generator mode, linear blocks        *)
(*   GenSequenceAgent              escape, BNT nodes, re-execution          *)
(*   BntNode(Manager), ResourcePeState   what speculation saves and recovers*)
(*   GenCallBackAgent, BntSequence.py    the call back that fills a path    *)
(*                                                                         *)
(* An address is a number and holds one instruction; InstructionSpace is two*)
(* of them (36 bytes in the code) and BntMinSpace one.  An instruction is a *)
(* branch, or writes one register or memory byte (a cell) with a value that *)
(* no other instruction writes.  Exceptions are modelled in speculation     *)
(* only, and are raised by instructions other than branches.  A thread has  *)
(* one mapping of addresses; loops, exception handlers and pre- and         *)
(* postambles of instructions are left out.                                 *)
(***************************************************************************)
EXTENDS GenMode, FiniteSets, FiniteSetsExt, SequencesExt, TLC

CONSTANTS Cells,                       \* registers and memory bytes
          InitialPC,
          Targets,                     \* branch targets a script asks for
          SpeculativeBntLevelLimit, SpeculativeBntInstructionLimit, BranchNotTakenLimit,
          MaxScripted,                 \* bound: instructions and linear blocks that scripts ask for
          MaxSimulated,                \* Generator::MaxInstructions
          LastAddress                  \* bound: what lies above it is reserved for the rest of the test

ASSUME FlagsAssumption ==
  {"NoEscape", "Speculative", "SimOff", "NoJump", "Filler", "ReExe"} \subseteq Flags

VARIABLES modes,       \* mpGenMode
          queue,       \* mRequestQueue, its head is the front
          frames,      \* the calls in progress: scripts and rounds, the innermost last
          post,        \* mPostInstrStepRequests
          nodes,       \* mSpeculativeBntNodes and, last, mpHotSpeculativeBntNode
          level,       \* mSpeculativeBntLevel
          bntNodes,    \* mBntNodes
          bntLevel,    \* mBntLevel
          gen, iss,    \* PC and cells, as the generator and as the simulator has them
          issSpeculative,
          code,        \* the instructions in memory, by address
          reserved,    \* addresses reserved with Generator::ReserveMemory
          simulated,   \* mInstrSimulated
          scripted, ending, failure,
          exposed      \* history: addresses of existing code where the thread was left (see FailsOnlyWhenExposed)

engine == <<queue, frames, post>>
machine == <<gen, iss, code, simulated>>
speculation == <<nodes, level, reserved, issSpeculative>>
bnt == <<bntNodes, bntLevel>>
script == <<scripted, ending>>
vars == <<modes, engine, machine, speculation, bnt, script, failure, exposed>>

Uninitialized == -1                   \* a register that the generator has no value of yet
NoInstr == [op |-> "none", id |-> 0]
LINEAR_MODE == {"SimOff", "NoEscape", "NoJump"}
SPECULATIVE_MODE == {"NoEscape", "Speculative"}

InSpeculative == "Speculative" \in modes.mode
SimulationEnabled == "SimOff" \notin modes.mode
CheckEscape == "NoEscape" \notin modes.mode
InFiller == "Filler" \in modes.mode

InstructionVaInitialized(a) == a \in DOMAIN code
Usable(a) == a <= LastAddress /\ a \notin DOMAIN code \cup reserved
VerifyStreamingVa(a, size) == \A b \in a .. a + size - 1 : Usable(b)

Hot == Last(nodes)
Frame == Last(frames)
InScript == Frame.type = "script"
Request(type) == /\ failure = ""
                 /\ Frame.type # "script"
                 /\ Len(queue) > Frame.mark
                 /\ Head(queue).type = type

\* FAIL ends the process: nothing else changes.
Fail(reason) ==
  /\ failure' = reason
  /\ UNCHANGED <<modes, engine, machine, speculation, bnt, script, exposed>>

Init ==
  /\ modes = GenMode({})
  /\ queue = << >> /\ post = << >>
  /\ frames = << [type |-> "script", mark |-> 0, block |-> << >>] >>
  /\ nodes = << >> /\ level = 0 /\ issSpeculative = FALSE
  /\ bntNodes = << >> /\ bntLevel = 0
  /\ gen = [pc |-> InitialPC, data |-> [c \in Cells |-> Uninitialized]]
  /\ iss = [pc |-> InitialPC, data |-> [c \in Cells |-> 0]]
  /\ code = << >> /\ reserved = {}
  /\ simulated = 0
  /\ scripted = 0 /\ ending = FALSE /\ failure = "" /\ exposed = {}

(***************************************************************************)
(* Rounds.  GenInstruction and GenSequence mark the front of the queue,     *)
(* prepend their request and process requests until the mark is the front   *)
(* again.  Requests only ever come and go before the mark, so that is the   *)
(* length that the queue had.                                               *)
(***************************************************************************)
Round(type, requests) ==
  /\ frames' = Append(frames, [type |-> type, mark |-> Len(queue), block |-> << >>])
  /\ queue' = requests \o queue

Prepend(requests) == queue' = requests \o Tail(queue)

\* What a script asks for.  In a linear block it is code that runs from start to end.
ScriptInstructions ==
  LET id == scripted + 1
  IN  {[op |-> "write", id |-> id, cell |-> c] : c \in Cells} \cup
      {[op |-> "branch", id |-> id, target |-> t, taken |-> k, spec |-> s, noBnt |-> FALSE] :
         t \in Targets, k \in {k \in BOOLEAN : k => Frame.block = << >>}, s \in BOOLEAN}

GenInstruction(i) ==
  /\ failure = "" /\ InScript /\ scripted < MaxScripted
  /\ Len(frames) = 1 => ~ ending
  /\ scripted' = scripted + 1
  /\ Round("round", << [type |-> "Instruction", instr |-> i] >>)
  /\ UNCHANGED <<modes, post, machine, speculation, bnt, ending, failure, exposed>>

\* GenInstruction goes on with ProcessPostInstructionStepRequests, a round of its own;
\* GenSequence and that second round return.
FinishRound ==
  /\ failure = "" /\ Frame.type \in {"round", "post", "sequence"} /\ Len(queue) = Frame.mark
  /\ IF Frame.type = "round" /\ post # << >>
     THEN /\ frames' = [frames EXCEPT ![Len(frames)].type = "post"]
          /\ queue' = post \o queue
          /\ post' = << >>
     ELSE /\ frames' = Front(frames)
          /\ UNCHANGED <<queue, post>>
  /\ UNCHANGED <<modes, machine, speculation, bnt, script, failure, exposed>>

(***************************************************************************)
(* Instructions: GenInstructionAgent and, before it, ProcessGenRequest.     *)
(***************************************************************************)
AddingInstruction == Request("Instruction") \/ Request("BranchToTarget")
NeedsEscape == CheckEscape /\ ~ VerifyStreamingVa(gen.pc, 2)
NeedsSkip == ~ CheckEscape /\ InFiller /\ ~ VerifyStreamingVa(gen.pc, 1)

\* The simulator executes what its own PC points at.
Fetched(c) == IF iss.pc \in DOMAIN c THEN c[iss.pc] ELSE NoInstr
IssStep(s, i) ==
  [pc   |-> IF i.op = "branch" /\ i.taken THEN i.target ELSE s.pc + 1,
   data |-> IF i.op = "write" THEN [s.data EXCEPT ![i.cell] = i.id] ELSE s.data]

\* SaveRegisterBeforeUpdate, SaveMemoryBeforeUpdate: a cell is saved once.  A register
\* without a value is given the new one first, and that is what is saved.  (The state of
\* a register has a mask, which does not matter here: the simulator reports the same
\* mask, all ones or, for the privilege, 3, each time that it reports a register.)
\* A variant saves a cell every time, so that recovery would use the latest value.
ValueBeforeUpdate(i) == IF gen.data[i.cell] = Uninitialized THEN i.id ELSE gen.data[i.cell]

SaveBeforeUpdate_Again(n, i) ==
  IF i.op = "write" THEN [n EXCEPT !.saved = (i.cell :> ValueBeforeUpdate(i)) @@ @] ELSE n

SaveBeforeUpdate(n, i) ==
  IF i.op = "write" /\ i.cell \notin DOMAIN n.saved
  THEN [n EXCEPT !.saved = (i.cell :> ValueBeforeUpdate(i)) @@ @]
  ELSE n

RecordExecution(i, excepts) ==
  IF InSpeculative
  THEN LET hot == [Hot EXCEPT !.executed = @ + 1]
       IN  Append(Front(nodes), IF excepts THEN hot ELSE SaveBeforeUpdate(hot, i))
  ELSE nodes

StepFailure ==
  IF InSpeculative /\ nodes = << >> THEN "No-hot-bnt-node"
  ELSE IF simulated >= MaxSimulated THEN "instruction-simulation-limit-exceeded" ELSE ""

CanExcept(i) == InSpeculative /\ i.op = "write"

\* A variant that does not count: nothing ends a loop of re-executed branches.
UpdateInstructionCount_Missing == simulated' = simulated

UpdateInstructionCount == simulated' = simulated + 1

\* What a step of the simulator does to the PC and to the cells; an exception in
\* speculation is undone and skipped (RecoverExceptionBeforeUpdate), but for what the
\* simulator wrote to a register that the generator has no value of.
StepInstructionWithSimulation(i, excepts) ==
  /\ IF excepts
     THEN /\ gen' = [gen EXCEPT !.pc = @ + 1]
          /\ iss' = [pc   |-> gen.pc + 1,
                     data |-> [c \in Cells |-> IF c = i.cell /\ gen.data[c] = Uninitialized
                                              THEN i.id ELSE iss.data[c]]]
     ELSE /\ iss' = IssStep(iss, i)
          /\ gen' = [IssStep(gen, i) EXCEPT !.pc = iss'.pc]
  /\ UpdateInstructionCount

NewBntNode(i, taken, accurate) ==
  [target |-> i.target, nextPC |-> gen.pc + 1, taken |-> taken, accurate |-> accurate]
NewSpeculativeBntNode(i) ==
  [id |-> i.id, target |-> i.target, nextPC |-> gen.pc + 1, taken |-> i.taken, real |-> iss'.pc,
   saved |-> << >>, savedPC |-> << >>, reservedTaken |-> FALSE, executed |-> 0,
   before |-> gen'.data,                 \* history: the cells after the branch (see SpeculationUndone)
   hadCode |-> FALSE]                    \* history: the taken path had code when the node was executed
TakenPath(n) == IF n.taken THEN n.target ELSE n.nextPC
NotTakenPath(n) == IF n.taken THEN n.nextPC ELSE n.target
PathsSame(n) == n.target = n.nextPC

EscapeNeeded ==
  /\ AddingInstruction /\ NeedsEscape
  /\ queue' = << [type |-> "EscapeCollision"] >> \o queue
  /\ UNCHANGED <<modes, frames, post, machine, speculation, bnt, script, failure, exposed>>

\* A filler request at an address that is not usable is dropped.
FillerSkip ==
  /\ AddingInstruction /\ NeedsSkip
  /\ Prepend(<< [type |-> "SetPC", pc |-> gen.pc + 1] >>)
  /\ UNCHANGED <<modes, frames, post, machine, speculation, bnt, script, failure, exposed>>

\* VaGenerator::GenerateAddress: free space for a stream, away from the PC (PcSpacing).
EscapeTargets == {u \in 0 .. LastAddress : VerifyStreamingVa(u, 2) /\ gen.pc \notin {u, u + 1}}

\* The FAIL is about the first free range above the PC; the model has no range that is
\* smaller than an instruction, so that none is left.
EscapeCollision ==
  /\ Request("EscapeCollision")
  /\ IF \A a \in gen.pc .. LastAddress : ~ Usable(a) THEN Fail("inter_size_0_escape_collision")
     ELSE IF EscapeTargets = {} THEN Fail("ConstraintError")
     ELSE /\ \E t \in EscapeTargets :
               Prepend(<< [type |-> "Push", mode |-> {"NoEscape"}],
                          [type |-> "BranchToTarget", target |-> t],
                          [type |-> "Pop", mode |-> {"NoEscape"}] >>)
          /\ UNCHANGED <<modes, frames, post, machine, speculation, bnt, script, failure, exposed>>

BranchToTarget ==
  /\ Request("BranchToTarget") /\ ~ NeedsEscape /\ ~ NeedsSkip
  /\ Prepend(<< [type |-> "Instruction",
                 instr |-> [op |-> "branch", id |-> 0, target |-> Head(queue).target, taken |-> TRUE,
                            spec |-> FALSE, noBnt |-> TRUE]] >>)
  /\ UNCHANGED <<modes, frames, post, machine, speculation, bnt, script, failure, exposed>>

\* Instruction::Generate throws when the hot node has executed its share of
\* instructions, and the request is skipped.
Skipped == InSpeculative /\ nodes # << >> /\ Hot.executed >= SpeculativeBntInstructionLimit

Generating == Request("Instruction") /\ ~ NeedsEscape /\ ~ NeedsSkip

\* The instruction of the request; that of EndOfTest has an offset of 0.
Instr ==
  LET i == Head(queue).instr
  IN  IF i.op = "branchToSelf"
      THEN [op |-> "branch", id |-> 0, target |-> gen.pc, taken |-> TRUE, spec |-> FALSE, noBnt |-> FALSE]
      ELSE i

SkipRequest ==
  /\ Generating /\ Skipped
  /\ Prepend(<< >>)
  /\ UNCHANGED <<modes, frames, post, machine, speculation, bnt, script, failure, exposed>>

\* BranchOperand::Commit runs before the instruction is in memory.  A variant never
\* asks for re-execution.
CommitRequests_None(i) == << >>

CommitRequests(i) ==
  IF i.op = "branch" /\ i.taken /\ InstructionVaInitialized(i.target)
  THEN << [type |-> "ReExecution", addr |-> i.target] >>
  ELSE << >>

\* CommitInstructionFinal and StepInstruction with the simulator.
CommitInstruction(excepts) ==
  /\ Generating /\ ~ Skipped /\ SimulationEnabled
  /\ excepts => CanExcept(Instr)
  /\ IF InstructionVaInitialized(gen.pc) THEN Fail("reinitilize-memory")
     ELSE IF StepFailure # "" THEN Fail(StepFailure)
     ELSE LET i == Instr
              newCode == (gen.pc :> i) @@ code
              bntBranch == i.op = "branch" /\ ~ i.noBnt
          IN  /\ code' = newCode
              /\ StepInstructionWithSimulation(Fetched(newCode), excepts)
              /\ Prepend(CommitRequests(i))
              /\ nodes' = RecordExecution(Fetched(newCode), excepts) \o
                          IF bntBranch /\ i.spec THEN << NewSpeculativeBntNode(i) >> ELSE << >>
              /\ bntNodes' = bntNodes \o
                             IF bntBranch /\ ~ i.spec THEN << NewBntNode(i, i.taken, TRUE) >> ELSE << >>
              /\ post' = post \o
                         IF bntBranch /\ i.spec
                         THEN << [type |-> "SpeculativeBnt", action |-> "Execute", id |-> i.id] >>
                         ELSE << >>
              /\ exposed' = exposed \cup ({gen.pc} \cap {iss'.pc})
              /\ UNCHANGED <<modes, frames, level, reserved, issSpeculative, bntLevel, script, failure>>

\* The same without the simulator: a branch to existing code is not taken, and a
\* branch that is not in a filler has the path that it does not take reserved.
CommitInstructionNoSimulation ==
  /\ Generating /\ ~ Skipped /\ ~ SimulationEnabled
  /\ IF InstructionVaInitialized(gen.pc) THEN Fail("reinitilize-memory")
     ELSE LET i == Instr
              branch == i.op = "branch"
              taken == branch /\ i.taken /\ ~ InstructionVaInitialized(i.target)
              node == NewBntNode(i, taken, InFiller)
              bntBranch == branch /\ ~ i.noBnt
          IN  /\ code' = (gen.pc :> i) @@ code
              /\ gen' = [gen EXCEPT !.pc = IF taken /\ "NoJump" \notin modes.mode THEN i.target ELSE @ + 1]
              /\ bntNodes' = IF bntBranch THEN Append(bntNodes, node) ELSE bntNodes
              /\ reserved' = IF bntBranch /\ ~ InFiller /\ ~ PathsSame(node)
                             THEN reserved \cup {NotTakenPath(node)} ELSE reserved
              /\ Prepend(<< >>)
              /\ UNCHANGED <<modes, frames, post, iss, simulated, nodes, level, issSpeculative,
                             bntLevel, script, failure, exposed>>

\* GenInstructionAgent::ReExecute: ReExeStep stands for its loop.
ReExecution ==
  /\ Request("ReExecution")
  /\ IF ~ SimulationEnabled
     THEN /\ Prepend(<< >>)
          /\ UNCHANGED <<modes, gen, failure, frames, post, iss, code, simulated, speculation, bnt, script, exposed>>
     ELSE IF ~ InstructionVaInitialized(Head(queue).addr) THEN Fail("re-execution-target-not-initialized")
     ELSE /\ gen' = [gen EXCEPT !.pc = Head(queue).addr]
          /\ modes' = PushGenMode(modes, {"ReExe"})
          /\ Prepend(<< [type |-> "ReExeStep"] >>)
          /\ UNCHANGED <<frames, post, iss, code, simulated, speculation, bnt, script, failure, exposed>>

ReExeStep(excepts) ==
  /\ Request("ReExeStep")
  /\ excepts => CanExcept(Fetched(code))
  /\ IF StepFailure # "" THEN Fail(StepFailure)
     ELSE /\ StepInstructionWithSimulation(Fetched(code), excepts)
          /\ nodes' = RecordExecution(Fetched(code), excepts)
          /\ IF excepts \/ gen'.pc \notin DOMAIN code
             THEN Prepend(<< >>) /\ modes' = PopGenMode(modes, {"ReExe"})
             ELSE UNCHANGED <<queue, modes>>
          /\ UNCHANGED <<frames, post, code, level, reserved, issSpeculative, bnt, script, failure, exposed>>

(***************************************************************************)
(* GenStateAgent: mode requests, the PC, linear blocks.                     *)
(***************************************************************************)
PushState ==
  /\ Request("Push")
  /\ modes' = PushGenMode(modes, Head(queue).mode)
  /\ issSpeculative' = (issSpeculative \/ "Speculative" \in Head(queue).mode)
  /\ Prepend(<< >>)
  /\ UNCHANGED <<frames, post, machine, nodes, level, reserved, bnt, script, failure, exposed>>

PopState ==
  /\ Request("Pop")
  /\ LET m == Head(queue).mode
     IN  IF PopFails(modes, m) THEN Fail("pop-gen-mode-check-failed")
         ELSE /\ modes' = PopGenMode(modes, m)
              /\ issSpeculative' = (issSpeculative /\ ("Speculative" \in m => "Speculative" \in modes'.mode))
              /\ Prepend(<< >>)
              /\ UNCHANGED <<frames, post, machine, nodes, level, reserved, bnt, script, failure, exposed>>

\* A variant that forgets UpdatePcOnISS.
SetState_GeneratorOnly ==
  /\ Request("SetPC")
  /\ gen' = [gen EXCEPT !.pc = Head(queue).pc]
  /\ Prepend(<< >>)
  /\ UNCHANGED <<modes, frames, post, iss, code, simulated, speculation, bnt, script, failure, exposed>>

SetState ==
  /\ Request("SetPC")
  /\ gen' = [gen EXCEPT !.pc = Head(queue).pc]
  /\ iss' = [iss EXCEPT !.pc = Head(queue).pc]
  /\ Prepend(<< >>)
  /\ UNCHANGED <<modes, frames, post, code, simulated, speculation, bnt, script, failure, exposed>>

\* Some scripts confirm the space first (SequenceUtility with ConfirmSpace), others do
\* not (acquireSemaphore).
BeginLinearBlock(confirmed) ==
  /\ failure = "" /\ InScript /\ Frame.block = << >>
  /\ Len(frames) = 1 => ~ ending
  /\ SimulationEnabled /\ scripted < MaxScripted
  /\ confirmed = VerifyStreamingVa(gen.pc, MaxScripted)
  /\ IF \E f \in Range(frames) : f.type = "script" /\ f.block # << >> THEN Fail("overlapping-linear-block")
     ELSE IF EnableFails(modes, LINEAR_MODE) THEN Fail("mode-already-enabled")
     ELSE /\ frames' = [frames EXCEPT ![Len(frames)].block = << [start |-> gen.pc, end |-> gen.pc, confirmed |-> confirmed] >>]
          /\ modes' = EnableGenMode(modes, LINEAR_MODE)
          /\ scripted' = scripted + 1
          /\ UNCHANGED <<queue, post, machine, speculation, bnt, ending, failure, exposed>>

\* GenStateAgent::EndLinearBlock and GenThread.endLinearBlock, which re-executes the
\* block until the PC is at its end.
EndLinearBlock(execute) ==
  /\ failure = "" /\ InScript /\ Frame.block # << >>
  /\ IF DisableFails(modes, LINEAR_MODE) THEN Fail("disable-gen-mode-check-failed")
     ELSE LET block == Frame.block[1]
              closed == [frames EXCEPT ![Len(frames)].block = << >>]
          IN  /\ modes' = DisableGenMode(modes, LINEAR_MODE)
              /\ IF execute /\ block.start # gen.pc
                 THEN /\ frames' = Append(closed, [type |-> "linear", mark |-> Len(queue),
                                                   block |-> << [block EXCEPT !.end = gen.pc] >>])
                      /\ queue' = << [type |-> "ReExecution", addr |-> block.start] >> \o queue
                 ELSE frames' = closed /\ UNCHANGED queue
              /\ iss' = IF execute THEN iss ELSE [iss EXCEPT !.pc = gen.pc]
              /\ exposed' = IF block.confirmed THEN exposed ELSE exposed \cup {gen.pc}
              /\ UNCHANGED <<post, gen, code, simulated, speculation, bnt, script, failure>>

FinishLinearBlock ==
  /\ failure = "" /\ Frame.type = "linear" /\ Len(queue) = Frame.mark
  /\ IF gen.pc = Frame.block[1].end
     THEN frames' = Front(frames) /\ UNCHANGED queue
     ELSE /\ queue' = << [type |-> "ReExecution", addr |-> Frame.block[1].start] >> \o queue
          /\ UNCHANGED frames
  /\ UNCHANGED <<modes, post, machine, speculation, bnt, script, failure, exposed>>

(***************************************************************************)
(* Speculative BNT nodes.                                                   *)
(***************************************************************************)
SpeculativeBnt(action) == Request("SpeculativeBnt") /\ Head(queue).action = action
NotHot == nodes = << >> \/ Hot.id # Head(queue).id

PopFailure(lvl) ==
  IF nodes = << >> THEN "No-hot-BntNode"
  ELSE IF DOMAIN Hot.saved # {} \/ Hot.savedPC # << >> THEN "dangling-resource-state-pointer"
  ELSE IF lvl = 0 THEN "Speculative-Bntlevel-Underflow" ELSE ""

\* A variant that leaves the path that the branch takes to the code on the other one.
ReserveTakenPath_Not(n) == FALSE

ReserveTakenPath(n) == Usable(TakenPath(n))

ExecuteSpeculativeBntNode ==
  /\ SpeculativeBnt("Execute")
  /\ IF NotHot THEN Fail("process-not-hot-BntNode")
     ELSE IF PathsSame(Hot) \/ level + 1 > SpeculativeBntLevelLimit
     THEN IF PopFailure(level + 1) # "" THEN Fail(PopFailure(level + 1))
          ELSE /\ nodes' = Front(nodes)
               /\ Prepend(<< >>)
               /\ UNCHANGED <<modes, frames, post, machine, level, reserved, issSpeculative, bnt, script, failure, exposed>>
     ELSE LET reserve == ReserveTakenPath(Hot)
              act(a) == [type |-> "SpeculativeBnt", action |-> a, id |-> Hot.id]
          IN  /\ level' = level + 1
              /\ reserved' = IF reserve THEN reserved \cup {TakenPath(Hot)} ELSE reserved
              /\ nodes' = Append(Front(nodes), [Hot EXCEPT !.reservedTaken = reserve,
                                                           !.savedPC = << Hot.real >>,
                                                           !.before = IF InSpeculative THEN @ ELSE gen.data,
                                                           !.hadCode = InstructionVaInitialized(TakenPath(Hot))])
              /\ Prepend(<< [type |-> "Push", mode |-> SPECULATIVE_MODE],
                            [type |-> "SetPC", pc |-> NotTakenPath(Hot)],
                            [type |-> "CallBackBnt", path |-> NotTakenPath(Hot)],
                            act("Restore"), act("Pop"),
                            [type |-> "Pop", mode |-> SPECULATIVE_MODE] >>)
              /\ exposed' = IF gen.pc = Hot.real THEN exposed ELSE exposed \cup {Hot.real}
              /\ UNCHANGED <<modes, frames, post, machine, issSpeculative, bnt, script, failure>>

\* ResourcePeStateStack::RecoverResourcePeStates, on the generator and on the simulator.
Recover(s, n) ==
  [pc   |-> IF n.savedPC = << >> THEN s.pc ELSE n.savedPC[1],
   data |-> [c \in Cells |-> IF c \in DOMAIN n.saved THEN n.saved[c] ELSE s.data[c]]]

RestoreSpeculativeBntNode ==
  /\ SpeculativeBnt("Restore")
  /\ IF NotHot THEN Fail("process-not-hot-BntNode")
     ELSE /\ gen' = Recover(gen, Hot) /\ iss' = Recover(iss, Hot)
          /\ nodes' = Append(Front(nodes), [Hot EXCEPT !.saved = << >>, !.savedPC = << >>])
          /\ reserved' = IF Hot.reservedTaken THEN reserved \ {TakenPath(Hot)} ELSE reserved
          /\ Prepend(<< >>)
          /\ UNCHANGED <<modes, frames, post, code, simulated, level, issSpeculative, bnt, script, failure, exposed>>

PopSpeculativeBntNode ==
  /\ SpeculativeBnt("Pop")
  /\ IF NotHot THEN Fail("process-not-hot-BntNode")
     ELSE IF PopFailure(level) # "" THEN Fail(PopFailure(level))
     ELSE /\ nodes' = Front(nodes) /\ level' = level - 1
          /\ Prepend(<< >>)
          /\ UNCHANGED <<modes, frames, post, machine, reserved, issSpeculative, bnt, script, failure, exposed>>

\* GenCallBackAgent::ProcessAccurateBntNode calls a BntSequence, a script, back.  (It
\* changes the instruction space of GenPC too, which is how much of the PC's surroundings
\* is translated; the escape check asks the generator's, which does not change.)
CallBackBnt ==
  /\ Request("CallBackBnt")
  /\ Prepend(<< >>)
  /\ IF Usable(Head(queue).path)
     THEN /\ gen' = [gen EXCEPT !.pc = Head(queue).path]
          /\ frames' = Append(frames, [type |-> "script", mark |-> 0, block |-> << >>])
          /\ modes' = PushGenMode(modes, {"Filler"})
     ELSE UNCHANGED <<gen, frames, modes>>
  /\ UNCHANGED <<post, iss, code, simulated, speculation, bnt, script, failure, exposed>>

ScriptReturns ==
  /\ failure = "" /\ InScript /\ Len(frames) > 1 /\ Frame.block = << >>
  /\ IF PopFails(modes, {"Filler"}) THEN Fail("pop-gen-mode-check-failed")
     ELSE /\ modes' = PopGenMode(modes, {"Filler"})
          /\ frames' = Front(frames)
          /\ UNCHANGED <<queue, post, machine, speculation, bnt, script, failure, exposed>>

(***************************************************************************)
(* GenThreadEndSequence: a branch to itself ends the test.  Then the paths  *)
(* not taken of the branches that were not speculative are filled, without  *)
(* the simulator.                                                           *)
(***************************************************************************)
EndOfTest ==
  /\ failure = "" /\ Len(frames) = 1 /\ Frame.block = << >> /\ ~ ending
  /\ ending' = TRUE
  /\ Round("sequence", << [type |-> "Instruction", instr |-> [op |-> "branchToSelf"]],
                          [type |-> "BranchNotTaken"] >>)
  /\ UNCHANGED <<modes, post, machine, speculation, bnt, scripted, failure, exposed>>

BranchNotTaken ==
  /\ Request("BranchNotTaken")
  /\ LET open == SelectSeq(bntNodes, LAMBDA n : ~ PathsSame(n))
         request(n) == IF n.accurate THEN [type |-> "CallBackBnt", path |-> NotTakenPath(n)]
                                     ELSE [type |-> "BntNode", node |-> n]
     IN  IF bntNodes = << >>
         THEN Prepend(<< >>) /\ UNCHANGED bntLevel
         ELSE /\ bntLevel' = bntLevel + 1
              /\ Prepend(IF bntLevel' > BranchNotTakenLimit THEN << >>
                         ELSE << [type |-> "Push", mode |-> {"SimOff"}] >>
                              \o [k \in DOMAIN open |-> request(open[k])]
                              \o << [type |-> "Pop", mode |-> {"SimOff"}] >>
                              \o IF open = << >> THEN << >> ELSE << [type |-> "BranchNotTaken"] >>)
  /\ bntNodes' = << >>
  /\ UNCHANGED <<modes, frames, post, machine, speculation, script, failure, exposed>>

ProcessBntNode ==
  /\ Request("BntNode")
  /\ LET n == Head(queue).node
     IN  IF InstructionVaInitialized(NotTakenPath(n))
         THEN Prepend(<< >>) /\ UNCHANGED gen
         ELSE /\ gen' = [gen EXCEPT !.pc = NotTakenPath(n)]
              /\ Prepend(<< [type |-> "BranchToTarget", target |-> TakenPath(n)] >>)
  /\ UNCHANGED <<modes, frames, post, iss, code, simulated, speculation, bnt, script, failure, exposed>>

-----------------------------------------------------------------------------
Engine ==
  \/ FinishRound \/ FinishLinearBlock
  \/ EscapeNeeded \/ FillerSkip \/ EscapeCollision \/ BranchToTarget
  \/ SkipRequest
  \/ \E x \in BOOLEAN : CommitInstruction(x)
  \/ CommitInstructionNoSimulation
  \/ ReExecution
  \/ \E x \in BOOLEAN : ReExeStep(x)
  \/ PushState \/ PopState \/ SetState
  \/ ExecuteSpeculativeBntNode \/ RestoreSpeculativeBntNode \/ PopSpeculativeBntNode
  \/ CallBackBnt \/ BranchNotTaken \/ ProcessBntNode

Script ==
  \/ \E i \in ScriptInstructions : GenInstruction(i)
  \/ \E x \in BOOLEAN : BeginLinearBlock(x)
  \/ \E x \in BOOLEAN : EndLinearBlock(x)
  \/ ScriptReturns \/ EndOfTest

Next == Engine \/ Script

\* One thread runs at a time and its calls return: requests are processed to the end of
\* the round, and a BntSequence generates a finite number of instructions.
Spec ==
  /\ Init /\ [][Next]_vars
  /\ WF_vars(Engine) /\ WF_vars(ScriptReturns) /\ WF_vars(\E x \in BOOLEAN : EndLinearBlock(x))

(***************************************************************************)
(* Properties.                                                              *)
(***************************************************************************)
\* Once a node is restored (the front of the queue pops it), the generator and the
\* simulator are at the path that the branch really takes, and every cell is as it was:
\* whatever the speculative path wrote, nested speculation, exceptions and re-execution
\* included, is undone.  A register without a value before may have one now, in both of
\* them.  Existing code that is re-executed between the branch and its node is undone too
\* when that happens in the speculation of another branch, and is not otherwise
\* (RestoreSpeculativeBntNode, SaveRegisterBeforeUpdate, ResourcePeState.cc).
SpeculationUndone ==
  SpeculativeBnt("Pop") /\ ~ NotHot =>
    /\ gen.pc = Hot.real /\ iss.pc = Hot.real
    /\ \A c \in Cells :
         LET old == Hot.before[c]
         IN  IF old = Uninitialized THEN gen.data[c] \in {Uninitialized, iss.data[c]}
             ELSE gen.data[c] = old /\ iss.data[c] = old

\* Whenever a script runs and the simulator is on, generator and simulator agree on PC
\* and on the cells that have a value, and the simulator is in speculative mode exactly
\* when the generator is (GenStateAgent::SetState, PushState and PopState,
\* EndLinearBlock, SaveRegisterBeforeUpdate, RecoverExceptionBeforeUpdate).
IssInStep ==
  InScript /\ SimulationEnabled /\ ~ ending =>
    /\ iss.pc = gen.pc
    /\ \A c \in Cells : gen.data[c] \in {Uninitialized, iss.data[c]}
    /\ issSpeculative = InSpeculative

Limits == {"instruction-simulation-limit-exceeded", "inter_size_0_escape_collision", "ConstraintError"}

\* No request meets a check that ends the process, but for the limits on simulated
\* instructions and on room for an escape, and but for these cases.  Generating or
\* re-executing a linear block whose space was not confirmed meets existing code or,
\* where instructions were skipped, no code.  Existing code is met where something left
\* the thread on it: such a block ended there, a branch to itself was generated there, or
\* a node was restored to there after the branch's target, existing code, had been
\* re-executed.  And such a node, when it is popped at once, has states left to recover
\* (FAIL in Memory::Initialize, ReExecute, ProcessSpeculativeBntNode,
\* ~SpeculativeBntNode, GenMode, ReExecutionManager).
FailsOnlyWhenExposed ==
  \/ failure \in {""} \cup Limits
  \/ /\ failure \in {"reinitilize-memory", "re-execution-target-not-initialized"}
     /\ \E f \in Range(frames) : f.block # << >> /\ ~ f.block[1].confirmed
  \/ failure = "reinitilize-memory" /\ gen.pc \in exposed
  \/ failure = "dangling-resource-state-pointer" /\ Head(queue).action = "Execute" /\ gen.pc # Hot.real

\* While the other path of a branch is being generated, no instruction is put where the
\* branch goes, and a reservation made for that stays in place until the node gives it
\* back (ReserveTakenPath, UnreserveTakenPath, the filler check of ProcessGenRequest).
TakenPathKept ==
  \A n \in {nodes[k] : k \in DOMAIN nodes} : n.savedPC # << >> =>
    /\ InstructionVaInitialized(TakenPath(n)) => n.hadCode
    /\ n.reservedTaken => TakenPath(n) \in reserved

\* Every mode that is pushed is popped in its turn: the stack is as deep as there are
\* Pop requests, re-executions and call backs in progress, and when the main script runs
\* outside a linear block the mode is the initial one (GenMode.cc).
ModesBalanced ==
  /\ Consistent(modes)
  /\ Len(modes.stack) + Len(SelectSeq(queue, LAMBDA r : r.type = "Push")) =
       Len(SelectSeq(queue, LAMBDA r : r.type \in {"Pop", "ReExeStep"})) +
       Len(SelectSeq(frames, LAMBDA f : f.type = "script")) - 1
  /\ Len(frames) = 1 /\ Frame.block = << >> => modes = GenMode({}) /\ queue = << >> /\ nodes = << >>

\* Every call of the main script returns, or the process ends: neither escapes nor
\* re-execution nor nested speculation go on for ever.
RoundsFinish == []<>(Len(frames) = 1 \/ failure # "")

=============================================================================
